-------------------------------- MODULE Scan --------------------------------
(***************************************************************************)
(* system/system.c: sscanf.  One step per round of the loop of             *)
(* pre_vsscanf; the number parser below it as operators.                   *)
(*                                                                         *)
(* The input and the format are sequences of characters.  The format is    *)
(* made of items that say what it means; the code sees their text only.    *)
(* Positions count from 1; the terminating NUL is what At returns past     *)
(* the end.                                                                *)
(***************************************************************************)
EXTENDS Integers, SequencesExt

CONSTANTS
    Inputs,         \* strings to scan
    Formats,        \* formats: sequences of items [text, conv, size]
    Octal,          \* BASE_8
    CharSize,       \* 2^8,  the values of a char
    ShortSize,      \* 2^16, of a short
    IntSize,        \* 2^32, of an int, a long and a size_t
    LongLongSize    \* 2^64

ASSUME SizesAssumption ==
    /\ Octal \in {8, 9}
    /\ {CharSize, IntSize, LongLongSize} \subseteq Nat \ {0}
    /\ LongLongSize % IntSize = 0 /\ IntSize % CharSize = 0
    /\ ShortSize \in Nat \ {0} /\ ShortSize % 2 = 0 /\ IntSize % ShortSize = 0
ASSUME StringsAssumption ==
    /\ Inputs \subseteq Seq(STRING)
    /\ Formats \subseteq Seq([text : Seq(STRING), conv : STRING, size : Nat])

VARIABLES
    items,          \* what the format means, for the properties
    str, fmt,       \* positions in the input and in the format
    num,
    stored,         \* what was stored, in the order of the arguments
    pc,
    buf, format     \* __s and __format

vars == <<items, str, fmt, num, stored, pc, buf, format>>

NUL == "NUL"
Decimal == <<"0", "1", "2", "3", "4", "5", "6", "7", "8", "9">>
Hex == Decimal \o <<"a", "b", "c", "d", "e", "f">>

At(s, i) == IF i \in DOMAIN s THEN s[i] ELSE NUL

\* The first position of stops from i on, or else the end of the string.
FirstOf(s, i, stops) ==
    CHOOSE j \in i .. Len(s) + 1 :
        /\ j \in stops \cup {Len(s) + 1}
        /\ \A k \in i .. j - 1 : k \notin stops

\* The next of some characters, and the next that is none of them.
Seek(s, i, chars) == FirstOf(s, i, {k \in DOMAIN s : s[k] \in chars})
Skip(s, i, chars) == FirstOf(s, i, {k \in DOMAIN s : s[k] \notin chars})

IsIn(c, digits) == \E i \in DOMAIN digits : digits[i] = c
ValueOf(c) == (CHOOSE i \in DOMAIN Hex : Hex[i] = c) - 1

\* isspace_re: of its character constants only ' ' is one; '/t' is not '\t'.
Spaces == {" "}
IsSpace(c) == c \in Spaces

SkipSpaces(s, i) == Skip(s, i, Spaces)

TextOf(its) == FlattenSeq([i \in DOMAIN its |-> its[i].text])

--------------------------------------------------------------------------
(* Numbers.                                                                *)

\* _parse_integer_fixup_radix: the base, and where the digits start.
FixupRadix(s, i, base) ==
    LET prefixed == At(s, i) = "0" /\ At(s, i + 1) = "x"
        b == IF base # 0 THEN base
             ELSE IF prefixed /\ IsIn(At(s, i + 2), Hex) THEN 16
             ELSE IF At(s, i) = "0" THEN Octal ELSE 10
    IN  [base |-> b, start |-> IF b = 16 /\ prefixed THEN i + 2 ELSE i]

\* Mutant: a digit equal to the base is accepted.
DigitsEndLax(s, i, base) == Skip(s, i, {c \in ToSet(Hex) : ValueOf(c) <= base})

DigitsEnd(s, i, base) == Skip(s, i, {c \in ToSet(Hex) : ValueOf(c) < base})

\* _parse_integer.  The overflow it notices is or-ed into the result as 0.
ParseInteger(s, i, base) ==
    LET end == DigitsEnd(s, i, base)
        value[n \in 0 .. end - i] ==
            IF n = 0 THEN 0
            ELSE (value[n - 1] * base + ValueOf(s[i + n - 1])) % LongLongSize
    IN  [value |-> value[end - i], end |-> end]

\* simple_strtoull, and simple_strtoul, which only narrows the result.
StrToU(s, i, base) ==
    LET r == FixupRadix(s, i, base) IN ParseInteger(s, r.start, r.base)

\* simple_strtoll and simple_strtol.
StrToS(s, i, base) ==
    IF At(s, i) = "-"
    THEN LET r == StrToU(s, i + 1, base) IN [r EXCEPT !.value = (-r.value) % LongLongSize]
    ELSE StrToU(s, i, base)

\* A value as an object of that many values holds it.
Narrow(v, size, signed) ==
    LET w == v % size IN IF signed /\ 2 * w >= size THEN w - size ELSE w

SizeOf(q) ==
    CASE q = "H" -> CharSize
      [] q = "L" -> LongLongSize
      [] OTHER -> IntSize

--------------------------------------------------------------------------
(* pre_vsscanf.                                                            *)

Init ==
    /\ items \in Formats /\ format = TextOf(items)
    /\ buf \in Inputs
    /\ str = 1 /\ fmt = 1 /\ num = 0
    /\ stored = <<>>
    /\ pc = "loop"

More == pc = "loop" /\ fmt <= Len(format) /\ str <= Len(buf)

\* White space at the head of the format is skipped in both strings.
AtSpace == IsSpace(At(format, fmt))
F == IF AtSpace THEN SkipSpaces(format, fmt + 1) ELSE fmt
S == IF AtSpace THEN SkipSpaces(buf, str) ELSE str

Goto(label, f, s) == pc' = label /\ fmt' = f /\ str' = s /\ UNCHANGED <<items, buf, format>>
NothingStored == UNCHANGED <<num, stored>>

Put(conv, from, to, value) ==
    stored' = Append(stored, [conv |-> conv, from |-> from, to |-> to, value |-> value])

\* Mutant: a match of the literal leaves the input where it was.
LiteralStays ==
    /\ More
    /\ At(format, F) \notin {"%", NUL}
    /\ Goto(IF At(format, F) = At(buf, S) THEN "loop" ELSE "tail", F + 1, S)
    /\ NothingStored

\* A character that must match exactly; the input moves on even if it does not.
Literal ==
    /\ More
    /\ At(format, F) \notin {"%", NUL}
    /\ Goto(IF At(format, F) = At(buf, S) THEN "loop" ELSE "tail", F + 1, S + 1)
    /\ NothingStored

FormatEnds ==
    /\ More
    /\ At(format, F) = NUL
    /\ Goto("tail", F, S)
    /\ NothingStored

Directive == More /\ At(format, F) = "%"

\* Mutant: the format is left at the asterisk.
SuppressStays ==
    /\ Directive
    /\ At(format, F + 1) = "*"
    /\ Goto("loop", F, Seek(buf, S, Spaces))
    /\ NothingStored

\* %* : the format moves to the next white space or %, the input to the next
\* white space.
Suppress ==
    /\ Directive
    /\ At(format, F + 1) = "*"
    /\ Goto("loop", Seek(format, F + 1, Spaces \cup {"%"}), Seek(buf, S, Spaces))
    /\ NothingStored

\* Where the digits of the field width end, and the width, -1 if none, in
\* the short that keeps it.
WidthEnd == Skip(format, F + 1, ToSet(Decimal))
Width ==
    IF WidthEnd = F + 1 THEN -1
    ELSE Narrow(ParseInteger(format, F + 1, 10).value, ShortSize, TRUE)

\* The most that %c and %s copy, whose loops count the short down: to 0 or
\* less, and to 0 itself.
CharacterLimit == 1 + Narrow(Width - 1, ShortSize, TRUE)
StringLimit == IF Width = -1 THEN ShortSize \div 2 - 1 ELSE Width % ShortSize

Qualified == At(format, WidthEnd) \in {"h", "l", "L", "z", "Z"}
Doubled == Qualified /\ At(format, WidthEnd) = At(format, WidthEnd + 1)

\* What the switch over the conversions sees; h and l take a character more.
Qualifier ==
    LET q == At(format, WidthEnd)
    IN  IF ~Qualified THEN "" ELSE IF q = "h" THEN "H" ELSE IF q = "l" THEN "L" ELSE q
Conv ==
    WidthEnd + (IF ~Qualified THEN 0 ELSE IF At(format, WidthEnd) \in {"h", "l"} THEN 2 ELSE 1)

Conversion == Directive /\ At(format, F + 1) # "*"

\* hh and ll end the scan, and so does the end of either string.
CannotConvert ==
    /\ Conversion
    /\ \/ Doubled /\ Goto("tail", WidthEnd + 1, S)
       \/ /\ ~Doubled
          /\ At(format, Conv) = NUL \/ At(buf, S) = NUL
          /\ Goto("tail", Conv, S)
    /\ NothingStored

Converts(convs) ==
    /\ Conversion /\ ~Doubled
    /\ At(format, Conv) \in convs /\ At(buf, S) # NUL

\* Mutant: %5c on a shorter input does not stop at its end.
CharactersPastEnd ==
    /\ Converts({"c"})
    /\ LET n == Max({1, CharacterLimit})
       IN  Put("c", S, S + n, 0) /\ Goto("loop", Conv + 1, S + n)
    /\ num' = num + 1

\* %c copies at least one character, also white space.
Characters ==
    /\ Converts({"c"})
    /\ LET n == Max({1, Min({CharacterLimit, Len(buf) - S + 1})})
       IN  Put("c", S, S + n, 0) /\ Goto("loop", Conv + 1, S + n)
    /\ num' = num + 1

\* %s copies up to the next white space or the field width.
StringToSpace ==
    /\ Converts({"s"})
    /\ LET from == SkipSpaces(buf, S)
           end == Seek(buf, from, Spaces)
           to == Min({end, from + StringLimit})
       IN  Put("s", from, to, 0) /\ Goto("loop", Conv + 1, to)
    /\ num' = num + 1

\* %n stores the number of characters read so far.
Count ==
    /\ Converts({"n"})
    /\ Put("n", S, S, Narrow(S - 1, IntSize, TRUE))
    /\ Goto("loop", Conv + 1, S)
    /\ UNCHANGED num

\* Only %% matches itself; anything else is an invalid format.
PercentOrInvalid ==
    /\ Conversion /\ ~Doubled
    /\ At(format, Conv) \notin {"c", "s", "n", "o", "x", "X", "i", "d", "u", NUL}
    /\ At(buf, S) # NUL
    /\ LET c == At(format, Conv)
       IN  Goto(IF c = "%" /\ At(buf, S) = "%" THEN "loop" ELSE "done", Conv + 1,
                IF c = "%" THEN S + 1 ELSE S)
    /\ NothingStored

Base(c) ==
    CASE c = "o" -> Octal
      [] c \in {"x", "X"} -> 16
      [] c = "i" -> 0
      [] OTHER -> 10

\* The first digit, after a sign of a signed conversion, fits the base.
StartsNumber(c, i) ==
    LET d == IF c \in {"i", "d"} /\ At(buf, i) = "-" THEN At(buf, i + 1) ELSE At(buf, i)
    IN  CASE Base(c) = 16 -> IsIn(d, Hex)
          [] Base(c) = Octal -> IsIn(d, SubSeq(Decimal, 1, 8))
          [] OTHER -> IsIn(d, Decimal)

Ints == {"o", "x", "X", "i", "d", "u"}

NotANumber ==
    /\ Converts(Ints)
    /\ LET i == SkipSpaces(buf, S)
       IN  ~StartsNumber(At(format, Conv), i) /\ Goto("tail", Conv + 1, i)
    /\ NothingStored

\* The width of a number is not looked at.  z is unsigned whatever follows it.
Number ==
    /\ Converts(Ints)
    /\ LET c == At(format, Conv)
           i == SkipSpaces(buf, S)
           signed == c \in {"i", "d"} /\ Qualifier \notin {"z", "Z"}
           r == IF signed THEN StrToS(buf, i, Base(c)) ELSE StrToU(buf, i, Base(c))
       IN  /\ StartsNumber(c, i)
           /\ Put(c, i, r.end, Narrow(r.value, SizeOf(Qualifier), signed))
           /\ Goto("loop", Conv + 1, r.end)
    /\ num' = num + 1

\* After the loop, a %n that is next in the format is filled.
TrailingCount ==
    /\ pc = "tail" \/ (pc = "loop" /\ ~More)
    /\ IF At(format, fmt) = "%" /\ At(format, fmt + 1) = "n"
       THEN Put("n", str, str, Narrow(str - 1, IntSize, TRUE)) ELSE UNCHANGED stored
    /\ Goto("done", fmt, str)
    /\ UNCHANGED num

Returned == pc = "done" /\ UNCHANGED vars

Next ==
    \/ Literal \/ FormatEnds \/ Suppress \/ CannotConvert
    \/ Characters \/ StringToSpace \/ Count \/ PercentOrInvalid
    \/ NotANumber \/ Number \/ TrailingCount
    \/ Returned

Spec == Init /\ [][Next]_vars

--------------------------------------------------------------------------
(* What the items of a format ask for, and what a number stands for.       *)

\* The conversions that store something.
Kinds == Ints \cup {"c", "s", "n"}

\* An item and its text: a character, white space, a suppressed conversion, or
\* one with a width and a qualifier.  z with a signed conversion means nothing.
WellFormed(it) ==
    LET text == it.text
        w == Skip(text, 2, ToSet(Decimal))
        q == IF At(text, w) \in {"L", "z", "Z"} THEN text[w] ELSE ""
        c == At(text, Len(text))
    IN  \/ it.conv = "=" /\ Len(text) = 1 /\ c \notin Spaces \cup {"%", NUL}
        \/ it.conv = "ws" /\ Len(text) = 1 /\ IsSpace(c)
        \/ /\ it.conv = "*"
           /\ At(text, 1) = "%" /\ At(text, 2) = "*"
           /\ \A i \in 2 .. Len(text) : text[i] \notin Spaces \cup {"%"}
        \/ /\ it.conv = IF c \in Kinds \cup {"%"} THEN c ELSE "bad"
           /\ At(text, 1) = "%" /\ Len(text) = IF q = "" THEN w ELSE w + 1
           /\ c \notin {"*", "L", "z", "Z", NUL}
           /\ c \in Ints => it.size = SizeOf(q)
           /\ c \in {"i", "d"} => q \notin {"z", "Z"}

UsedIn(its, c) == \E i \in DOMAIN its : IsIn(c, its[i].text)
Uses(c) == UsedIn(items, c)

\* The formats that mean something to the code: without h and l, and with
\* white space or a conversion behind what is suppressed.
FormatsWellFormed ==
    \A its \in Formats : ~UsedIn(its, "h") /\ ~UsedIn(its, "l") =>
       \A i \in DOMAIN its :
          /\ WellFormed(its[i])
          /\ its[i].conv = "*" /\ i < Len(its) => its[i + 1].text[1] \in Spaces \cup {"%"}

\* The elements of s at some places, in their order.
Rank(places, j) == Cardinality({k \in places : k <= j})
Picked(s, places) ==
    [i \in 1 .. Cardinality(places) |-> s[CHOOSE j \in places : Rank(places, j) = i]]

\* Of the first n items, those that store something and those that match.
Storing(n) == Picked(items, {i \in 1 .. n : items[i].conv \in Kinds})
Matching(n) == Picked(items, {i \in 1 .. n : items[i].conv \in {"=", "%"}})
Conversions(s) == [i \in DOMAIN s |-> s[i].conv]

\* The characters read so far that no conversion took.
Others ==
    Picked(buf, {i \in 1 .. str - 1 :
                    /\ ~IsSpace(buf[i])
                    /\ \A k \in DOMAIN stored : i \notin stored[k].from .. stored[k].to - 1})

\* The digits of a number, without its sign and prefix, and their base.
Unsigned(text) == IF At(text, 1) = "-" THEN Tail(text) ELSE text
Prefixed(text) == At(text, 1) = "0" /\ At(text, 2) = "x"
RadixOf(conv, text) ==
    CASE conv \in {"x", "X"} -> 16
      [] conv = "o" -> 8
      [] conv = "i" -> IF Prefixed(text) THEN 16 ELSE IF At(text, 1) = "0" THEN 8 ELSE 10
      [] OTHER -> 10

\* The number that digits stand for, from the units on.
Positional(digits, base) ==
    LET len == Len(digits)
        place[i \in 0 .. len] == IF i = 0 THEN 1 ELSE place[i - 1] * base
        sum[i \in 0 .. len] ==
            IF i = 0 THEN 0 ELSE sum[i - 1] + ValueOf(digits[len + 1 - i]) * place[i - 1]
    IN  sum[len]

\* A value of a conversion is n, as far as size values can be.
Stands(conv, value, size, n) ==
    IF conv \in {"d", "i"}
    THEN -size <= 2 * value /\ 2 * value < size /\ (value - n) % size = 0
    ELSE value = n % size

\* These are digits of the base, and c is not one more.
AllDigits(digits, base, c) ==
    /\ \A i \in DOMAIN digits : ValueOf(digits[i]) < base
    /\ IsIn(c, Hex) => ValueOf(c) >= base

\* x holds the number its text stands for, as far as its size goes.
Holds(x, size) ==
    LET text == SubSeq(buf, x.from, x.to - 1)
        plain == Unsigned(text)
        base == RadixOf(x.conv, plain)
        digits == IF base = 16 /\ Prefixed(plain) THEN SubSeq(plain, 3, Len(plain)) ELSE plain
        n == Positional(digits, base)
    IN  /\ Stands(x.conv, x.value, size, IF plain = text THEN n ELSE -n)
        /\ AllDigits(digits, base, At(buf, x.to))

IsOctal(x) == RadixOf(x.conv, Unsigned(SubSeq(buf, x.from, x.to - 1))) = 8

--------------------------------------------------------------------------
(* Properties.                                                             *)

\* Positions stay within the strings and their terminators, except that a
\* mismatch may leave the input one position later; then nothing is read.
TypeOK ==
    /\ buf \in Seq(STRING)
    /\ fmt \in 1 .. Len(format) + 1
    /\ str \in 1 .. Len(buf) + 2
    /\ pc = "loop" => str <= Len(buf) + 1
    /\ num \in 0 .. Len(stored)
    /\ \A k \in DOMAIN stored :
          /\ stored[k].conv \in Kinds
          /\ stored[k].from <= stored[k].to
          /\ stored[k].value \in -LongLongSize .. LongLongSize
    /\ pc \in {"loop", "tail", "done"}

\* Every number that is not octal is the one its digits stand for, cut to the
\* size of its argument.
ValueRight ==
    ~Uses("h") /\ ~Uses("l") =>
       \A k \in DOMAIN stored :
          stored[k].conv \in Ints /\ ~IsOctal(stored[k]) =>
             Holds(stored[k], Storing(Len(items))[k].size)

\* As long as the scan goes on, what was stored and what was matched is what
\* the part of the format it has passed asks for, and num counts it.
FormatMatched ==
    pc = "loop" /\ ~Uses("h") /\ ~Uses("l") =>
       \E n \in 0 .. Len(items) :
          /\ Len(TextOf(SubSeq(items, 1, n))) = fmt - 1
          /\ Conversions(stored) = Conversions(Storing(n))
          /\ num = Cardinality({k \in DOMAIN stored : stored[k].conv # "n"})
          /\ ~Uses("*") =>
                Others = [i \in DOMAIN Matching(n) |-> Last(Matching(n)[i].text)]

\* Every call returns: a step is always possible before the end, and a round of
\* the loop that is not the last consumes at least one character of the format.
RoundsEnd == [][pc' # pc \/ (fmt' > fmt /\ fmt' <= Len(format) + 1)]_vars

\* An octal number is the one its digits stand for: BASE_8, digit > '7'.
OctalRight ==
    \A k \in DOMAIN stored :
       stored[k].conv \in Ints /\ IsOctal(stored[k]) =>
          Holds(stored[k], Storing(Len(items))[k].size)
=============================================================================
