----------------------------- MODULE ScanProofs -----------------------------
(***************************************************************************)
(* Proofs about Scan, for any inputs, any formats and any sizes of the     *)
(* integer types.                                                          *)
(***************************************************************************)
EXTENDS Scan, Recursion, FiniteSetTheorems, SequenceTheorems, TLAPS

--------------------------------------------------------------------------
(* Strings.                                                                *)

(* Strings.                                                                *)
\* A search ends where it should, at the end of the string at the latest.
LEMMA FirstOfIs ==
    ASSUME NEW s \in Seq(STRING), NEW i \in 1 .. Len(s) + 1, NEW stops
    PROVE  /\ FirstOf(s, i, stops) \in i .. Len(s) + 1
           /\ FirstOf(s, i, stops) \in stops \cup {Len(s) + 1}
           /\ \A k \in i .. FirstOf(s, i, stops) - 1 : k \notin stops
<1> DEFINE T == {j \in i .. Len(s) + 1 : j \in stops \cup {Len(s) + 1}}
<1>1. T \in SUBSET Nat /\ Len(s) + 1 \in T
    OBVIOUS
<1>2. PICK m \in T : \A k \in T : m <= k
    <2> HIDE DEF T
    <2> QED BY <1>1, LeastNumber
<1>3. \A k \in i .. m - 1 : k \notin stops
    BY <1>2
<1> QED BY <1>2, <1>3 DEF FirstOf

\* What a search finds.
LEMMA SkipIs ==
    ASSUME NEW s \in Seq(STRING), NEW i \in 1 .. Len(s) + 1, NEW chars
    PROVE  /\ Skip(s, i, chars) \in i .. Len(s) + 1
           /\ \A k \in i .. Skip(s, i, chars) - 1 : s[k] \in chars
           /\ Skip(s, i, chars) \in DOMAIN s => s[Skip(s, i, chars)] \notin chars
<1> DEFINE stops == {k \in DOMAIN s : s[k] \notin chars}
           j == FirstOf(s, i, stops)
<1>1. /\ j \in i .. Len(s) + 1
      /\ j \in stops \cup {Len(s) + 1}
      /\ \A k \in i .. j - 1 : k \notin stops
    <2> HIDE DEF stops
    <2> QED BY FirstOfIs
<1> HIDE DEF j
<1>2. \A k \in i .. j - 1 : s[k] \in chars
    BY <1>1
<1>3. j \in DOMAIN s => s[j] \notin chars
    BY <1>1
<1> QED BY <1>1, <1>2, <1>3 DEF Skip, j

LEMMA SeekIs ==
    ASSUME NEW s \in Seq(STRING), NEW i \in 1 .. Len(s) + 1, NEW chars
    PROVE  /\ Seek(s, i, chars) \in i .. Len(s) + 1
           /\ \A k \in i .. Seek(s, i, chars) - 1 : s[k] \notin chars
           /\ Seek(s, i, chars) \in DOMAIN s => s[Seek(s, i, chars)] \in chars
<1> DEFINE stops == {k \in DOMAIN s : s[k] \in chars}
           j == FirstOf(s, i, stops)
<1>1. /\ j \in i .. Len(s) + 1
      /\ j \in stops \cup {Len(s) + 1}
      /\ \A k \in i .. j - 1 : k \notin stops
    <2> HIDE DEF stops
    <2> QED BY FirstOfIs
<1> HIDE DEF j
<1>2. \A k \in i .. j - 1 : s[k] \notin chars
    BY <1>1
<1>3. j \in DOMAIN s => s[j] \in chars
    BY <1>1
<1> QED BY <1>1, <1>2, <1>3 DEF Seek, j

(* Where a search ends.                                                    *)
\* Where a search ends that is known to find something.
LEMMA SkipAt ==
    ASSUME NEW s \in Seq(STRING), NEW i \in 1 .. Len(s) + 1, NEW chars,
           NEW j \in i .. Len(s) + 1, \A k \in i .. j - 1 : s[k] \in chars,
           j \in DOMAIN s => s[j] \notin chars
    PROVE  Skip(s, i, chars) = j
<1> DEFINE e == Skip(s, i, chars)
<1>1. /\ e \in i .. Len(s) + 1
      /\ \A k \in i .. e - 1 : s[k] \in chars
      /\ e \in DOMAIN s => s[e] \notin chars
    BY SkipIs
<1> HIDE DEF e
<1>2. DOMAIN s = 1 .. Len(s) /\ Len(s) \in Nat
    OBVIOUS
<1>3. ~(e < j)
    <2> SUFFICES ASSUME e < j PROVE FALSE
        OBVIOUS
    <2>1. e \in i .. j - 1 /\ e \in 1 .. Len(s)
        BY <1>1, <1>2
    <2> QED BY <1>1, <1>2, <2>1
<1>4. ~(j < e)
    <2> SUFFICES ASSUME j < e PROVE FALSE
        OBVIOUS
    <2>1. j \in i .. e - 1 /\ j \in 1 .. Len(s)
        BY <1>1, <1>2
    <2> QED BY <1>1, <1>2, <2>1
<1>5. e = j
    BY <1>1, <1>3, <1>4
<1> QED BY <1>5 DEF e

LEMMA SeekAt ==
    ASSUME NEW s \in Seq(STRING), NEW i \in 1 .. Len(s) + 1, NEW chars,
           NEW j \in i .. Len(s) + 1, \A k \in i .. j - 1 : s[k] \notin chars,
           j \in DOMAIN s => s[j] \in chars
    PROVE  Seek(s, i, chars) = j
<1> DEFINE e == Seek(s, i, chars)
<1>1. /\ e \in i .. Len(s) + 1
      /\ \A k \in i .. e - 1 : s[k] \notin chars
      /\ e \in DOMAIN s => s[e] \in chars
    BY SeekIs
<1> HIDE DEF e
<1>2. DOMAIN s = 1 .. Len(s) /\ Len(s) \in Nat
    OBVIOUS
<1>3. ~(e < j)
    <2> SUFFICES ASSUME e < j PROVE FALSE
        OBVIOUS
    <2>1. e \in i .. j - 1 /\ e \in 1 .. Len(s)
        BY <1>1, <1>2
    <2> QED BY <1>1, <1>2, <2>1
<1>4. ~(j < e)
    <2> SUFFICES ASSUME j < e PROVE FALSE
        OBVIOUS
    <2>1. j \in i .. e - 1 /\ j \in 1 .. Len(s)
        BY <1>1, <1>2
    <2> QED BY <1>1, <1>2, <2>1
<1>5. e = j
    BY <1>1, <1>3, <1>4
<1> QED BY <1>5 DEF e

\* A search that ends within a part of a string ends there in the string.
LEMMA SkipWithin ==
    ASSUME NEW s \in Seq(STRING), NEW t \in Seq(STRING), NEW o \in Nat, NEW chars,
           o + Len(t) <= Len(s), \A j \in 1 .. Len(t) : s[o + j] = t[j],
           NEW i \in 1 .. Len(t), Skip(t, i, chars) <= Len(t)
    PROVE  Skip(s, o + i, chars) = o + Skip(t, i, chars)
<1> DEFINE e == Skip(t, i, chars)
<1>0. Len(t) \in Nat /\ Len(s) \in Nat /\ DOMAIN t = 1 .. Len(t)
    OBVIOUS
<1>1. /\ e \in i .. Len(t) + 1
      /\ \A k \in i .. e - 1 : t[k] \in chars
      /\ e \in DOMAIN t => t[e] \notin chars
    BY SkipIs
<1>2. e <= Len(t)
    OBVIOUS
<1> HIDE DEF e
<1>3. e \in 1 .. Len(t) /\ s[o + e] \notin chars
    BY <1>0, <1>1, <1>2
<1>4. o + i \in 1 .. Len(s) + 1 /\ o + e \in o + i .. Len(s) + 1
    BY <1>0, <1>1, <1>2
<1>5. ASSUME NEW k \in o + i .. (o + e) - 1 PROVE s[k] \in chars
    <2>1. k - o \in i .. e - 1 /\ k - o \in 1 .. Len(t) /\ o + (k - o) = k
        BY <1>0, <1>1, <1>2
    <2>2. s[o + (k - o)] = t[k - o] /\ t[k - o] \in chars
        BY <1>1, <2>1
    <2> QED BY <2>1, <2>2
<1> DEFINE b == o + i
           f == o + e
<1>6. /\ b \in 1 .. Len(s) + 1 /\ f \in b .. Len(s) + 1
      /\ \A k \in b .. f - 1 : s[k] \in chars /\ s[f] \notin chars
    BY <1>3, <1>4, <1>5
<1>7. s[f] \notin chars
    BY <1>3
<1> HIDE DEF b, f
<1>8. Skip(s, b, chars) = f
    BY <1>6, <1>7, SkipAt
<1> QED BY <1>8 DEF b, f, e

\* A character that is not the terminator is in the string.
LEMMA AtIs ==
    ASSUME NEW s \in Seq(STRING), NEW i \in Nat \ {0}
    PROVE  At(s, i) # NUL => i \in 1 .. Len(s)
BY DEF At

(* The items of a format.                                                  *)
\* White space is none of the characters with a meaning.
LEMMA SpacesAre == ~IsSpace("%") /\ ~IsSpace("*") /\ ~IsSpace(NUL)
BY Zenon DEF IsSpace, Spaces, NUL

\* A part of a string, and what is left of it behind a sign or a prefix.
LEMMA PieceIs ==
    ASSUME NEW s \in Seq(STRING), NEW p \in 1 .. Len(s) + 1, NEW e \in p .. Len(s) + 1
    PROVE  /\ SubSeq(s, p, e - 1) \in Seq(STRING)
           /\ Len(SubSeq(s, p, e - 1)) = e - p
           /\ \A k \in 1 .. e - p : At(SubSeq(s, p, e - 1), k) = s[p + k - 1]
           /\ e = p => At(SubSeq(s, p, e - 1), 1) = NUL
           /\ e <= p + 1 => At(SubSeq(s, p, e - 1), 2) = NUL
<1> DEFINE t == SubSeq(s, p, e - 1)
<1>1. /\ p \in Nat \ {0} /\ e \in Nat /\ Len(s) \in Nat
      /\ e - 1 <= Len(s) /\ (e - 1) - p + 1 = e - p
    OBVIOUS
<1>2. t \in Seq(STRING) /\ Len(t) = e - p /\ \A k \in 1 .. e - p : t[k] = s[p + k - 1]
    BY <1>1
<1> HIDE DEF t
<1>3. DOMAIN t = 1 .. e - p
    BY <1>2
<1>4. \A k \in 1 .. e - p : At(t, k) = s[p + k - 1]
    BY <1>2, <1>3 DEF At
<1>5. (e = p => At(t, 1) = NUL) /\ (e <= p + 1 => At(t, 2) = NUL)
    BY <1>1, <1>3 DEF At
<1> QED BY <1>2, <1>4, <1>5 DEF t

LEMMA PieceBehind ==
    ASSUME NEW s \in Seq(STRING), NEW p \in 1 .. Len(s) + 1, NEW e \in p .. Len(s) + 1
    PROVE  /\ p + 1 <= e => Tail(SubSeq(s, p, e - 1)) = SubSeq(s, p + 1, e - 1)
           /\ p + 2 <= e => SubSeq(SubSeq(s, p, e - 1), 3, e - p) = SubSeq(s, p + 2, e - 1)
<1>1. /\ p \in Nat \ {0} /\ e \in Nat /\ Len(s) \in Nat
      /\ e - 1 <= Len(s) /\ (e - 1) - p + 1 = e - p
    OBVIOUS
<1>2. ASSUME p + 1 <= e
      PROVE  Tail(SubSeq(s, p, e - 1)) = SubSeq(s, p + 1, e - 1)
    <2>1. p \in 1 .. Len(s) /\ e - 1 \in p .. Len(s)
        BY <1>1, <1>2
    <2> QED BY <2>1, HeadTailOfSubSeq
<1>3. ASSUME p + 2 <= e
      PROVE  SubSeq(SubSeq(s, p, e - 1), 3, e - p) = SubSeq(s, p + 2, e - 1)
    <2> DEFINE t == SubSeq(s, p, e - 1)
               u == SubSeq(t, 3, e - p)
               v == SubSeq(s, p + 2, e - 1)
    <2>1. t \in Seq(STRING) /\ Len(t) = e - p /\ \A k \in 1 .. e - p : t[k] = s[p + k - 1]
        BY <1>1
    <2>2. /\ v \in Seq(STRING) /\ Len(v) = e - (p + 2)
          /\ \A k \in 1 .. e - (p + 2) : v[k] = s[(p + 2) + k - 1]
        BY <1>1, <1>3
    <2> HIDE DEF t, v
    <2>3. /\ u \in Seq(STRING) /\ Len(u) = e - (p + 2)
          /\ \A k \in 1 .. e - (p + 2) : u[k] = t[3 + k - 1]
        BY <1>1, <1>3, <2>1
    <2> HIDE DEF u
    <2>4. \A k \in 1 .. e - (p + 2) : u[k] = v[k]
        <3> SUFFICES ASSUME NEW k \in 1 .. e - (p + 2) PROVE u[k] = v[k]
            OBVIOUS
        <3>1. 3 + k - 1 \in 1 .. e - p /\ p + (3 + k - 1) - 1 = (p + 2) + k - 1
            BY <1>1, <1>3
        <3> QED BY <2>1, <2>2, <2>3, <3>1
    <2>5. u = v
        BY <2>2, <2>3, <2>4, SeqEqual
    <2> QED BY <2>5 DEF t, u, v
<1> QED BY <1>2, <1>3

--------------------------------------------------------------------------
(* Remainders.                                                             *)

(* Numbers.                                                                *)
\* What a word of some values is.
LEMMA ModIs ==
    ASSUME NEW n \in Int, NEW size \in Nat \ {0}
    PROVE  n % size \in 0 .. size - 1
OBVIOUS

(* Remainders.                                                             *)
\* Quotient and remainder.
LEMMA QuotientIs ==
    ASSUME NEW a \in Int, NEW m \in Nat \ {0}
    PROVE  \E q \in Int : a = q * m + (a % m)
<1>1. a \div m \in Int /\ a = (a \div m) * m + (a % m)
    BY SMT
<1> QED BY <1>1

LEMMA RemainderIs ==
    ASSUME NEW q \in Int, NEW m \in Nat \ {0}, NEW r \in 0 .. m - 1
    PROVE  (q * m + r) % m = r
BY SMT

\* Numbers that differ by a multiple have the same remainder.
Congruent(a, b, m) == \E k \in Int : a = k * m + b

LEMMA ModSame ==
    ASSUME NEW a \in Int, NEW b \in Int, NEW m \in Nat \ {0}, Congruent(a, b, m)
    PROVE  a % m = b % m
<1>0. PICK k \in Int : a = k * m + b
    BY DEF Congruent
<1>1. PICK q \in Int : b = q * m + (b % m)
    BY QuotientIs
<1>2. b % m \in 0 .. m - 1
    BY ModIs
<1> DEFINE r == b % m
<1> HIDE DEF r
<1>3. k * m + (q * m + r) = (k + q) * m + r
    BY <1>2 DEF r
<1>4. a = (k + q) * m + r
    BY <1>0, <1>1, <1>3 DEF r
<1>5. k + q \in Int /\ r \in 0 .. m - 1
    BY <1>2 DEF r
<1>6. ((k + q) * m + r) % m = r
    BY <1>5, RemainderIs
<1> QED BY <1>4, <1>6 DEF r

\* A digit more counts the same before and after the remainder is taken.
LEMMA ModPush ==
    ASSUME NEW a \in Int, NEW base \in Nat, NEW d \in Int, NEW m \in Nat \ {0}
    PROVE  ((a % m) * base + d) % m = (a * base + d) % m
<1>1. PICK q \in Int : a = q * m + (a % m)
    BY QuotientIs
<1> DEFINE r == a % m
<1>2. r \in Int
    BY ModIs
<1> HIDE DEF r
<1>3. (q * m + r) * base + d = (q * base) * m + (r * base + d)
    BY <1>2
<1>4. a * base + d = (q * base) * m + (r * base + d)
    BY <1>1, <1>3 DEF r
<1>5. a * base + d \in Int /\ r * base + d \in Int /\ q * base \in Int
    BY <1>2
<1>6. (a * base + d) % m = (r * base + d) % m
    <2> DEFINE x == a * base + d
               y == r * base + d
               k == q * base
    <2>1. x = k * m + y /\ x \in Int /\ y \in Int /\ k \in Int
        BY <1>4, <1>5
    <2> HIDE DEF x, y, k
    <2>2. Congruent(x, y, m)
        BY <2>1 DEF Congruent
    <2>3. x % m = y % m
        BY <2>1, <2>2, ModSame
    <2> QED BY <2>3 DEF x, y
<1> QED BY <1>6 DEF r

\* So do narrowing twice and a change of the sign.
LEMMA ModTwice ==
    ASSUME NEW a \in Int, NEW m \in Nat \ {0}, NEW s \in Nat \ {0}, m % s = 0
    PROVE  (a % m) % s = a % s
<1>1. PICK q \in Int : a = q * m + (a % m)
    BY QuotientIs
<1>2. PICK p \in Int : m = p * s + (m % s)
    <2>1. m \in Int
        OBVIOUS
    <2> QED BY <2>1, QuotientIs
<1> DEFINE r == a % m
<1>3. r \in Int
    BY ModIs
<1> HIDE DEF r
<1>4. a = (q * p) * s + r
    <2>1. m = p * s
        BY <1>2
    <2>2. q * (p * s) = (q * p) * s
        OBVIOUS
    <2> QED BY <1>1, <2>1, <2>2 DEF r
<1>5. a % s = r % s
    <2> DEFINE k == q * p
    <2>1. k \in Int /\ a = k * s + r
        BY <1>4
    <2> HIDE DEF k
    <2>2. Congruent(a, r, s)
        BY <2>1 DEF Congruent
    <2> QED BY <1>3, <2>2, ModSame
<1> QED BY <1>5 DEF r

\* A negation carries on after a cut.
LEMMA ModMinus ==
    ASSUME NEW a \in Int, NEW m \in Nat \ {0}
    PROVE  (-(a % m)) % m = (-a) % m
<1>1. PICK q \in Int : a = q * m + (a % m)
    BY QuotientIs
<1> DEFINE r == a % m
<1>2. r \in Int
    BY ModIs
<1> HIDE DEF r
<1>3. -r = q * m + (-a) /\ -r \in Int /\ -a \in Int
    <2> DEFINE z == q * m
    <2>1. z \in Int /\ a = z + r
        BY <1>1 DEF r
    <2> HIDE DEF z
    <2>2. -r = z + (-a)
        BY <1>2, <2>1
    <2> QED BY <1>2, <2>2 DEF z
<1>4. (-r) % m = (-a) % m
    <2>1. Congruent(-r, -a, m)
        BY <1>3 DEF Congruent
    <2> QED BY <1>3, <2>1, ModSame
<1> QED BY <1>4 DEF r

\* A divisor is not greater than what it divides.
LEMMA DivisorIs ==
    ASSUME NEW a \in Nat \ {0}, NEW b \in Nat \ {0}, a % b = 0
    PROVE  b <= a
OBVIOUS

--------------------------------------------------------------------------
(* What digits stand for.                                                  *)

\* What a digit stands for.
LEMMA ValueOfIs == \A c \in ToSet(Hex) : ValueOf(c) \in 0 .. 15
BY DEF ToSet, Hex, ValueOf, Decimal

(* What digits stand for.                                                  *)
\* The powers of a base, and the sums of the last digits.
Powers(p, base, n) == \A i \in 0 .. n : p[i] = IF i = 0 THEN 1 ELSE p[i - 1] * base

Sums(f, p, digits) ==
    \A i \in 0 .. Len(digits) :
       f[i] = IF i = 0 THEN 0
              ELSE f[i - 1] + ValueOf(digits[Len(digits) + 1 - i]) * p[i - 1]

\* The number that digits stand for is the last of the sums.
LEMMA PositionalIs ==
    ASSUME NEW digits \in Seq(ToSet(Hex)), NEW base \in Nat
    PROVE  \E p, f \in [0 .. Len(digits) -> Int] :
              /\ Powers(p, base, Len(digits)) /\ Sums(f, p, digits)
              /\ Positional(digits, base) = f[Len(digits)]
<1> DEFINE n == Len(digits)
           Digit(i) == ValueOf(digits[n + 1 - i])
           IsPlace(p) == p = [i \in 0 .. n |-> IF i = 0 THEN 1 ELSE p[i - 1] * base]
           place == CHOOSE p : IsPlace(p)
           IsSum(f) == f = [i \in 0 .. n |-> IF i = 0 THEN 0 ELSE f[i - 1] + Digit(i) * place[i - 1]]
           sum == CHOOSE f : IsSum(f)
<1>1. n \in Nat
    OBVIOUS
<1>2. ASSUME NEW i \in 1 .. n
      PROVE  Digit(i) \in Int
    <2>1. n + 1 - i \in 1 .. n
        OBVIOUS
    <2>2. digits[n + 1 - i] \in ToSet(Hex)
        BY <2>1
    <2>3. ValueOf(digits[n + 1 - i]) \in 0 .. 15
        BY <2>2, ValueOfIs
    <2> QED BY <2>3
<1> HIDE DEF Digit
<1>3. place \in [0 .. n -> Int] /\ Powers(place, base, n)
    <2> DEFINE Steps == [k \in 0 .. n |-> [v \in Int |-> v * base]]
    <2>1. PICK p \in [0 .. n -> Int] : Recursive(p, 1, Steps, n)
        <3>1. Steps \in [0 .. n -> [Int -> Int]] /\ 1 \in Int
            OBVIOUS
        <3> HIDE DEF Steps, n
        <3> QED BY <1>1, <3>1, RecursionDefines
    <2> HIDE DEF n
    <2>2. ASSUME NEW i \in 0 .. n
          PROVE  p[i] = IF i = 0 THEN 1 ELSE p[i - 1] * base
        <3>1. i # 0 => i - 1 \in 0 .. n /\ p[i - 1] \in Int
            BY <1>1, <2>1
        <3> QED BY <2>1, <3>1 DEF Recursive
    <2>3. IsPlace(p)
        BY <2>1, <2>2
    <2>4. IsPlace(place)
        BY <2>3
    <2> HIDE DEF place
    <2>5. Powers(place, base, n)
        BY <2>4 DEF Powers
    <2> DEFINE T == {i \in 0 .. n : place[i] \in Int}
    <2>6. 0 \in T
        BY <1>1, <2>5 DEF Powers
    <2>7. ASSUME NEW i \in 0 .. n - 1, i \in T PROVE i + 1 \in T
        <3>1. i + 1 \in 0 .. n /\ i + 1 # 0 /\ (i + 1) - 1 = i
            BY <1>1
        <3>2. place[i + 1] = place[i] * base
            BY <2>5, <3>1 DEF Powers
        <3> QED BY <2>7, <3>1, <3>2
    <2>8. \A i \in 0 .. n : place[i] \in Int
        <3>1. \A i \in 0 .. n : i \in T
            <4> HIDE DEF T
            <4> QED BY <1>1, <2>6, <2>7, InductionTo
        <3> QED BY <3>1
    <2>9. place = [i \in 0 .. n |-> place[i]]
        BY <2>4
    <2> QED BY <2>5, <2>8, <2>9
<1>4. \A i \in 1 .. n : place[i - 1] \in Int
    <2> HIDE DEF place, n
    <2>1. \A i \in 1 .. n : i - 1 \in 0 .. n
        BY <1>1
    <2> QED BY <1>3, <2>1
<1> DEFINE Term(i) == Digit(i) * place[i - 1]
<1>5. sum \in [0 .. n -> Int] /\ Sums(sum, place, digits)
    <2> HIDE DEF place, n
    <2>0. \A i \in 1 .. n : Term(i) \in Int
        BY <1>2, <1>4
    <2> DEFINE Steps == [k \in 0 .. n |-> [v \in Int |-> IF k = 0 THEN 0 ELSE v + Term(k)]]
    <2>1. PICK f \in [0 .. n -> Int] : Recursive(f, 0, Steps, n)
        <3>1. Steps \in [0 .. n -> [Int -> Int]] /\ 0 \in Int
            <4> HIDE DEF Term
            <4>1. \A k \in 0 .. n : \A v \in Int : (IF k = 0 THEN 0 ELSE v + Term(k)) \in Int
                <5> SUFFICES ASSUME NEW k \in 0 .. n, NEW v \in Int, k # 0 PROVE v + Term(k) \in Int
                    OBVIOUS
                <5>1. k \in 1 .. n
                    BY <1>1
                <5> QED BY <2>0, <5>1
            <4> QED BY <4>1
        <3> HIDE DEF Steps
        <3> QED BY <1>1, <3>1, RecursionDefines
    <2>2. ASSUME NEW i \in 0 .. n
          PROVE  f[i] = IF i = 0 THEN 0 ELSE f[i - 1] + Term(i)
        <3> HIDE DEF Term
        <3>1. i # 0 => i - 1 \in 0 .. n /\ f[i - 1] \in Int
            BY <1>1, <2>1
        <3> QED BY <2>1, <3>1 DEF Recursive
    <2>3. IsSum(f)
        BY <2>1, <2>2
    <2>4. IsSum(sum)
        BY <2>3
    <2> HIDE DEF sum
    <2>5. \A i \in 0 .. n : sum[i] = IF i = 0 THEN 0 ELSE sum[i - 1] + Term(i)
        BY <2>4
    <2> DEFINE T == {i \in 0 .. n : sum[i] \in Int}
    <2>6. 0 \in T
        BY <1>1, <2>5
    <2>7. ASSUME NEW i \in 0 .. n - 1, i \in T PROVE i + 1 \in T
        <3> HIDE DEF Term
        <3>1. i + 1 \in 1 .. n /\ i + 1 \in 0 .. n /\ i + 1 # 0 /\ (i + 1) - 1 = i
            BY <1>1
        <3>2. sum[i + 1] = sum[i] + Term(i + 1)
            BY <2>5, <3>1
        <3> QED BY <2>0, <2>7, <3>1, <3>2
    <2>8. \A i \in 0 .. n : sum[i] \in Int
        <3>1. \A i \in 0 .. n : i \in T
            <4> HIDE DEF T
            <4> QED BY <1>1, <2>6, <2>7, InductionTo
        <3> QED BY <3>1
    <2>9. sum = [i \in 0 .. n |-> sum[i]]
        BY <2>4
    <2>10. sum \in [0 .. n -> Int]
        BY <2>8, <2>9
    <2> QED BY <2>5, <2>10 DEF Sums, Digit, n
<1>6. Positional(digits, base) = sum[n]
    BY DEF Positional, Digit, place, sum
<1> HIDE DEF place, sum
<1> QED BY <1>3, <1>5, <1>6

\* No digit stands for 0, and one more digit for what the others do times the base.
LEMMA PositionalNone == ASSUME NEW base \in Nat PROVE Positional(<<>>, base) = 0
<1>1. <<>> \in Seq(ToSet(Hex)) /\ Len(<<>>) = 0
    OBVIOUS
<1>2. PICK p, f \in [0 .. 0 -> Int] : Sums(f, p, <<>>) /\ Positional(<<>>, base) = f[0]
    BY <1>1, PositionalIs
<1> QED BY <1>1, <1>2 DEF Sums

\* One digit more, at the end of the units.
LEMMA PositionalNext ==
    ASSUME NEW digits \in Seq(ToSet(Hex)), NEW c \in ToSet(Hex), NEW base \in Nat
    PROVE  /\ Positional(digits, base) \in Int
           /\ Positional(Append(digits, c), base) = Positional(digits, base) * base + ValueOf(c)
<1> DEFINE n == Len(digits)
           more == Append(digits, c)
           d == ValueOf(c)
<1>1. /\ more \in Seq(ToSet(Hex)) /\ Len(more) = n + 1 /\ n \in Nat
      /\ more[n + 1] = c /\ \A i \in 1 .. n : more[i] = digits[i]
    OBVIOUS
<1>2. PICK p, f \in [0 .. n -> Int] :
         /\ Powers(p, base, n) /\ Sums(f, p, digits) /\ Positional(digits, base) = f[n]
    BY PositionalIs
<1> HIDE DEF more
<1>3. PICK q, g \in [0 .. n + 1 -> Int] :
         /\ Powers(q, base, n + 1) /\ Sums(g, q, more) /\ Positional(more, base) = g[n + 1]
    BY <1>1, PositionalIs
<1> DEFINE P == {i \in 0 .. n : q[i] = p[i]}
           G == {i \in 0 .. n : g[i + 1] = f[i] * base + d}
           Digit(i) == ValueOf(digits[n + 1 - i])
<1> HIDE DEF n
<1>4. \A i \in 0 .. n : q[i] = p[i]
    <2>1. 0 \in P
        BY <1>1, <1>2, <1>3 DEF Powers
    <2>2. ASSUME NEW i \in 0 .. n - 1, i \in P PROVE i + 1 \in P
        <3>1. i + 1 \in 0 .. n /\ i + 1 \in 0 .. n + 1 /\ i + 1 # 0 /\ (i + 1) - 1 = i
            BY <1>1
        <3>2. p[i + 1] = p[i] * base /\ q[i + 1] = q[i] * base
            BY <1>2, <1>3, <3>1 DEF Powers
        <3> QED BY <2>2, <3>1, <3>2
    <2>3. \A i \in 0 .. n : i \in P
        <3> HIDE DEF P
        <3> QED BY <1>1, <2>1, <2>2, InductionTo
    <2> QED BY <2>3
<1>5. d \in Int /\ \A i \in 1 .. n : Digit(i) \in Int
    <2>1. d \in 0 .. 15
        BY ValueOfIs
    <2>2. ASSUME NEW i \in 1 .. n PROVE Digit(i) \in Int
        <3>1. n + 1 - i \in 1 .. n
            BY <1>1
        <3>2. digits[n + 1 - i] \in ToSet(Hex)
            BY <3>1 DEF n
        <3>3. ValueOf(digits[n + 1 - i]) \in 0 .. 15
            BY <3>2, ValueOfIs
        <3> QED BY <3>3
    <2> QED BY <2>1, <2>2
<1>6. g[1] = d /\ f[0] = 0
    <2>1. /\ 1 \in 0 .. n + 1 /\ 0 \in 0 .. n + 1 /\ 0 \in 0 .. n /\ 1 # 0 /\ 1 - 1 = 0
          /\ (n + 1) + 1 - 1 = n + 1
        BY <1>1
    <2>2. g[0] = 0 /\ q[0] = 1 /\ f[0] = 0
        BY <1>1, <1>2, <1>3, <2>1 DEF Powers, Sums, n
    <2>3. g[1] = g[0] + d * q[0]
        BY <1>1, <1>3, <2>1 DEF Sums
    <2> HIDE DEF d
    <2> QED BY <1>5, <2>2, <2>3
<1>7. ASSUME NEW i \in 0 .. n - 1
      PROVE  /\ f[i + 1] = f[i] + Digit(i + 1) * p[i]
             /\ g[i + 2] = g[i + 1] + Digit(i + 1) * (p[i] * base)
    <2>1. /\ i + 1 \in 0 .. n /\ i + 1 # 0 /\ (i + 1) - 1 = i
          /\ i + 2 \in 0 .. n + 1 /\ i + 2 # 0 /\ (i + 2) - 1 = i + 1
          /\ (n + 1) + 1 - (i + 2) = n + 1 - (i + 1) /\ n + 1 - (i + 1) \in 1 .. n
        <3>1. i \in Nat /\ i < n
            BY <1>1
        <3>2. i + 1 \in 0 .. n /\ i + 1 # 0
            BY <1>1, <3>1
        <3>5. i + 2 \in 0 .. n + 1 /\ i + 2 # 0
            BY <1>1, <3>1
        <3>3. n + 1 - (i + 1) \in 1 .. n
            BY <1>1, <3>1
        <3>4. /\ (i + 1) - 1 = i /\ (i + 2) - 1 = i + 1
              /\ (n + 1) + 1 - (i + 2) = n + 1 - (i + 1)
            BY <1>1, <3>1
        <3> QED BY <3>2, <3>3, <3>4, <3>5
    <2>2. f[i + 1] = f[i] + Digit(i + 1) * p[i]
        BY <1>2, <2>1 DEF Sums, n
    <2>3. more[(n + 1) + 1 - (i + 2)] = digits[n + 1 - (i + 1)]
        BY <1>1, <2>1
    <2>4. g[i + 2] = g[(i + 2) - 1] + ValueOf(more[(n + 1) + 1 - (i + 2)]) * q[(i + 2) - 1]
        BY <1>1, <1>3, <2>1 DEF Sums
    <2>5. q[i + 1] = p[i] * base
        BY <1>2, <1>4, <2>1 DEF Powers
    <2> QED BY <2>1, <2>2, <2>3, <2>4, <2>5
<1> HIDE DEF d, Digit
<1>8. 0 \in G
    BY <1>1, <1>5, <1>6
<1>9. ASSUME NEW i \in 0 .. n - 1, i \in G PROVE i + 1 \in G
    <2>1. i \in 0 .. n /\ i + 1 \in 1 .. n /\ i + 1 \in 0 .. n /\ (i + 1) + 1 = i + 2
        BY <1>1
    <2>2. f[i] \in Int /\ p[i] \in Int /\ Digit(i + 1) \in Int /\ d \in Int
        BY <1>2, <1>5, <2>1
    <2> DEFINE x == f[i]
               y == p[i]
               z == Digit(i + 1)
    <2>3. (x * base + d) + z * (y * base) = (x + z * y) * base + d
        <3>1. x \in Int /\ y \in Int /\ z \in Int /\ d \in Int /\ base \in Int
            BY <2>2
        <3> HIDE DEF x, y, z
        <3> QED BY <3>1
    <2>4. g[i + 1] = x * base + d
        BY <1>9
    <2>5. g[i + 2] = f[i + 1] * base + d
        BY <1>7, <2>3, <2>4
    <2> QED BY <2>1, <2>5
<1>10. g[n + 1] = f[n] * base + d
    <2>1. \A i \in 0 .. n : i \in G
        <3> HIDE DEF G
        <3> QED BY <1>1, <1>8, <1>9, InductionTo
    <2>2. n \in 0 .. n
        BY <1>1
    <2> QED BY <2>1, <2>2
<1>11. f[n] \in Int
    BY <1>1, <1>2
<1> QED BY <1>2, <1>3, <1>10, <1>11 DEF more, d

--------------------------------------------------------------------------
(* The parser of numbers.                                                  *)

\* The parser takes the digits of the base, and all of them, and computes what
\* they stand for as far as a long long holds it.
LEMMA Parsed ==
    ASSUME NEW s \in Seq(STRING), NEW i \in 1 .. Len(s) + 1, NEW base \in Nat
    PROVE  LET end == DigitsEnd(s, i, base)
               digits == SubSeq(s, i, end - 1)
           IN  /\ end \in i .. Len(s) + 1
               /\ digits \in Seq(ToSet(Hex))
               /\ \A k \in DOMAIN digits : ValueOf(digits[k]) < base
               /\ IsIn(At(s, end), Hex) => ValueOf(At(s, end)) >= base
               /\ ParseInteger(s, i, base) =
                     [value |-> Positional(digits, base) % LongLongSize, end |-> end]
<1> DEFINE end == DigitsEnd(s, i, base)
           V == 0 .. LongLongSize - 1
           n == end - i
           Digits(k) == SubSeq(s, i, i + k - 1)
           Digit(k) == ValueOf(s[i + k - 1])
           Push(k, v) == (v * base + Digit(k)) % LongLongSize
           Steps == [k \in 0 .. n |-> [v \in V |-> IF k = 0 THEN 0 ELSE Push(k, v)]]
           Is(f) == f = [k \in 0 .. n |-> IF k = 0 THEN 0 ELSE Push(k, f[k - 1])]
           value == CHOOSE f : Is(f)
<1>0. LongLongSize \in Nat \ {0}
    BY SizesAssumption
<1>1. /\ end \in i .. Len(s) + 1
      /\ \A k \in i .. end - 1 : s[k] \in ToSet(Hex) /\ ValueOf(s[k]) < base
      /\ end \in DOMAIN s => ~(s[end] \in ToSet(Hex) /\ ValueOf(s[end]) < base)
    <2> DEFINE digits == {c \in ToSet(Hex) : ValueOf(c) < base}
    <2>1. /\ Skip(s, i, digits) \in i .. Len(s) + 1
          /\ \A k \in i .. Skip(s, i, digits) - 1 : s[k] \in digits
          /\ Skip(s, i, digits) \in DOMAIN s => s[Skip(s, i, digits)] \notin digits
        <3> HIDE DEF digits
        <3> QED BY SkipIs
    <2> QED BY <2>1 DEF DigitsEnd
<1> HIDE DEF end
<1>2. n \in Nat
    BY <1>1
<1>3. ASSUME NEW k \in 0 .. n
      PROVE  /\ Digits(k) \in Seq(ToSet(Hex)) /\ Len(Digits(k)) = k
             /\ \A j \in 1 .. k : Digits(k)[j] = s[i + j - 1] /\ ValueOf(Digits(k)[j]) < base
    <2>1. i + k - 1 \in Nat /\ (i + k - 1) - i + 1 = k /\ i + k - 1 <= Len(s) /\ k \in Nat
        BY <1>1, <1>2
    <2>2. \A j \in 1 .. k : i + j - 1 \in i .. end - 1
        BY <1>1, <1>2
    <2>3. /\ Len(Digits(k)) = k /\ DOMAIN Digits(k) = 1 .. k
          /\ \A j \in 1 .. k : Digits(k)[j] = s[i + j - 1]
        BY <2>1
    <2>4. Digits(k) = [j \in 1 .. k |-> s[i + j - 1]]
        BY <2>1
    <2> HIDE DEF Digits
    <2>5. \A j \in 1 .. k : s[i + j - 1] \in ToSet(Hex) /\ ValueOf(s[i + j - 1]) < base
        BY <1>1, <2>2
    <2>6. Digits(k) \in Seq(ToSet(Hex))
        <3>1. Digits(k) \in [1 .. k -> ToSet(Hex)]
            BY <2>4, <2>5
        <3> QED BY <2>1, <3>1, SeqDef
    <2> QED BY <2>3, <2>5, <2>6
<1>4. ASSUME NEW k \in 0 .. n - 1
      PROVE  Digits(k + 1) = Append(Digits(k), s[i + k]) /\ s[i + k] \in ToSet(Hex)
    <2>1. k \in 0 .. n /\ k + 1 \in 0 .. n /\ k + 1 \in 1 .. k + 1 /\ i + (k + 1) - 1 = i + k
        BY <1>2
    <2>2. s[i + k] \in ToSet(Hex)
        <3>1. i + k \in i .. end - 1
            BY <1>1, <1>2
        <3> QED BY <1>1, <3>1
    <2>3. \A j \in 1 .. k : Digits(k + 1)[j] = Digits(k)[j]
        BY <1>3, <2>1
    <2>4. Digits(k + 1)[k + 1] = s[i + k]
        BY <1>3, <2>1
    <2>5. /\ Digits(k + 1) \in Seq(ToSet(Hex)) /\ Len(Digits(k + 1)) = k + 1
          /\ Digits(k) \in Seq(ToSet(Hex)) /\ Len(Digits(k)) = k
        BY <1>3, <2>1
    <2> HIDE DEF Digits
    <2> QED BY <2>1, <2>2, <2>3, <2>4, <2>5
<1>5. ASSUME NEW k \in 1 .. n
      PROVE  Digit(k) \in Int
    <2>1. i + k - 1 \in i .. end - 1
        BY <1>1
    <2>2. s[i + k - 1] \in ToSet(Hex)
        BY <1>1, <2>1
    <2>3. ValueOf(s[i + k - 1]) \in 0 .. 15
        BY <2>2, ValueOfIs
    <2> QED BY <2>3
<1> HIDE DEF Digits
<1>6. ASSUME NEW k \in 1 .. n, NEW v \in V
      PROVE  Push(k, v) \in V
    <2>1. Digit(k) \in Int
        BY <1>5
    <2> HIDE DEF Digit
    <2>2. v * base + Digit(k) \in Int
        BY <1>0, <2>1
    <2> QED BY <1>0, <2>2, ModIs
<1> HIDE DEF Push
<1>7. PICK f \in [0 .. n -> V] : Recursive(f, 0, Steps, n)
    <2>1. Steps \in [0 .. n -> [V -> V]] /\ 0 \in V
        BY <1>0, <1>2, <1>6
    <2> HIDE DEF Steps, V
    <2> QED BY <1>2, <2>1, RecursionDefines
<1>8. Is(f)
    <2>1. ASSUME NEW k \in 0 .. n
          PROVE  f[k] = IF k = 0 THEN 0 ELSE Push(k, f[k - 1])
        <3>1. k # 0 => k - 1 \in 0 .. n /\ f[k - 1] \in V
            BY <1>2, <1>7
        <3> QED BY <1>7, <3>1 DEF Recursive
    <2> QED BY <1>7, <2>1
<1>9. Is(value)
    BY <1>8
<1> HIDE DEF value
<1> DEFINE Right(k) == Positional(Digits(k), base)
           T == {k \in 0 .. n : value[k] = Right(k) % LongLongSize}
<1>10. \A k \in 0 .. n : Right(k) \in Int
    <2> SUFFICES ASSUME NEW k \in 0 .. n PROVE Right(k) \in Int
        OBVIOUS
    <2>1. Digits(k) \in Seq(ToSet(Hex)) /\ "0" \in ToSet(Hex)
        BY <1>3 DEF Hex, Decimal, ToSet
    <2> QED BY <2>1, PositionalNext
<1>11. 0 \in T
    <2>1. 0 \in 0 .. n /\ value[0] = 0
        BY <1>2, <1>9
    <2>2. Digits(0) = <<>>
        BY <1>3, <2>1
    <2>3. Right(0) = 0
        BY <2>2, PositionalNone
    <2>4. 0 % LongLongSize = 0
        BY <1>0
    <2> QED BY <2>1, <2>3, <2>4
<1>12. ASSUME NEW k \in 0 .. n - 1, k \in T
      PROVE  k + 1 \in T
    <2>1. /\ k + 1 \in 1 .. n /\ k + 1 \in 0 .. n /\ (k + 1) - 1 = k /\ k \in 0 .. n
          /\ i + (k + 1) - 1 = i + k
        BY <1>2
    <2> DEFINE d == ValueOf(s[i + k])
    <2>2. value[k + 1] = Push(k + 1, value[k])
        <3>1. k + 1 # 0
            BY <2>1
        <3>2. value[k + 1] = Push(k + 1, value[(k + 1) - 1])
            BY <1>9, <2>1, <3>1
        <3> QED BY <2>1, <3>2
    <2>3. Push(k + 1, value[k]) = (value[k] * base + d) % LongLongSize /\ d \in Int
        <3>1. Digit(k + 1) \in Int
            BY <1>5, <2>1
        <3> QED BY <2>1, <3>1 DEF Push
    <2>4. value[k] = Right(k) % LongLongSize
        BY <1>12
    <2>5. Right(k + 1) = Right(k) * base + d
        <3>1. Digits(k) \in Seq(ToSet(Hex)) /\ s[i + k] \in ToSet(Hex)
            BY <1>3, <1>4, <2>1
        <3> QED BY <1>4, <3>1, PositionalNext
    <2>6. Right(k) \in Int
        BY <1>10, <2>1
    <2> HIDE DEF d, Right
    <2>7. ((Right(k) % LongLongSize) * base + d) % LongLongSize = (Right(k) * base + d) % LongLongSize
        BY <1>0, <2>3, <2>6, ModPush
    <2>8. value[k + 1] = Right(k + 1) % LongLongSize
        BY <2>2, <2>3, <2>4, <2>5, <2>7
    <2> QED BY <2>1, <2>8
<1>13. n \in T
    <2>1. n \in 0 .. n
        BY <1>2
    <2> HIDE DEF T
    <2> QED BY <1>2, <1>11, <1>12, <2>1, InductionTo
<1>14. ParseInteger(s, i, base) = [value |-> value[n], end |-> end]
    BY DEF ParseInteger, end, Push, value
<1>15. Digits(n) = SubSeq(s, i, end - 1)
    <2>1. i + n - 1 = end - 1
        BY <1>1
    <2> QED BY <2>1 DEF Digits
<1>16. /\ Digits(n) \in Seq(ToSet(Hex))
       /\ \A k \in DOMAIN Digits(n) : ValueOf(Digits(n)[k]) < base
    <2>1. n \in 0 .. n
        BY <1>2
    <2>2. /\ Digits(n) \in Seq(ToSet(Hex)) /\ Len(Digits(n)) = n
          /\ \A k \in 1 .. n : ValueOf(Digits(n)[k]) < base
        BY <1>3, <2>1
    <2>3. DOMAIN Digits(n) = 1 .. n
        BY <2>2
    <2> QED BY <2>2, <2>3
<1>17. IsIn(At(s, end), Hex) => ValueOf(At(s, end)) >= base
    <2> SUFFICES ASSUME IsIn(At(s, end), Hex) PROVE ValueOf(At(s, end)) >= base
        OBVIOUS
    <2>1. At(s, end) \in ToSet(Hex)
        BY DEF IsIn, ToSet
    <2>2. NUL \notin ToSet(Hex)
        BY DEF NUL, ToSet, Hex, Decimal
    <2>3. end \in DOMAIN s /\ At(s, end) = s[end]
        BY <2>1, <2>2 DEF At
    <2>4. ValueOf(s[end]) \in 0 .. 15
        BY <2>1, <2>3, ValueOfIs
    <2>5. ~(ValueOf(s[end]) < base)
        BY <1>1, <2>1, <2>3
    <2> DEFINE d == ValueOf(s[end])
    <2>6. d \in Int /\ ~(d < base)
        BY <2>4, <2>5
    <2> HIDE DEF d
    <2>7. d >= base
        BY <2>6
    <2> QED BY <2>3, <2>7 DEF d
<1> QED BY <1>1, <1>13, <1>14, <1>15, <1>16, <1>17 DEF end

\* It stays in the string.
LEMMA ParseIntegerIs ==
    ASSUME NEW s \in Seq(STRING), NEW i \in 1 .. Len(s) + 1, NEW base \in Nat
    PROVE  /\ ParseInteger(s, i, base).end \in i .. Len(s) + 1
           /\ ParseInteger(s, i, base).value \in 0 .. LongLongSize - 1
<1> DEFINE end == DigitsEnd(s, i, base)
           digits == SubSeq(s, i, end - 1)
           x == Positional(digits, base)
<1>1. /\ end \in i .. Len(s) + 1
      /\ digits \in Seq(ToSet(Hex))
      /\ ParseInteger(s, i, base) = [value |-> x % LongLongSize, end |-> end]
    BY Parsed
<1>2. x \in Int
    <2> HIDE DEF digits
    <2>1. "0" \in ToSet(Hex)
        BY DEF Hex, Decimal, ToSet
    <2> QED BY <1>1, <2>1, PositionalNext
<1> HIDE DEF end, digits, x
<1>3. x % LongLongSize \in 0 .. LongLongSize - 1
    BY <1>2, SizesAssumption, ModIs
<1> QED BY <1>1, <1>3

\* The digits start at the number or behind a prefix that is there.
LEMMA FixupRadixIs ==
    ASSUME NEW s \in Seq(STRING), NEW i \in 1 .. Len(s) + 1, NEW base \in Nat
    PROVE  /\ FixupRadix(s, i, base).base \in Nat
           /\ FixupRadix(s, i, base).start \in i .. Len(s) + 1
<1>1. At(s, i) = "0" /\ At(s, i + 1) = "x" => i + 2 \in i .. Len(s) + 1
    BY AtIs DEF NUL
<1> QED BY <1>1, SizesAssumption DEF FixupRadix

\* The same of a number with a prefix, and of one with a sign.
LEMMA StrToUIs ==
    ASSUME NEW s \in Seq(STRING), NEW i \in 1 .. Len(s) + 1, NEW base \in Nat
    PROVE  /\ StrToU(s, i, base).end \in i .. Len(s) + 1
           /\ StrToU(s, i, base).value \in 0 .. LongLongSize - 1
<1> DEFINE r == FixupRadix(s, i, base)
<1>1. r.base \in Nat /\ r.start \in i .. Len(s) + 1
    BY FixupRadixIs
<1> HIDE DEF r
<1>2. /\ ParseInteger(s, r.start, r.base).end \in r.start .. Len(s) + 1
      /\ ParseInteger(s, r.start, r.base).value \in 0 .. LongLongSize - 1
    BY <1>1, ParseIntegerIs
<1> QED BY <1>1, <1>2 DEF StrToU, r

LEMMA StrToSIs ==
    ASSUME NEW s \in Seq(STRING), NEW i \in 1 .. Len(s) + 1, NEW base \in Nat
    PROVE  /\ StrToS(s, i, base).end \in i .. Len(s) + 1
           /\ StrToS(s, i, base).value \in 0 .. LongLongSize - 1
<1>1. CASE At(s, i) = "-"
    <2> DEFINE r == StrToU(s, i + 1, base)
    <2>1. i + 1 \in 1 .. Len(s) + 1
        BY <1>1, AtIs DEF NUL
    <2>2. r.end \in i + 1 .. Len(s) + 1 /\ r.value \in 0 .. LongLongSize - 1
        BY <2>1, StrToUIs
    <2>3. (-r.value) % LongLongSize \in 0 .. LongLongSize - 1
        <3>1. -r.value \in Int
            BY <2>2, SizesAssumption
        <3> HIDE DEF r
        <3> QED BY <3>1, ModIs, SizesAssumption
    <2>4. StrToS(s, i, base) = [value |-> (-r.value) % LongLongSize, end |-> r.end]
        BY <1>1 DEF StrToS, StrToU, ParseInteger
    <2> HIDE DEF r
    <2> QED BY <2>2, <2>3, <2>4
<1>2. CASE At(s, i) # "-"
    BY <1>2, StrToUIs DEF StrToS
<1> QED BY <1>1, <1>2

\* What is stored is within the widest type.
LEMMA NarrowIs ==
    ASSUME NEW v \in Int, NEW size \in {CharSize, IntSize, LongLongSize}, NEW signed \in BOOLEAN
    PROVE  Narrow(v, size, signed) \in -LongLongSize .. LongLongSize
<1>1. size \in Nat \ {0} /\ LongLongSize \in Nat \ {0}
    BY SizesAssumption
<1>2. CharSize <= IntSize /\ IntSize <= LongLongSize
    BY SizesAssumption, DivisorIs
<1>3. size <= LongLongSize
    BY <1>2, SizesAssumption
<1>4. v % size \in 0 .. size - 1
    BY <1>1, ModIs
<1> QED BY <1>1, <1>3, <1>4 DEF Narrow

\* An object holds the number as far as its size goes.
LEMMA NarrowRight ==
    ASSUME NEW a \in Int, NEW size \in {IntSize, LongLongSize}
    PROVE  LET v == a % LongLongSize
               x == Narrow(v, size, TRUE)
           IN  /\ Narrow(v, size, FALSE) = a % size
               /\ -size <= 2 * x /\ 2 * x < size /\ (x - a) % size = 0
<1> DEFINE v == a % LongLongSize
           w == a % size
           x == Narrow(v, size, TRUE)
<1>1. size \in Nat \ {0} /\ LongLongSize \in Nat \ {0} /\ LongLongSize % size = 0
    <2>1. LongLongSize \in Nat \ {0} /\ IntSize \in Nat \ {0} /\ LongLongSize % IntSize = 0
        BY SizesAssumption
    <2>2. LongLongSize % LongLongSize = 0
        <3>1. (1 * LongLongSize + 0) % LongLongSize = 0
            BY <2>1, RemainderIs
        <3> QED BY <2>1, <3>1
    <2> QED BY <2>1, <2>2
<1>2. v % size = w /\ w \in 0 .. size - 1
    BY <1>1, ModTwice, ModIs
<1>3. PICK q \in Int : a = q * size + w
    BY <1>1, QuotientIs
<1> HIDE DEF v, w
<1>4. Narrow(v, size, FALSE) = w
    BY <1>2 DEF Narrow
<1>5. x = IF 2 * w >= size THEN w - size ELSE w
    BY <1>2 DEF Narrow
<1> HIDE DEF x
<1>6. -size <= 2 * x /\ 2 * x < size
    BY <1>1, <1>2, <1>5
<1>7. (x - a) % size = 0
    <2>1. ASSUME NEW k \in Int, x - a = k * size + 0
          PROVE  (x - a) % size = 0
        <3>1. 0 \in 0 .. size - 1
            BY <1>1
        <3>2. (k * size + 0) % size = 0
            BY <1>1, <3>1, RemainderIs
        <3> QED BY <2>1, <3>2
    <2>2. CASE x = w
        <3>1. w - (q * size + w) = (-q) * size + 0
            BY <1>1, <1>2
        <3>2. x - a = (-q) * size + 0
            BY <1>3, <2>2, <3>1
        <3>3. -q \in Int
            OBVIOUS
        <3> QED BY <2>1, <3>2, <3>3
    <2>3. CASE x = w - size
        <3>1. (w - size) - (q * size + w) = (-1 - q) * size + 0
            BY <1>1, <1>2
        <3>2. x - a = (-1 - q) * size + 0
            BY <1>3, <2>3, <3>1
        <3>3. -1 - q \in Int
            OBVIOUS
        <3> QED BY <2>1, <3>2, <3>3
    <2> QED BY <1>5, <2>2, <2>3
<1> QED BY <1>4, <1>6, <1>7 DEF v, w, x

--------------------------------------------------------------------------
(* The text of a format.                                                   *)

(* The text of a format.                                                   *)
\* What a format is made of.
Item == [text : Seq(STRING), conv : STRING, size : Nat]

\* The texts of the first items, one after the other.
Joins(f, its) ==
    /\ f \in [0 .. Len(its) -> Seq(STRING)]
    /\ f[0] = <<>>
    /\ \A k \in 1 .. Len(its) : f[k] = f[k - 1] \o its[k].text

\* Two strings, one behind the other.
LEMMA ConcatIs ==
    ASSUME NEW a \in Seq(STRING), NEW b \in Seq(STRING)
    PROVE  /\ Len(a \o b) = Len(a) + Len(b) /\ Len(a) \in Nat /\ Len(b) \in Nat
           /\ \A j \in 1 .. Len(a) : (a \o b)[j] = a[j]
           /\ \A j \in 1 .. Len(b) : (a \o b)[Len(a) + j] = b[j]
OBVIOUS

\* The text of a format is the last of its joins.
LEMMA TextIs ==
    ASSUME NEW its \in Seq(Item)
    PROVE  \E f : Joins(f, its) /\ TextOf(its) = f[Len(its)]
<1> DEFINE n == Len(its)
           V == Seq(STRING)
           Text(k) == its[k].text
           texts == [i \in DOMAIN its |-> Text(i)]
           Steps == [k \in 0 .. n |-> [v \in V |-> IF k = 0 THEN <<>> ELSE v \o Text(k)]]
           Is(g) == g = [i \in 1 .. Len(texts) |-> IF i = 1 THEN texts[i] ELSE g[i - 1] \o texts[i]]
           flatten == CHOOSE g : Is(g)
<1>1. n \in Nat /\ DOMAIN its = 1 .. n
    OBVIOUS
<1>2. \A k \in 1 .. n : Text(k) \in V
    <2>1. \A x \in Item : x.text \in Seq(STRING)
        BY DEF Item
    <2> QED BY <1>1, <2>1
<1>3. DOMAIN texts = 1 .. n /\ Len(texts) = n /\ \A k \in 1 .. n : texts[k] = Text(k)
    <2> HIDE DEF Text
    <2> QED BY <1>1
<1>4. TextOf(its) = IF Len(texts) = 0 THEN texts ELSE flatten[Len(texts)]
    BY DEF TextOf, FlattenSeq
<1> HIDE DEF texts, n, Text
<1>5. PICK f \in [0 .. n -> V] : Recursive(f, <<>>, Steps, n)
    <2>1. Steps \in [0 .. n -> [V -> V]] /\ <<>> \in V
        <3>1. \A k \in 0 .. n : \A v \in V : (IF k = 0 THEN <<>> ELSE v \o Text(k)) \in V
            <4>1. <<>> \in V
                OBVIOUS
            <4>2. ASSUME NEW k \in 0 .. n, NEW v \in V, k # 0 PROVE v \o Text(k) \in V
                <5>1. Text(k) \in V
                    BY <1>1, <1>2, <4>2
                <5> QED BY <5>1
            <4> HIDE DEF V
            <4> QED BY <4>1, <4>2
        <3>2. <<>> \in V
            OBVIOUS
        <3> HIDE DEF V
        <3> QED BY <3>1, <3>2
    <2> HIDE DEF Steps, V
    <2> QED BY <1>1, <2>1, RecursionDefines
<1>6. f[0] = <<>> /\ \A k \in 1 .. n : f[k] = f[k - 1] \o Text(k)
    <2>1. f[0] = <<>>
        <3>1. 0 \in 0 .. n
            BY <1>1
        <3> HIDE DEF Steps, V
        <3> QED BY <1>5, <3>1 DEF Recursive
    <2>2. ASSUME NEW k \in 1 .. n PROVE f[k] = f[k - 1] \o Text(k)
        <3>1. k \in 0 .. n /\ k # 0 /\ k - 1 \in 0 .. n
            BY <1>1
        <3>2. f[k - 1] \in V
            BY <1>5, <3>1
        <3>3. f[k] = Steps[k][f[k - 1]]
            BY <1>5, <3>1 DEF Recursive
        <3> QED BY <3>1, <3>2, <3>3
    <2> QED BY <2>1, <2>2
<1> HIDE DEF Steps
<1>7. Joins(f, its)
    BY <1>5, <1>6 DEF Joins, n, Text
<1>8. CASE n = 0
    <2>1. texts = <<>>
        BY <1>3, <1>8
    <2> HIDE DEF flatten
    <2> QED BY <1>4, <1>6, <1>7, <1>8, <2>1 DEF n
<1>9. CASE n # 0
    <2>1. f[1] = Text(1) /\ 1 \in 1 .. n
        <3>1. 1 \in 1 .. n /\ 1 - 1 = 0
            BY <1>1, <1>9
        <3>2. f[1] = <<>> \o Text(1) /\ Text(1) \in Seq(STRING)
            BY <1>2, <1>6, <3>1
        <3> QED BY <3>1, <3>2
    <2> DEFINE g == [i \in 1 .. n |-> f[i]]
    <2>2. Is(g)
        <3>1. ASSUME NEW i \in 1 .. n
              PROVE  g[i] = IF i = 1 THEN texts[i] ELSE g[i - 1] \o texts[i]
            <4>1. CASE i = 1
                BY <1>3, <2>1, <4>1
            <4>2. CASE i # 1
                <5>1. i - 1 \in 1 .. n
                    BY <1>1, <4>2
                <5> QED BY <1>3, <1>6, <4>2, <5>1
            <4> QED BY <4>1, <4>2
        <3> HIDE DEF g
        <3>2. g = [i \in 1 .. n |-> g[i]]
            BY DEF g
        <3>3. g = [i \in 1 .. n |-> IF i = 1 THEN texts[i] ELSE g[i - 1] \o texts[i]]
            BY <3>1, <3>2
        <3> QED BY <1>3, <3>3
    <2>3. flatten = [i \in 1 .. n |-> IF i = 1 THEN texts[i] ELSE flatten[i - 1] \o texts[i]]
        <3> HIDE DEF g
        <3>1. Is(flatten)
            BY <2>2
        <3> HIDE DEF flatten
        <3> QED BY <1>3, <3>1
    <2> HIDE DEF g, flatten
    <2> DEFINE T == {k \in 0 .. n : k # 0 => flatten[k] = f[k]}
    <2>4. 0 \in T
        BY <1>1
    <2>5. ASSUME NEW k \in 0 .. n - 1, k \in T PROVE k + 1 \in T
        <3>1. k + 1 \in 1 .. n /\ k + 1 \in 0 .. n /\ (k + 1) - 1 = k
            BY <1>1
        <3>2. CASE k = 0
            <4>1. flatten[1] = texts[1]
                BY <2>1, <2>3
            <4> QED BY <1>3, <2>1, <3>1, <3>2, <4>1
        <3>3. CASE k # 0
            <4>1. flatten[k + 1] = flatten[k] \o texts[k + 1]
                <5>1. k + 1 # 1
                    BY <3>3
                <5>2. flatten[k + 1] = flatten[(k + 1) - 1] \o texts[k + 1]
                    BY <2>3, <3>1, <5>1
                <5> QED BY <3>1, <5>2
            <4>2. f[k + 1] = f[k] \o Text(k + 1)
                <5>1. f[k + 1] = f[(k + 1) - 1] \o Text(k + 1)
                    BY <1>6, <3>1
                <5> QED BY <3>1, <5>1
            <4>3. flatten[k] = f[k]
                BY <2>5, <3>3
            <4> QED BY <1>3, <3>1, <4>1, <4>2, <4>3
        <3> QED BY <3>2, <3>3
    <2>6. n \in T
        <3>1. n \in 0 .. n
            BY <1>1
        <3> HIDE DEF T
        <3> QED BY <1>1, <2>4, <2>5, <3>1, InductionTo
    <2>7. TextOf(its) = f[n]
        BY <1>3, <1>4, <1>9, <2>6
    <2> QED BY <1>7, <2>7 DEF n
<1> QED BY <1>8, <1>9

\* Where an item ends.
Passed(its, n) == Len(TextOf(SubSeq(its, 1, n)))

\* The text of a part of a format is a part of its text.
LEMMA JoinsPart ==
    ASSUME NEW its \in Seq(Item), NEW f, Joins(f, its), NEW n \in 0 .. Len(its)
    PROVE  TextOf(SubSeq(its, 1, n)) = f[n]
<1> DEFINE part == SubSeq(its, 1, n)
<1>1. part \in Seq(Item) /\ Len(part) = n /\ n \in Nat /\ \A k \in 1 .. n : part[k] = its[k]
    OBVIOUS
<1>2. PICK g : Joins(g, part) /\ TextOf(part) = g[Len(part)]
    BY <1>1, TextIs
<1> HIDE DEF part
<1> DEFINE T == {k \in 0 .. n : g[k] = f[k]}
<1>3. 0 \in T
    BY <1>1, <1>2 DEF Joins
<1>4. ASSUME NEW k \in 0 .. n - 1, k \in T PROVE k + 1 \in T
    <2>1. /\ k + 1 \in 1 .. n /\ k + 1 \in 0 .. n /\ k + 1 \in 1 .. Len(its) /\ (k + 1) - 1 = k
        BY <1>1
    <2>2. g[k + 1] = g[(k + 1) - 1] \o part[k + 1].text
        BY <1>1, <1>2, <2>1 DEF Joins
    <2>3. f[k + 1] = f[(k + 1) - 1] \o its[k + 1].text
        BY <2>1 DEF Joins
    <2>4. g[k] = f[k]
        BY <1>4
    <2> QED BY <1>1, <2>1, <2>2, <2>3, <2>4
<1>5. n \in T
    <2>1. n \in 0 .. n
        BY <1>1
    <2> HIDE DEF T
    <2> QED BY <1>1, <1>3, <1>4, <2>1, InductionTo
<1> QED BY <1>1, <1>2, <1>5 DEF part

\* Item after item the format is made of their texts.
LEMMA LayoutIs ==
    ASSUME NEW its \in Seq(Item)
    PROVE  /\ TextOf(its) \in Seq(STRING)
           /\ Passed(its, 0) = 0 /\ Passed(its, Len(its)) = Len(TextOf(its))
           /\ \A n \in 0 .. Len(its) : Passed(its, n) \in 0 .. Len(TextOf(its))
           /\ \A n \in 0 .. Len(its) - 1 :
                 /\ Passed(its, n + 1) = Passed(its, n) + Len(its[n + 1].text)
                 /\ \A j \in 1 .. Len(its[n + 1].text) :
                       TextOf(its)[Passed(its, n) + j] = its[n + 1].text[j]
<1> DEFINE m == Len(its)
           all == TextOf(its)
           Text(k) == its[k].text
<1>1. PICK f : Joins(f, its) /\ all = f[m]
    BY TextIs
<1>2. m \in Nat /\ \A k \in 1 .. m : Text(k) \in Seq(STRING)
    <2>1. \A x \in Item : x.text \in Seq(STRING)
        BY DEF Item
    <2> QED BY <2>1
<1>3. \A n \in 0 .. m : Passed(its, n) = Len(f[n])
    BY <1>1, JoinsPart DEF Passed
<1>4. /\ \A n \in 0 .. m : f[n] \in Seq(STRING)
      /\ f[0] = <<>>
      /\ \A n \in 1 .. m : f[n] = f[n - 1] \o Text(n)
    BY <1>1 DEF Joins
<1> HIDE DEF all, m, Text
<1>5. ASSUME NEW n \in 0 .. m - 1
      PROVE  /\ Len(f[n + 1]) = Len(f[n]) + Len(Text(n + 1))
             /\ \A j \in 1 .. Len(f[n]) : f[n + 1][j] = f[n][j]
             /\ \A j \in 1 .. Len(Text(n + 1)) : f[n + 1][Len(f[n]) + j] = Text(n + 1)[j]
    <2>1. n \in 0 .. m /\ n + 1 \in 1 .. m /\ (n + 1) - 1 = n
        BY <1>2
    <2>2. f[n + 1] = f[n] \o Text(n + 1)
        <3>1. f[n + 1] = f[(n + 1) - 1] \o Text(n + 1)
            BY <1>4, <2>1
        <3> QED BY <2>1, <3>1
    <2>3. f[n] \in Seq(STRING) /\ Text(n + 1) \in Seq(STRING)
        BY <1>2, <1>4, <2>1
    <2> DEFINE a == f[n]
               b == Text(n + 1)
    <2>4. a \in Seq(STRING) /\ b \in Seq(STRING) /\ f[n + 1] = a \o b
        BY <2>2, <2>3
    <2> HIDE DEF a, b
    <2>5. /\ Len(a \o b) = Len(a) + Len(b)
          /\ \A j \in 1 .. Len(a) : (a \o b)[j] = a[j]
          /\ \A j \in 1 .. Len(b) : (a \o b)[Len(a) + j] = b[j]
        BY <2>4, ConcatIs
    <2> QED BY <2>4, <2>5 DEF a, b
<1> DEFINE Part(n) == Len(f[n]) <= Len(all) /\ \A j \in 1 .. Len(f[n]) : all[j] = f[n][j]
           T == {d \in 0 .. m : Part(m - d)}
<1>6. \A n \in 0 .. m : Part(n)
    <2>1. 0 \in T
        <3>1. m - 0 = m /\ m \in 0 .. m /\ 0 \in 0 .. m
            BY <1>2
        <3>2. Len(f[m]) \in Nat
            BY <1>4, <3>1
        <3>3. Part(m)
            BY <1>1, <3>2
        <3> HIDE DEF Part
        <3> QED BY <3>1, <3>3
    <2>2. ASSUME NEW d \in 0 .. m - 1, d \in T PROVE d + 1 \in T
        <3> DEFINE n == m - (d + 1)
        <3>1. n \in 0 .. m - 1 /\ n + 1 = m - d /\ d + 1 \in 0 .. m /\ n \in 0 .. m /\ n + 1 \in 0 .. m
            BY <1>2
        <3>2. Part(n + 1)
            <4> HIDE DEF n, Part
            <4> QED BY <2>2, <3>1
        <3> HIDE DEF n
        <3>3. f[n] \in Seq(STRING) /\ f[n + 1] \in Seq(STRING)
            BY <1>4, <3>1
        <3>4. Len(Text(n + 1)) \in Nat
            <4>1. n + 1 \in 1 .. m
                BY <1>2, <3>1
            <4> QED BY <1>2, <4>1
        <3>5. Len(f[n]) \in Nat /\ Len(f[n + 1]) \in Nat /\ Len(all) \in Nat /\ Len(f[n]) <= Len(f[n + 1])
            <4>1. all \in Seq(STRING)
                <5>1. m \in 0 .. m
                    BY <1>2
                <5> QED BY <1>1, <1>4, <5>1
            <4>2. Len(f[n]) \in Nat /\ Len(f[n + 1]) \in Nat /\ Len(all) \in Nat
                BY <3>3, <4>1
            <4>3. Len(f[n + 1]) = Len(f[n]) + Len(Text(n + 1))
                BY <1>5, <3>1
            <4> DEFINE x == Len(f[n])
                       y == Len(f[n + 1])
                       z == Len(Text(n + 1))
            <4>4. x \in Nat /\ z \in Nat /\ y = x + z
                BY <3>4, <4>2, <4>3
            <4> HIDE DEF x, y, z
            <4>5. x <= y
                BY <4>4
            <4> QED BY <4>2, <4>5 DEF x, y
        <3>6. Part(n)
            <4>1. ASSUME NEW j \in 1 .. Len(f[n]) PROVE all[j] = f[n][j]
                <5>1. j \in 1 .. Len(f[n + 1])
                    BY <3>5
                <5>2. f[n + 1][j] = f[n][j]
                    BY <1>5, <3>1
                <5> QED BY <3>2, <5>1, <5>2
            <4> QED BY <3>2, <3>5, <4>1
        <3> HIDE DEF Part
        <3> QED BY <3>1, <3>6 DEF n
    <2>3. \A d \in 0 .. m : d \in T
        <3> HIDE DEF T
        <3> QED BY <1>2, <2>1, <2>2, InductionTo
    <2> SUFFICES ASSUME NEW n \in 0 .. m PROVE Part(n)
        OBVIOUS
    <2>4. m - n \in 0 .. m /\ m - (m - n) = n
        BY <1>2
    <2> HIDE DEF Part
    <2> QED BY <2>3, <2>4
<1>7. all \in Seq(STRING) /\ Len(all) \in Nat
    <2>1. m \in 0 .. m
        BY <1>2
    <2> QED BY <1>1, <1>4, <2>1
<1>8. Passed(its, 0) = 0 /\ Passed(its, m) = Len(all)
    <2>1. 0 \in 0 .. m /\ m \in 0 .. m
        BY <1>2
    <2> QED BY <1>1, <1>3, <1>4, <2>1
<1>9. \A n \in 0 .. m : Passed(its, n) \in 0 .. Len(all)
    BY <1>3, <1>4, <1>6, <1>7
<1>10. ASSUME NEW n \in 0 .. m - 1
       PROVE  /\ Passed(its, n + 1) = Passed(its, n) + Len(Text(n + 1))
              /\ \A j \in 1 .. Len(Text(n + 1)) : all[Passed(its, n) + j] = Text(n + 1)[j]
    <2>1. n \in 0 .. m /\ n + 1 \in 0 .. m /\ n + 1 \in 1 .. m
        BY <1>2
    <2>2. Passed(its, n) = Len(f[n]) /\ Passed(its, n + 1) = Len(f[n + 1])
        BY <1>3, <2>1
    <2>3. Len(f[n]) \in Nat /\ Len(Text(n + 1)) \in Nat
        BY <1>2, <1>4, <2>1
    <2>4. Len(f[n + 1]) = Len(f[n]) + Len(Text(n + 1))
        BY <1>5
    <2>5. ASSUME NEW j \in 1 .. Len(Text(n + 1)) PROVE all[Len(f[n]) + j] = Text(n + 1)[j]
        <3>1. Len(f[n]) + j \in 1 .. Len(f[n]) + Len(Text(n + 1))
            <4> DEFINE x == Len(f[n])
                       z == Len(Text(n + 1))
            <4>1. x \in Nat /\ z \in Nat /\ j \in 1 .. z
                BY <2>3
            <4> HIDE DEF x, z
            <4>2. x + j \in 1 .. x + z
                BY <4>1
            <4> QED BY <4>2 DEF x, z
        <3>2. all[Len(f[n]) + j] = f[n + 1][Len(f[n]) + j]
            BY <1>6, <2>1, <2>4, <3>1
        <3> QED BY <1>5, <3>2
    <2> QED BY <2>2, <2>4, <2>5
<1> QED BY <1>7, <1>8, <1>9, <1>10 DEF m, all, Text

\* So the text of a format is a string.
LEMMA TextOfIs ==
    ASSUME NEW its \in Formats
    PROVE  TextOf(its) \in Seq(STRING)
BY LayoutIs, StringsAssumption DEF Item

--------------------------------------------------------------------------
(* The invariant.                                                          *)

(* The invariant.                                                          *)
\* No conversion ends in an h or l, over whose next character the code steps
\* without a look (system.c:268-278).
QualifiersFollowed ==
    \A its \in Formats : \A k \in DOMAIN TextOf(its) :
       LET text == TextOf(its)
       IN  text[k] = "%" /\ Skip(text, k + 1, ToSet(Decimal)) = Len(text) =>
              text[Len(text)] \notin {"h", "l"}

\* What is stored, with the part of the input it came from.
Stored == {x \in [conv : Kinds, from : Nat, to : Nat, value : -LongLongSize .. LongLongSize] :
              x.from <= x.to}

\* The scan goes on within both strings.  When it ends, the input may be one
\* position later, and the format too where a qualifier has nothing behind it.
IInv ==
    /\ items \in Formats /\ format = TextOf(items)
    /\ buf \in Seq(STRING)
    /\ fmt \in 1 .. Len(format) + 2
    /\ pc = "loop" \/ QualifiersFollowed => fmt <= Len(format) + 1
    /\ str \in 1 .. Len(buf) + 2
    /\ pc = "loop" => str <= Len(buf) + 1
    /\ stored \in Seq(Stored)
    /\ num \in 0 .. Len(stored)
    /\ pc \in {"loop", "tail", "done"}

\* What the invariant says of the format, of the types and of the start.
LEMMA FormatIs == IInv => format \in Seq(STRING)
BY TextOfIs DEF IInv

LEMMA IInvImplies ==
    ASSUME IInv, QualifiersFollowed
    PROVE  TypeOK
<1>1. \A k \in DOMAIN stored : stored[k] \in Stored
    BY DEF IInv
<1>2. \A x \in Stored : /\ x.conv \in Kinds /\ x.from <= x.to
                        /\ x.value \in -LongLongSize .. LongLongSize
    BY DEF Stored
<1>3. fmt \in 1 .. Len(format) + 1
    BY FormatIs DEF IInv
<1> QED BY <1>1, <1>2, <1>3 DEF IInv, TypeOK

LEMMA InitIInv == Init => IInv
<1> SUFFICES ASSUME Init PROVE IInv
    OBVIOUS
<1>1. format \in Seq(STRING) /\ buf \in Seq(STRING)
    BY TextOfIs, StringsAssumption DEF Init
<1> QED BY <1>1 DEF Init, IInv

--------------------------------------------------------------------------
(* Positions.                                                              *)

(* Positions.                                                              *)
\* A round starts behind the white space.
LEMMA HeadIs ==
    ASSUME IInv, More
    PROVE  F \in fmt .. Len(format) + 1 /\ S \in str .. Len(buf) + 1
<1>1. /\ format \in Seq(STRING) /\ fmt \in 1 .. Len(format)
      /\ buf \in Seq(STRING) /\ str \in 1 .. Len(buf)
    BY FormatIs DEF IInv, More
<1>2. SkipSpaces(format, fmt + 1) \in fmt + 1 .. Len(format) + 1
    BY <1>1, SkipIs DEF SkipSpaces
<1>3. SkipSpaces(buf, str) \in str .. Len(buf) + 1
    BY <1>1, SkipIs DEF SkipSpaces
<1> QED BY <1>1, <1>2, <1>3 DEF F, S

\* A number in a short.
LEMMA ShortIs ==
    ASSUME NEW v \in Int
    PROVE  Narrow(v, ShortSize, TRUE) \in Int
<1>1. v % ShortSize \in Int /\ ShortSize \in Int
    BY SizesAssumption
<1> QED BY <1>1 DEF Narrow

\* What follows a percent sign.
LEMMA DirectiveIs ==
    ASSUME IInv, Directive
    PROVE  /\ F \in fmt .. Len(format) /\ S \in str .. Len(buf) + 1
           /\ WidthEnd \in F + 1 .. Len(format) + 1
           /\ Conv \in WidthEnd .. Len(format) + 2
           /\ Doubled => WidthEnd + 1 <= Len(format)
           /\ QualifiersFollowed => Conv <= Len(format) + 1
           /\ Width \in Int
<1>1. More /\ At(format, F) = "%" /\ format \in Seq(STRING)
    BY FormatIs DEF Directive
<1>2. F \in fmt .. Len(format) /\ S \in str .. Len(buf) + 1 /\ fmt \in Nat \ {0}
    <2>1. F \in fmt .. Len(format) + 1 /\ S \in str .. Len(buf) + 1 /\ fmt \in Nat \ {0}
        BY <1>1, HeadIs DEF IInv
    <2>2. F \in 1 .. Len(format)
        BY <1>1, <2>1, AtIs DEF NUL
    <2> QED BY <2>1, <2>2
<1>3. F + 1 \in 1 .. Len(format) + 1
    BY <1>2
<1>4. WidthEnd \in F + 1 .. Len(format) + 1
    BY <1>1, <1>3, SkipIs DEF WidthEnd
<1>5. Qualified => WidthEnd \in 1 .. Len(format)
    BY <1>1, <1>2, <1>4, AtIs DEF Qualified, NUL
<1>6. Conv \in WidthEnd .. Len(format) + 2
    BY <1>2, <1>4, <1>5 DEF Conv
<1>7. Doubled => WidthEnd + 1 <= Len(format)
    BY <1>1, <1>2, <1>4, AtIs DEF Doubled, Qualified, NUL
<1>8. ASSUME QualifiersFollowed
      PROVE  Conv <= Len(format) + 1
    <2>1. CASE Qualified /\ At(format, WidthEnd) \in {"h", "l"}
        <3>1. format[F] = "%" /\ format[WidthEnd] \in {"h", "l"}
            BY <1>1, <1>2, <1>5, <2>1 DEF At
        <3>2. ASSUME WidthEnd = Len(format)
              PROVE  FALSE
            <4>1. items \in Formats /\ format = TextOf(items) /\ F \in DOMAIN TextOf(items)
                BY <1>1, <1>2 DEF IInv
            <4>2. Skip(format, F + 1, ToSet(Decimal)) = Len(format)
                BY <3>2 DEF WidthEnd
            <4> QED BY <1>8, <3>1, <3>2, <4>1, <4>2 DEF QualifiersFollowed
        <3> QED BY <1>1, <1>5, <2>1, <3>2 DEF Conv
    <2>2. CASE ~(Qualified /\ At(format, WidthEnd) \in {"h", "l"})
        BY <1>2, <1>4, <1>5, <2>2 DEF Conv
    <2> QED BY <2>1, <2>2
<1>9. Width \in Int
    <2>1. ParseInteger(format, F + 1, 10).value \in 0 .. LongLongSize - 1
        BY <1>1, <1>3, ParseIntegerIs
    <2>2. ParseInteger(format, F + 1, 10).value \in Int
        BY <2>1, SizesAssumption
    <2>3. Narrow(ParseInteger(format, F + 1, 10).value, ShortSize, TRUE) \in Int
        BY <2>2, ShortIs
    <2>4. CASE WidthEnd = F + 1
        <3>1. Width = -1
            BY <2>4 DEF Width
        <3> QED BY <3>1
    <2>5. CASE WidthEnd # F + 1
        <3>1. Width = Narrow(ParseInteger(format, F + 1, 10).value, ShortSize, TRUE)
            BY <2>5 DEF Width
        <3> QED BY <3>1, <2>3
    <2> QED BY <2>4, <2>5
<1> QED BY <1>2, <1>4, <1>6, <1>7, <1>8, <1>9

\* A conversion stands in the format, its argument in the input.
LEMMA ConvertsIs ==
    ASSUME IInv, Conversion, ~Doubled, At(format, Conv) # NUL, At(buf, S) # NUL
    PROVE  Conv \in fmt + 1 .. Len(format) /\ S \in str .. Len(buf)
<1>1. /\ F \in fmt .. Len(format) /\ S \in str .. Len(buf) + 1
      /\ WidthEnd \in F + 1 .. Len(format) + 1 /\ Conv \in WidthEnd .. Len(format) + 2
    BY DirectiveIs DEF Conversion
<1>2. fmt \in Nat \ {0} /\ str \in Nat \ {0} /\ buf \in Seq(STRING) /\ format \in Seq(STRING)
    BY FormatIs DEF IInv
<1>3. Conv \in 1 .. Len(format)
    BY <1>1, <1>2, AtIs
<1>4. S \in 1 .. Len(buf)
    BY <1>1, <1>2, AtIs
<1> QED BY <1>1, <1>2, <1>3, <1>4

\* What every conversion that is carried out starts from.
LEMMA ArgumentIs ==
    ASSUME IInv, NEW convs, NUL \notin convs, Converts(convs)
    PROVE  /\ Conv \in fmt + 1 .. Len(format) /\ S \in str .. Len(buf)
           /\ fmt \in Nat \ {0} /\ str \in Nat \ {0} /\ pc = "loop"
           /\ format \in Seq(STRING) /\ buf \in Seq(STRING)
           /\ Width \in Int
           /\ At(format, Conv) \in convs
<1>1. /\ Conversion /\ Directive /\ pc = "loop" /\ ~Doubled
      /\ At(format, Conv) \in convs /\ At(buf, S) # NUL
    BY DEF Converts, Conversion, Directive, More
<1>2. Conv \in fmt + 1 .. Len(format) /\ S \in str .. Len(buf)
    BY <1>1, ConvertsIs
<1>3. Width \in Int
    BY <1>1, DirectiveIs
<1>4. /\ fmt \in Nat \ {0} /\ str \in Nat \ {0}
      /\ format \in Seq(STRING) /\ buf \in Seq(STRING)
    BY FormatIs DEF IInv
<1> QED BY <1>1, <1>2, <1>3, <1>4

\* What the round skips in the input.
LEMMA SkippedIs ==
    ASSUME IInv, More
    PROVE  /\ S \in str .. Len(buf) + 1 /\ S \in Nat /\ str \in Nat \ {0} /\ str <= S
           /\ \A i \in str .. S - 1 : IsSpace(buf[i])
<1>1. S \in str .. Len(buf) + 1 /\ buf \in Seq(STRING) /\ str \in 1 .. Len(buf) /\ str \in Nat \ {0}
    BY HeadIs DEF IInv, More
<1>2. ASSUME AtSpace PROVE \A i \in str .. S - 1 : IsSpace(buf[i])
    <2>1. str \in 1 .. Len(buf) + 1
        BY <1>1
    <2>2. \A i \in str .. Skip(buf, str, Spaces) - 1 : buf[i] \in Spaces
        BY <1>1, <2>1, SkipIs
    <2> QED BY <1>2, <2>2 DEF S, SkipSpaces, IsSpace
<1>3. ASSUME ~AtSpace PROVE \A i \in str .. S - 1 : IsSpace(buf[i])
    <2>1. S = str
        BY <1>3 DEF S
    <2>2. \A i : i \notin str .. S - 1
        BY <1>1, <2>1
    <2> QED BY <2>2
<1>4. S \in Nat /\ str <= S
    BY <1>1
<1> QED BY <1>1, <1>2, <1>3, <1>4

\* The code skips white space before a conversion.
LEMMA SpacesSkipped ==
    ASSUME IInv, More
    PROVE  /\ S <= SkipSpaces(buf, S)
           /\ \A i \in S .. SkipSpaces(buf, S) - 1 : IsSpace(buf[i])
<1>1. S \in 1 .. Len(buf) + 1 /\ S \in Nat /\ buf \in Seq(STRING)
    <2>1. S \in str .. Len(buf) + 1 /\ str \in Nat \ {0} /\ buf \in Seq(STRING)
        BY SkippedIs DEF IInv
    <2> QED BY <2>1
<1>2. /\ Skip(buf, S, Spaces) \in S .. Len(buf) + 1
      /\ \A i \in S .. Skip(buf, S, Spaces) - 1 : buf[i] \in Spaces
    BY <1>1, SkipIs
<1> QED BY <1>1, <1>2 DEF SkipSpaces, IsSpace

--------------------------------------------------------------------------
(* What conversions take.                                                  *)

\* The greatest and the least of two numbers.
LEMMA MaxMinIs ==
    ASSUME NEW a \in Int, NEW b \in Int
    PROVE  /\ Max({a, b}) = IF a >= b THEN a ELSE b
           /\ Min({a, b}) = IF a <= b THEN a ELSE b
BY DEF Max, Min

\* What %c takes.
LEMMA CharactersTake ==
    ASSUME IInv, Characters
    PROVE  \E to \in Nat : /\ S \in Nat /\ S <= to /\ to \in 1 .. Len(buf) + 1
                           /\ Put("c", S, to, 0) /\ Goto("loop", Conv + 1, to)
<1> DEFINE room == Len(buf) - S + 1
           least == Min({CharacterLimit, room})
           n == Max({1, least})
<1>1. /\ S \in str .. Len(buf) /\ str \in Nat \ {0} /\ buf \in Seq(STRING)
      /\ Width \in Int
    BY ArgumentIs DEF Characters, NUL
<1>2. n \in 1 .. room
    <2>1. CharacterLimit \in Int /\ room \in Nat \ {0}
        <3>1. Width - 1 \in Int
            BY <1>1
        <3>2. Narrow(Width - 1, ShortSize, TRUE) \in Int
            BY <3>1, ShortIs
        <3>3. CharacterLimit = 1 + Narrow(Width - 1, ShortSize, TRUE)
            BY DEF CharacterLimit
        <3> DEFINE x == Narrow(Width - 1, ShortSize, TRUE)
        <3>4. 1 + x \in Int
            <4>1. x \in Int
                BY <3>2
            <4> HIDE DEF x
            <4> QED BY <4>1
        <3>5. room \in Nat \ {0}
            BY <1>1
        <3> QED BY <3>3, <3>4, <3>5, Zenon
    <2> HIDE DEF room
    <2>2. least = IF CharacterLimit <= room THEN CharacterLimit ELSE room
        BY <2>1, MaxMinIs
    <2>3. least \in Int /\ least <= room
        BY <2>1, <2>2
    <2> HIDE DEF least
    <2> QED BY <2>1, <2>3, MaxMinIs
<1>3. Put("c", S, S + n, 0) /\ Goto("loop", Conv + 1, S + n)
    BY DEF Characters
<1> HIDE DEF n
<1>4. S \in Nat /\ S + n \in Nat /\ S <= S + n /\ S + n \in 1 .. Len(buf) + 1
    BY <1>1, <1>2
<1> QED BY <1>3, <1>4

\* What %s takes.
LEMMA StringTakes ==
    ASSUME IInv, StringToSpace
    PROVE  \E from \in Nat, to \in Nat :
              /\ from = SkipSpaces(buf, S) /\ from <= to /\ to \in 1 .. Len(buf) + 1
              /\ Put("s", from, to, 0) /\ Goto("loop", Conv + 1, to)
<1> DEFINE from == SkipSpaces(buf, S)
           end == Seek(buf, from, Spaces)
           to == Min({end, from + StringLimit})
<1>1. /\ S \in str .. Len(buf) /\ str \in Nat \ {0} /\ buf \in Seq(STRING)
      /\ Width \in Int
    BY ArgumentIs DEF StringToSpace, NUL
<1>2. from \in S .. Len(buf) + 1
    BY <1>1, SkipIs DEF SkipSpaces
<1>3. Put("s", from, to, 0) /\ Goto("loop", Conv + 1, to)
    BY DEF StringToSpace
<1>0. from = SkipSpaces(buf, S)
    OBVIOUS
<1> HIDE DEF from
<1>4. end \in from .. Len(buf) + 1
    BY <1>1, <1>2, SeekIs
<1> HIDE DEF end
<1>5. to \in from .. Len(buf) + 1
    <2>1. StringLimit \in Nat
        BY <1>1, SizesAssumption DEF StringLimit
    <2>2. end \in Int /\ from + StringLimit \in Int /\ from <= from + StringLimit
        BY <1>1, <1>2, <1>4, <2>1
    <2>3. to = IF end <= from + StringLimit THEN end ELSE from + StringLimit
        BY <2>2, MaxMinIs
    <2> HIDE DEF to
    <2> QED BY <1>4, <2>2, <2>3
<1> HIDE DEF to
<1>6. from \in Nat /\ to \in Nat /\ from <= to /\ to \in 1 .. Len(buf) + 1
    BY <1>1, <1>2, <1>5
<1> QED BY <1>0, <1>3, <1>6

\* A number, and its base and size.
NumberAt(c, i, signed) == IF signed THEN StrToS(buf, i, Base(c)) ELSE StrToU(buf, i, Base(c))

\* What a number takes.
LEMMA NumberTakes ==
    ASSUME IInv, Number
    PROVE  LET c == At(format, Conv)
               i == SkipSpaces(buf, S)
               signed == c \in {"i", "d"} /\ Qualifier \notin {"z", "Z"}
               r == NumberAt(c, i, signed)
               value == Narrow(r.value, SizeOf(Qualifier), signed)
           IN  /\ Put(c, i, r.end, value) /\ Goto("loop", Conv + 1, r.end)
               /\ i \in Nat /\ r.end \in Nat /\ i <= r.end /\ r.end \in 1 .. Len(buf) + 1
               /\ i \in 1 .. Len(buf) + 1 /\ StartsNumber(c, i)
               /\ value \in -LongLongSize .. LongLongSize
<1> DEFINE c == At(format, Conv)
           i == SkipSpaces(buf, S)
           signed == c \in {"i", "d"} /\ Qualifier \notin {"z", "Z"}
           r == NumberAt(c, i, signed)
           value == Narrow(r.value, SizeOf(Qualifier), signed)
<1>1. /\ S \in str .. Len(buf) /\ str \in Nat \ {0} /\ buf \in Seq(STRING)
    BY ArgumentIs DEF Number, Ints, NUL
<1>2. i \in S .. Len(buf) + 1
    BY <1>1, SkipIs DEF SkipSpaces
<1>3. Put(c, i, r.end, value) /\ Goto("loop", Conv + 1, r.end) /\ StartsNumber(c, i)
    BY DEF Number, NumberAt
<1>4. signed \in BOOLEAN /\ Base(c) \in Nat /\ SizeOf(Qualifier) \in {CharSize, IntSize, LongLongSize}
    BY SizesAssumption DEF Base, SizeOf
<1> HIDE DEF c, i, signed
<1>5. r.end \in i .. Len(buf) + 1 /\ r.value \in 0 .. LongLongSize - 1
    <2>1. i \in 1 .. Len(buf) + 1
        BY <1>1, <1>2
    <2> QED BY <1>1, <1>4, <2>1, StrToSIs, StrToUIs DEF NumberAt
<1> HIDE DEF r
<1>6. value \in -LongLongSize .. LongLongSize
    <2>1. r.value \in Int
        BY <1>5, SizesAssumption
    <2> QED BY <1>4, <2>1, NarrowIs
<1> HIDE DEF value
<1>7. i \in Nat /\ r.end \in Nat /\ i <= r.end /\ r.end \in 1 .. Len(buf) + 1 /\ i \in 1 .. Len(buf) + 1
    BY <1>1, <1>2, <1>5
<1> QED BY <1>3, <1>6, <1>7 DEF c, i, signed, r, value

--------------------------------------------------------------------------
(* Steps.                                                                  *)

(* The rounds.                                                             *)
\* A round that is not the last moves the format on, within its bounds.
Advances == pc' # pc \/ (fmt' > fmt /\ fmt' <= Len(format) + 1)

\* Where a round may lead.
LEMMA GotoIs ==
    ASSUME IInv, NEW label \in {"loop", "tail", "done"}, NEW f, NEW s, Goto(label, f, s),
           f \in 1 .. Len(format) + 2, s \in 1 .. Len(buf) + 2,
           label = "loop" \/ QualifiersFollowed => f <= Len(format) + 1,
           label = "loop" => s <= Len(buf) + 1,
           stored' \in Seq(Stored), num' \in 0 .. Len(stored')
    PROVE  IInv'
BY DEF IInv, Goto, QualifiersFollowed

\* What a conversion stores.
LEMMA PutIs ==
    ASSUME IInv, NEW conv \in Kinds, NEW from \in Nat, NEW to \in Nat, from <= to,
           NEW value \in -LongLongSize .. LongLongSize, Put(conv, from, to, value),
           num' \in {num, num + 1}
    PROVE  stored' \in Seq(Stored) /\ num' \in 0 .. Len(stored')
<1> DEFINE x == [conv |-> conv, from |-> from, to |-> to, value |-> value]
<1>1. x \in Stored
    BY DEF Stored
<1>2. stored' = Append(stored, x) /\ stored \in Seq(Stored) /\ num \in 0 .. Len(stored)
    BY DEF Put, IInv
<1> HIDE DEF x
<1>3. stored' \in Seq(Stored) /\ Len(stored') = Len(stored) + 1 /\ Len(stored) \in Nat
    BY <1>1, <1>2
<1> QED BY <1>2, <1>3

\* A step that stores nothing.
LEMMA NothingIs ==
    ASSUME IInv, NothingStored
    PROVE  stored' \in Seq(Stored) /\ num' \in 0 .. Len(stored')
BY DEF IInv, NothingStored

\* The next round is behind a conversion that stored what it should.
LEMMA NextRound ==
    ASSUME IInv, pc = "loop", NEW s \in 1 .. Len(buf) + 1, Goto("loop", Conv + 1, s),
           Conv \in fmt + 1 .. Len(format), fmt \in Nat \ {0}, format \in Seq(STRING),
           stored' \in Seq(Stored) /\ num' \in 0 .. Len(stored')
    PROVE  IInv' /\ Advances
<1>1. Conv + 1 \in 1 .. Len(format) + 1 /\ s \in 1 .. Len(buf) + 2
    BY DEF IInv
<1>2. IInv'
    BY <1>1, GotoIs
<1> QED BY <1>1, <1>2 DEF Goto, Advances

\* One lemma for each action: it keeps the invariant and moves the format on.
LEMMA LiteralStep ==
    ASSUME IInv, Literal \/ FormatEnds
    PROVE  IInv' /\ Advances
<1>1. More /\ F \in fmt .. Len(format) + 1 /\ S \in str .. Len(buf) + 1
    BY HeadIs DEF Literal, FormatEnds
<1>2. /\ fmt \in Nat \ {0} /\ str \in Nat \ {0} /\ pc = "loop"
      /\ format \in Seq(STRING) /\ buf \in Seq(STRING)
    BY <1>1, FormatIs DEF IInv, More
<1>3. stored' \in Seq(Stored) /\ num' \in 0 .. Len(stored')
    BY NothingIs DEF Literal, FormatEnds
<1>4. CASE Literal
    <2> DEFINE label == IF At(format, F) = At(buf, S) THEN "loop" ELSE "tail"
    <2>1. Goto(label, F + 1, S + 1) /\ At(format, F) # NUL
        BY <1>4 DEF Literal
    <2>2. F \in 1 .. Len(format) /\ (label = "loop" => S \in 1 .. Len(buf))
        BY <1>1, <1>2, <2>1, AtIs
    <2>3. /\ F + 1 \in fmt + 1 .. Len(format) + 1 /\ S + 1 \in 1 .. Len(buf) + 2
          /\ label = "loop" => S + 1 <= Len(buf) + 1
          /\ label \in {"loop", "tail", "done"}
        BY <1>1, <1>2, <2>2
    <2> HIDE DEF label
    <2>4. IInv'
        BY <1>2, <1>3, <2>1, <2>3, GotoIs
    <2> QED BY <1>2, <2>1, <2>3, <2>4 DEF Goto, Advances
<1>5. CASE FormatEnds
    <2>1. Goto("tail", F, S)
        BY <1>5 DEF FormatEnds
    <2>2. IInv'
        BY <1>1, <1>2, <1>3, <2>1, GotoIs
    <2> QED BY <1>2, <2>1, <2>2 DEF Goto, Advances
<1> QED BY <1>4, <1>5

LEMMA SuppressStep ==
    ASSUME IInv, Suppress
    PROVE  IInv' /\ Advances
<1> DEFINE f == Seek(format, F + 1, Spaces \cup {"%"})
           s == Seek(buf, S, Spaces)
<1>1. /\ F \in fmt .. Len(format) /\ S \in str .. Len(buf) + 1
      /\ fmt \in Nat \ {0} /\ str \in Nat \ {0}
      /\ format \in Seq(STRING) /\ buf \in Seq(STRING)
    BY DirectiveIs, FormatIs DEF IInv, Suppress
<1>2. f \in F + 1 .. Len(format) + 1 /\ s \in S .. Len(buf) + 1
    BY <1>1, SeekIs
<1>3. Goto("loop", f, s) /\ stored' \in Seq(Stored) /\ num' \in 0 .. Len(stored')
    BY NothingIs DEF Suppress
<1> HIDE DEF f, s
<1>4. IInv'
    BY <1>1, <1>2, <1>3, GotoIs
<1> QED BY <1>1, <1>2, <1>3, <1>4 DEF Goto, Advances

LEMMA CannotConvertStep ==
    ASSUME IInv, CannotConvert
    PROVE  IInv' /\ Advances
<1>1. /\ WidthEnd \in 2 .. Len(format) + 1 /\ Conv \in 2 .. Len(format) + 2
      /\ Doubled => WidthEnd + 1 <= Len(format)
      /\ QualifiersFollowed => Conv <= Len(format) + 1
      /\ S \in 1 .. Len(buf) + 1 /\ pc = "loop"
    BY DirectiveIs DEF IInv, CannotConvert, Conversion, Directive, More
<1>2. stored' \in Seq(Stored) /\ num' \in 0 .. Len(stored')
    BY NothingIs DEF CannotConvert
<1>3. CASE Doubled /\ Goto("tail", WidthEnd + 1, S)
    <2>1. IInv'
        BY <1>1, <1>2, <1>3, GotoIs
    <2> QED BY <1>1, <1>3, <2>1 DEF Goto, Advances
<1>4. CASE Goto("tail", Conv, S)
    <2>1. IInv'
        BY <1>1, <1>2, <1>4, GotoIs
    <2> QED BY <1>1, <1>4, <2>1 DEF Goto, Advances
<1> QED BY <1>3, <1>4 DEF CannotConvert

LEMMA CharactersStep ==
    ASSUME IInv, Characters
    PROVE  IInv' /\ Advances
<1>1. /\ Conv \in fmt + 1 .. Len(format) /\ fmt \in Nat \ {0} /\ pc = "loop"
      /\ format \in Seq(STRING)
    BY ArgumentIs DEF Characters, NUL
<1>2. PICK to \in Nat : /\ S \in Nat /\ S <= to /\ to \in 1 .. Len(buf) + 1
                       /\ Put("c", S, to, 0) /\ Goto("loop", Conv + 1, to)
    BY CharactersTake
<1>3. stored' \in Seq(Stored) /\ num' \in 0 .. Len(stored')
    <2>1. "c" \in Kinds /\ 0 \in -LongLongSize .. LongLongSize /\ num' = num + 1
        BY SizesAssumption DEF Kinds, Characters
    <2> QED BY <1>2, <2>1, PutIs
<1> QED BY <1>1, <1>2, <1>3, NextRound

LEMMA StringToSpaceStep ==
    ASSUME IInv, StringToSpace
    PROVE  IInv' /\ Advances
<1>1. /\ Conv \in fmt + 1 .. Len(format) /\ fmt \in Nat \ {0} /\ pc = "loop"
      /\ format \in Seq(STRING)
    BY ArgumentIs DEF StringToSpace, NUL
<1>2. PICK from \in Nat, to \in Nat :
         /\ from <= to /\ to \in 1 .. Len(buf) + 1
         /\ Put("s", from, to, 0) /\ Goto("loop", Conv + 1, to)
    BY StringTakes
<1>3. stored' \in Seq(Stored) /\ num' \in 0 .. Len(stored')
    <2>1. "s" \in Kinds /\ 0 \in -LongLongSize .. LongLongSize /\ num' = num + 1
        BY SizesAssumption DEF Kinds, StringToSpace
    <2> QED BY <1>2, <2>1, PutIs
<1> QED BY <1>1, <1>2, <1>3, NextRound

LEMMA CountStep ==
    ASSUME IInv, Count
    PROVE  IInv' /\ Advances
<1>1. /\ Conv \in fmt + 1 .. Len(format) /\ S \in str .. Len(buf)
      /\ fmt \in Nat \ {0} /\ str \in Nat \ {0} /\ pc = "loop"
      /\ format \in Seq(STRING) /\ buf \in Seq(STRING)
    BY ArgumentIs DEF Count, NUL
<1> DEFINE value == Narrow(S - 1, IntSize, TRUE)
<1>2. Put("n", S, S, value) /\ Goto("loop", Conv + 1, S) /\ num' = num
    BY DEF Count
<1>3. S \in Nat /\ S \in 1 .. Len(buf) + 1 /\ S - 1 \in Int /\ S <= S
    BY <1>1
<1>4. value \in -LongLongSize .. LongLongSize
    BY <1>3, NarrowIs
<1> HIDE DEF value
<1>5. stored' \in Seq(Stored) /\ num' \in 0 .. Len(stored')
    <2>1. "n" \in Kinds
        BY DEF Kinds
    <2> QED BY <1>2, <1>3, <1>4, <2>1, PutIs
<1> QED BY <1>1, <1>2, <1>3, <1>5, NextRound

LEMMA PercentOrInvalidStep ==
    ASSUME IInv, PercentOrInvalid
    PROVE  IInv' /\ Advances
<1> DEFINE c == At(format, Conv)
           label == IF c = "%" /\ At(buf, S) = "%" THEN "loop" ELSE "done"
           s == IF c = "%" THEN S + 1 ELSE S
<1>1. Conv \in fmt + 1 .. Len(format) /\ S \in str .. Len(buf)
    BY ConvertsIs DEF PercentOrInvalid
<1>2. /\ fmt \in Nat \ {0} /\ str \in Nat \ {0} /\ pc = "loop"
      /\ format \in Seq(STRING) /\ buf \in Seq(STRING)
    BY FormatIs DEF IInv, PercentOrInvalid, Conversion, Directive, More
<1>3. Goto(label, Conv + 1, s) /\ stored' \in Seq(Stored) /\ num' \in 0 .. Len(stored')
    BY NothingIs DEF PercentOrInvalid
<1>4. label \in {"loop", "tail", "done"} /\ s \in 1 .. Len(buf) + 1
    BY <1>1, <1>2
<1> HIDE DEF label, s
<1>5. /\ Conv + 1 \in 1 .. Len(format) + 1 /\ Conv + 1 > fmt
      /\ s \in 1 .. Len(buf) + 2 /\ s <= Len(buf) + 1
    BY <1>1, <1>2, <1>4
<1>6. IInv'
    BY <1>2, <1>3, <1>4, <1>5, GotoIs
<1> QED BY <1>2, <1>3, <1>5, <1>6 DEF Goto, Advances

LEMMA NotANumberStep ==
    ASSUME IInv, NotANumber
    PROVE  IInv' /\ Advances
<1> DEFINE i == SkipSpaces(buf, S)
<1>1. /\ Conv \in fmt + 1 .. Len(format) /\ S \in str .. Len(buf)
      /\ fmt \in Nat \ {0} /\ str \in Nat \ {0} /\ pc = "loop"
      /\ format \in Seq(STRING) /\ buf \in Seq(STRING)
    BY ArgumentIs DEF NotANumber, Ints, NUL
<1>2. i \in S .. Len(buf) + 1
    BY <1>1, SkipIs DEF SkipSpaces
<1>3. Goto("tail", Conv + 1, i) /\ stored' \in Seq(Stored) /\ num' \in 0 .. Len(stored')
    BY NothingIs DEF NotANumber
<1> HIDE DEF i
<1>4. IInv'
    BY <1>1, <1>2, <1>3, GotoIs
<1> QED BY <1>1, <1>3, <1>4 DEF Goto, Advances

LEMMA NumberStep ==
    ASSUME IInv, Number
    PROVE  IInv' /\ Advances
<1> DEFINE c == At(format, Conv)
           i == SkipSpaces(buf, S)
           signed == c \in {"i", "d"} /\ Qualifier \notin {"z", "Z"}
           r == NumberAt(c, i, signed)
           value == Narrow(r.value, SizeOf(Qualifier), signed)
<1>1. /\ Conv \in fmt + 1 .. Len(format) /\ fmt \in Nat \ {0} /\ pc = "loop"
      /\ format \in Seq(STRING) /\ c \in Ints
    BY ArgumentIs DEF Number, Ints, NUL
<1>2. /\ Put(c, i, r.end, value) /\ Goto("loop", Conv + 1, r.end) /\ num' = num + 1
      /\ i \in Nat /\ r.end \in Nat /\ i <= r.end /\ r.end \in 1 .. Len(buf) + 1
      /\ value \in -LongLongSize .. LongLongSize
    BY NumberTakes DEF Number
<1> HIDE DEF c, i, r, value
<1>3. stored' \in Seq(Stored) /\ num' \in 0 .. Len(stored')
    BY <1>1, <1>2, PutIs DEF Kinds
<1> QED BY <1>1, <1>2, <1>3, NextRound

LEMMA TrailingCountStep ==
    ASSUME IInv, TrailingCount
    PROVE  IInv' /\ Advances
<1> DEFINE value == Narrow(str - 1, IntSize, TRUE)
<1>1. Goto("done", fmt, str) /\ pc # "done" /\ num' = num
    BY DEF TrailingCount
<1>2. str \in Nat /\ str - 1 \in Int /\ str <= str
    BY DEF IInv
<1>3. value \in -LongLongSize .. LongLongSize
    BY <1>2, NarrowIs
<1>4. Put("n", str, str, value) \/ UNCHANGED stored
    BY DEF TrailingCount
<1> HIDE DEF value
<1>5. stored' \in Seq(Stored) /\ num' \in 0 .. Len(stored')
    <2>1. CASE Put("n", str, str, value)
        <3>1. "n" \in Kinds
            BY DEF Kinds
        <3> QED BY <1>1, <1>2, <1>3, <2>1, <3>1, PutIs
    <2>2. CASE UNCHANGED stored
        BY <1>1, <2>2 DEF IInv
    <2> QED BY <1>4, <2>1, <2>2
<1>6. IInv'
    BY <1>1, <1>5, GotoIs DEF IInv
<1> QED BY <1>1, <1>6 DEF Goto, Advances

LEMMA NextIInv == IInv /\ [Next]_vars => IInv' /\ [Advances]_vars
<1> SUFFICES ASSUME IInv, [Next]_vars
             PROVE  IInv' /\ [Advances]_vars
    OBVIOUS
<1>1. CASE Next /\ ~Returned
    BY <1>1, LiteralStep, SuppressStep, CannotConvertStep, CharactersStep,
       StringToSpaceStep, CountStep, PercentOrInvalidStep, NotANumberStep, NumberStep,
       TrailingCountStep DEF Next
<1>2. CASE UNCHANGED vars
    BY <1>2 DEF IInv, vars, QualifiersFollowed
<1> QED BY <1>1, <1>2 DEF Returned

--------------------------------------------------------------------------
(* The numbers.                                                            *)

\* The code and the property see the same digits and base, unless it is 8.
LEMMA RadixRight ==
    ASSUME NEW s \in Seq(STRING), NEW p \in 1 .. Len(s), IsIn(s[p], Hex), NEW c \in Ints
    PROVE  LET fr == FixupRadix(s, p, Base(c))
               end == DigitsEnd(s, fr.start, fr.base)
               plain == SubSeq(s, p, end - 1)
           IN  RadixOf(c, plain) # 8 =>
                  /\ RadixOf(c, plain) = fr.base
                  /\ SubSeq(s, fr.start, end - 1) =
                        IF fr.base = 16 /\ Prefixed(plain)
                        THEN SubSeq(plain, 3, Len(plain)) ELSE plain
<1> DEFINE fr == FixupRadix(s, p, Base(c))
           end == DigitsEnd(s, fr.start, fr.base)
           plain == SubSeq(s, p, end - 1)
           prefixed == At(s, p) = "0" /\ At(s, p + 1) = "x"
<1>0. Base(c) \in Nat /\ Octal \in {8, 9}
    BY SizesAssumption DEF Base
<1>1. fr.base \in Nat /\ fr.start \in p .. Len(s) + 1
    BY <1>0, FixupRadixIs
<1>2. /\ fr.base = IF Base(c) # 0 THEN Base(c)
                   ELSE IF prefixed /\ IsIn(At(s, p + 2), Hex) THEN 16
                   ELSE IF At(s, p) = "0" THEN Octal ELSE 10
      /\ fr.start = IF fr.base = 16 /\ prefixed THEN p + 2 ELSE p
    BY <1>0 DEF FixupRadix
<1> HIDE DEF fr
<1>3. /\ end \in fr.start .. Len(s) + 1
      /\ SubSeq(s, fr.start, end - 1) \in Seq(ToSet(Hex))
      /\ IsIn(At(s, end), Hex) => ValueOf(At(s, end)) >= fr.base
    <2>1. fr.start \in 1 .. Len(s) + 1
        BY <1>1
    <2> QED BY <1>1, <2>1, Parsed
<1> HIDE DEF end
<1>4. end \in p .. Len(s) + 1 /\ p \in 1 .. Len(s) + 1 /\ p \in Nat \ {0} /\ end \in Nat
    BY <1>1, <1>3
<1>5. /\ plain \in Seq(STRING) /\ Len(plain) = end - p
      /\ \A k \in 1 .. end - p : At(plain, k) = s[p + k - 1]
      /\ end = p => At(plain, 1) = NUL
      /\ end <= p + 1 => At(plain, 2) = NUL
    BY <1>4, PieceIs
<1>6. At(s, p) = s[p] /\ (p + 1 <= Len(s) => At(s, p + 1) = s[p + 1])
    BY <1>4 DEF At
<1> HIDE DEF plain, prefixed
<1>7. Prefixed(plain) => prefixed
    <2> SUFFICES ASSUME Prefixed(plain) PROVE prefixed
        OBVIOUS
    <2>1. At(plain, 1) = "0" /\ At(plain, 2) = "x"
        BY DEF Prefixed
    <2>2. end > p + 1
        BY <1>4, <1>5, <2>1 DEF NUL
    <2>3. 1 \in 1 .. end - p /\ 2 \in 1 .. end - p /\ p + 1 - 1 = p /\ p + 2 - 1 = p + 1
          /\ p + 1 <= Len(s)
        BY <1>4, <2>2
    <2>4. At(plain, 1) = s[p] /\ At(plain, 2) = s[p + 1]
        BY <1>5, <2>3
    <2> QED BY <1>6, <2>1, <2>3, <2>4 DEF prefixed
<1>8. ASSUME prefixed, fr.start = p + 2
      PROVE  Prefixed(plain)
    <2>1. end > p + 1 /\ 1 \in 1 .. end - p /\ 2 \in 1 .. end - p /\ p + 1 - 1 = p
          /\ p + 2 - 1 = p + 1 /\ p + 1 <= Len(s)
        BY <1>3, <1>4, <1>8
    <2>2. At(plain, 1) = s[p] /\ At(plain, 2) = s[p + 1]
        BY <1>5, <2>1
    <2> QED BY <1>6, <1>8, <2>1, <2>2 DEF prefixed, Prefixed
<1>9. fr.base = 16 =>
         SubSeq(s, fr.start, end - 1) =
            IF Prefixed(plain) THEN SubSeq(plain, 3, Len(plain)) ELSE plain
    <2>1. CASE fr.base = 16 /\ prefixed
        <3>1. fr.start = p + 2 /\ p + 2 <= end
            BY <1>2, <1>3, <2>1
        <3>2. SubSeq(plain, 3, end - p) = SubSeq(s, p + 2, end - 1)
            BY <1>4, <3>1, PieceBehind DEF plain
        <3> QED BY <1>5, <1>8, <2>1, <3>1, <3>2
    <2>2. CASE fr.base = 16 /\ ~prefixed
        BY <1>2, <1>7, <2>2 DEF plain
    <2> QED BY <2>1, <2>2
<1>10. fr.base # 16 => SubSeq(s, fr.start, end - 1) = plain
    BY <1>2 DEF plain
<1>11. ASSUME RadixOf(c, plain) # 8
       PROVE  RadixOf(c, plain) = fr.base
    <2>1. CASE c \in {"x", "X"}
        <3>1. Base(c) = 16
            BY <2>1 DEF Base
        <3>2. RadixOf(c, plain) = 16
            BY <2>1 DEF RadixOf
        <3>3. fr.base = 16
            BY <1>2, <3>1
        <3> QED BY <3>2, <3>3
    <2>2. CASE c = "o"
        BY <1>11, <2>2 DEF RadixOf
    <2>3. CASE c \in {"d", "u"}
        <3>1. c \notin {"o", "x", "X", "i"}
            BY <2>3
        <3>2. Base(c) = 10
            BY <3>1 DEF Base
        <3>3. RadixOf(c, plain) = 10
            BY <3>1 DEF RadixOf
        <3>4. fr.base = 10
            BY <1>2, <3>2
        <3> QED BY <3>3, <3>4
    <2>4. CASE c = "i" /\ s[p] # "0"
        <3>1. At(plain, 1) # "0"
            <4>1. CASE end = p
                BY <1>5, <4>1 DEF NUL
            <4>2. CASE end # p
                <5>1. 1 \in 1 .. end - p /\ p + 1 - 1 = p
                    BY <1>4, <4>2
                <5> QED BY <1>5, <2>4, <5>1
            <4> QED BY <4>1, <4>2
        <3>2. RadixOf(c, plain) = 10
            BY <2>4, <3>1 DEF RadixOf, Prefixed
        <3>3. fr.base = 10
            BY <1>2, <1>6, <2>4 DEF Base, prefixed
        <3> QED BY <3>2, <3>3
    <2>5. CASE c = "i" /\ s[p] = "0" /\ prefixed /\ IsIn(At(s, p + 2), Hex)
        <3>1. Base(c) = 0
            BY <2>5 DEF Base
        <3>2. fr.base = 16
            BY <1>2, <2>5, <3>1
        <3>3. Prefixed(plain)
            BY <1>2, <1>8, <2>5, <3>2
        <3>4. c \notin {"o", "x", "X"} /\ c = "i"
            BY <2>5
        <3>5. RadixOf(c, plain) = 16
            BY <3>3, <3>4 DEF RadixOf
        <3> QED BY <3>2, <3>5
    <2>6. CASE c = "i" /\ s[p] = "0" /\ ~(prefixed /\ IsIn(At(s, p + 2), Hex))
        <3>1. Base(c) = 0
            BY <2>6 DEF Base
        <3>2. fr.base = Octal /\ fr.base \in {8, 9}
            BY <1>0, <1>2, <1>6, <2>6, <3>1
        <3>3. fr.start = p
            BY <1>2, <3>2
        <3>4. end # p
            <4>1. ValueOf("0") = 0
                BY DEF ValueOf, Hex, Decimal
            <4> QED BY <1>3, <1>6, <2>6, <3>2, <4>1
        <3>5. 1 \in 1 .. end - p /\ p + 1 - 1 = p
            BY <1>4, <3>4
        <3>6. At(plain, 1) = "0"
            BY <1>5, <2>6, <3>5
        <3>7. ~Prefixed(plain)
            <4> SUFFICES ASSUME Prefixed(plain) PROVE FALSE
                OBVIOUS
            <4>1. At(plain, 2) = "x"
                BY DEF Prefixed
            <4>2. 2 \in DOMAIN plain /\ plain[2] = "x"
                BY <4>1 DEF At, NUL
            <4>3. plain \in Seq(ToSet(Hex))
                BY <1>3, <3>3 DEF plain
            <4>4. "x" \notin ToSet(Hex)
                BY DEF ToSet, Hex, Decimal
            <4> QED BY <4>2, <4>3, <4>4
        <3>8. c \notin {"o", "x", "X"} /\ c = "i"
            BY <2>6
        <3>9. RadixOf(c, plain) = 8
            BY <3>6, <3>7, <3>8 DEF RadixOf
        <3> QED BY <1>11, <3>9
    <2> QED BY <2>1, <2>2, <2>3, <2>4, <2>5, <2>6 DEF Ints
<1> QED BY <1>9, <1>10, <1>11 DEF fr, end, plain

\* Where the digits of a number or its prefix start.
FirstDigit(c, i) == IF c \in {"i", "d"} /\ At(buf, i) = "-" THEN i + 1 ELSE i

\* A number starts with a digit, behind its sign if it has one.
LEMMA StartIs ==
    ASSUME buf \in Seq(STRING), NEW c \in Ints, NEW i \in 1 .. Len(buf) + 1, StartsNumber(c, i)
    PROVE  /\ FirstDigit(c, i) \in 1 .. Len(buf)
           /\ IsIn(buf[FirstDigit(c, i)], Hex)
           /\ buf[FirstDigit(c, i)] # "-"
<1> DEFINE p == FirstDigit(c, i)
           d == At(buf, p)
<1>1. \/ IsIn(d, Hex)
      \/ IsIn(d, SubSeq(Decimal, 1, 8))
      \/ IsIn(d, Decimal)
    <2>1. d = IF c \in {"i", "d"} /\ At(buf, i) = "-" THEN At(buf, i + 1) ELSE At(buf, i)
        BY DEF FirstDigit
    <2> HIDE DEF d
    <2> DEFINE b == Base(c)
    <2>2. (CASE b = 16 -> IsIn(d, Hex)
             [] b = Octal -> IsIn(d, SubSeq(Decimal, 1, 8))
             [] OTHER -> IsIn(d, Decimal))
        BY <2>1 DEF StartsNumber
    <2> HIDE DEF b
    <2>3. Octal # 16
        BY SizesAssumption
    <2> QED BY <2>2, <2>3
<1>2. IsIn(d, Hex)
    <2> HIDE DEF d
    <2>0. DOMAIN Decimal = 1 .. 10
        BY DEF Decimal
    <2>1. ASSUME IsIn(d, Decimal) PROVE IsIn(d, Hex)
        <3>1. \A k \in 1 .. 10 : k \in DOMAIN Hex /\ Hex[k] = Decimal[k]
            BY DEF Decimal, Hex
        <3> QED BY <2>0, <2>1, <3>1 DEF IsIn
    <2>2. ASSUME IsIn(d, SubSeq(Decimal, 1, 8)) PROVE IsIn(d, Decimal)
        <3>1. DOMAIN SubSeq(Decimal, 1, 8) = 1 .. 8
            BY DEF Decimal
        <3>2. \A k \in 1 .. 8 : SubSeq(Decimal, 1, 8)[k] = Decimal[k]
            BY DEF Decimal
        <3> QED BY <2>0, <2>2, <3>1, <3>2 DEF IsIn
    <2> QED BY <1>1, <2>1, <2>2
<1>3. d # NUL /\ d # "-"
    BY <1>2 DEF IsIn, Hex, Decimal, NUL
<1>4. p \in Nat \ {0}
    BY DEF FirstDigit
<1> HIDE DEF p
<1>5. p \in 1 .. Len(buf) /\ buf[p] = d
    BY <1>3, <1>4, AtIs DEF At
<1> QED BY <1>2, <1>3, <1>5 DEF p

\* The text of a number without its sign.
LEMMA UnsignedIs ==
    ASSUME buf \in Seq(STRING), NEW c \in Ints, NEW i \in 1 .. Len(buf) + 1, StartsNumber(c, i),
           NEW e \in FirstDigit(c, i) .. Len(buf) + 1
    PROVE  LET p == FirstDigit(c, i)
               text == SubSeq(buf, i, e - 1)
           IN  /\ Unsigned(text) = SubSeq(buf, p, e - 1)
               /\ Unsigned(text) = text <=> p = i
<1> DEFINE p == FirstDigit(c, i)
           text == SubSeq(buf, i, e - 1)
<1>1. p \in 1 .. Len(buf) /\ buf[p] # "-"
    BY StartIs
<1>2. e \in i .. Len(buf) + 1 /\ i \in Nat \ {0} /\ e \in Nat
    BY <1>1 DEF FirstDigit
<1>3. /\ text \in Seq(STRING) /\ Len(text) = e - i
      /\ \A k \in 1 .. e - i : At(text, k) = buf[i + k - 1]
      /\ e = i => At(text, 1) = NUL
    BY <1>2, PieceIs
<1>4. CASE p = i + 1
    <2>1. At(buf, i) = "-"
        BY <1>2, <1>4 DEF FirstDigit
    <2>2. buf[i] = "-"
        BY <2>1 DEF At, NUL
    <2>3. e >= i + 1 /\ 1 \in 1 .. e - i /\ i + 1 - 1 = i
        BY <1>2, <1>4
    <2>4. At(text, 1) = "-"
        BY <1>3, <2>2, <2>3
    <2>5. Tail(text) = SubSeq(buf, i + 1, e - 1)
        BY <1>2, <2>3, PieceBehind
    <2> HIDE DEF text
    <2>6. Len(Tail(text)) # Len(text)
        BY <1>2, <1>3, <2>3
    <2>7. Unsigned(text) = Tail(text)
        BY <2>4 DEF Unsigned
    <2>8. Unsigned(text) # text
        BY <2>6, <2>7
    <2>9. p # i
        BY <1>2, <1>4
    <2>10. Unsigned(text) = SubSeq(buf, p, e - 1)
        BY <1>4, <2>5, <2>7 DEF text
    <2> HIDE DEF p
    <2> QED BY <2>8, <2>9, <2>10 DEF text, p
<1>5. CASE p = i
    <2>1. At(text, 1) # "-"
        <3>1. CASE e = i
            BY <1>3, <3>1 DEF NUL
        <3>2. CASE e # i
            <4>1. 1 \in 1 .. e - i /\ i + 1 - 1 = i
                BY <1>2, <3>2
            <4> QED BY <1>1, <1>3, <1>5, <4>1
        <3> QED BY <3>1, <3>2
    <2>2. Unsigned(text) = text
        BY <2>1 DEF Unsigned
    <2> QED BY <1>5, <2>2
<1>6. p = i + 1 \/ p = i
    BY DEF FirstDigit
<1> QED BY <1>4, <1>5, <1>6

\* A number that is not octal is stored as what its digits stand for.
LEMMA NumberHolds ==
    ASSUME buf \in Seq(STRING), NEW c \in Ints, NEW i \in 1 .. Len(buf) + 1, StartsNumber(c, i),
           NEW size \in {IntSize, LongLongSize}, NEW x,
           x = LET signed == c \in {"i", "d"}
                   r == IF signed THEN StrToS(buf, i, Base(c)) ELSE StrToU(buf, i, Base(c))
               IN  [conv |-> c, from |-> i, to |-> r.end, value |-> Narrow(r.value, size, signed)],
           ~IsOctal(x)
    PROVE  Holds(x, size)
<1> DEFINE signed == c \in {"i", "d"}
           r == IF signed THEN StrToS(buf, i, Base(c)) ELSE StrToU(buf, i, Base(c))
           p == FirstDigit(c, i)
           fr == FixupRadix(buf, p, Base(c))
           e == DigitsEnd(buf, fr.start, fr.base)
           digits == SubSeq(buf, fr.start, e - 1)
           n == Positional(digits, fr.base)
           text == SubSeq(buf, i, e - 1)
           plain == SubSeq(buf, p, e - 1)
           a == IF p = i THEN n ELSE -n
<1>0. signed \in BOOLEAN
    OBVIOUS
<1>1. p \in 1 .. Len(buf) /\ IsIn(buf[p], Hex)
    BY StartIs
<1>2. Base(c) \in Nat
    BY SizesAssumption DEF Base
<1>3. fr.base \in Nat /\ fr.start \in p .. Len(buf) + 1
    BY <1>1, <1>2, FixupRadixIs
<1>4. /\ e \in fr.start .. Len(buf) + 1
      /\ digits \in Seq(ToSet(Hex))
      /\ \A k \in DOMAIN digits : ValueOf(digits[k]) < fr.base
      /\ IsIn(At(buf, e), Hex) => ValueOf(At(buf, e)) >= fr.base
      /\ ParseInteger(buf, fr.start, fr.base) = [value |-> n % LongLongSize, end |-> e]
    <2>1. fr.start \in 1 .. Len(buf) + 1
        BY <1>1, <1>3
    <2> HIDE DEF fr
    <2> QED BY <1>3, <2>1, Parsed
<1>5. n \in Int
    <2>1. "0" \in ToSet(Hex)
        BY DEF ToSet, Hex, Decimal
    <2> HIDE DEF digits, fr
    <2> QED BY <1>3, <1>4, <2>1, PositionalNext
<1>6. StrToU(buf, p, Base(c)) = [value |-> n % LongLongSize, end |-> e]
    BY <1>4 DEF StrToU
<1>7. RadixOf(c, plain) # 8 =>
         /\ RadixOf(c, plain) = fr.base
         /\ digits = IF fr.base = 16 /\ Prefixed(plain)
                     THEN SubSeq(plain, 3, Len(plain)) ELSE plain
    BY <1>1, RadixRight
<1>8. /\ Unsigned(text) = plain
      /\ Unsigned(text) = text <=> p = i
    <2>1. e \in p .. Len(buf) + 1
        BY <1>1, <1>3, <1>4
    <2> HIDE DEF e
    <2> QED BY <2>1, UnsignedIs
<1> HIDE DEF n, digits, e, fr, text, plain
<1>9. r.end = e /\ r.value = a % LongLongSize
    <2>0. LongLongSize \in Nat \ {0}
        BY SizesAssumption
    <2>1. CASE signed /\ At(buf, i) = "-"
        <3>1. p = i + 1 /\ p # i
            BY <2>1 DEF FirstDigit
        <3>2. r = [end |-> e, value |-> (-(n % LongLongSize)) % LongLongSize]
            BY <1>6, <2>1, <3>1 DEF StrToS
        <3>3. (-(n % LongLongSize)) % LongLongSize = (-n) % LongLongSize
            BY <1>5, <2>0, ModMinus
        <3> QED BY <3>1, <3>2, <3>3
    <2>2. CASE ~(signed /\ At(buf, i) = "-")
        <3>1. p = i
            BY <2>2 DEF FirstDigit
        <3>2. r = StrToU(buf, p, Base(c))
            BY <2>2, <3>1 DEF StrToS
        <3> QED BY <1>6, <3>1, <3>2
    <2> QED BY <2>1, <2>2
<1>10. x = [conv |-> c, from |-> i, to |-> e, value |-> Narrow(a % LongLongSize, size, signed)]
    <2>1. x = [conv |-> c, from |-> i, to |-> r.end, value |-> Narrow(r.value, size, signed)]
        OBVIOUS
    <2> HIDE DEF r, a, signed
    <2> QED BY <1>9, <2>1
<1>11. a \in Int
    BY <1>5
<1> HIDE DEF r, p
<1>12. RadixOf(c, plain) # 8
    BY <1>8, <1>10 DEF IsOctal, text
<1> DEFINE v == Narrow(a % LongLongSize, size, signed)
<1>13. IF c \in {"d", "i"} THEN -size <= 2 * v /\ 2 * v < size /\ (v - a) % size = 0
                           ELSE v = a % size
    <2>1. /\ Narrow(a % LongLongSize, size, FALSE) = a % size
          /\ LET y == Narrow(a % LongLongSize, size, TRUE)
             IN  -size <= 2 * y /\ 2 * y < size /\ (y - a) % size = 0
        <3> HIDE DEF a
        <3> QED BY <1>11, NarrowRight
    <2> HIDE DEF a
    <2>2. CASE signed
        <3>1. signed = TRUE
            BY <2>2
        <3> HIDE DEF signed
        <3>2. v = Narrow(a % LongLongSize, size, TRUE)
            BY <3>1
        <3> HIDE DEF v
        <3>3. -size <= 2 * v /\ 2 * v < size /\ (v - a) % size = 0
            BY <2>1, <3>2
        <3> QED BY <2>2, <3>3 DEF signed
    <2>3. CASE ~signed
        <3>1. signed = FALSE
            BY <2>3
        <3> HIDE DEF signed
        <3>2. v = Narrow(a % LongLongSize, size, FALSE)
            BY <3>1
        <3> QED BY <2>1, <2>3, <3>2 DEF signed
    <2> QED BY <2>2, <2>3
<1>14. c \notin {"d", "i"} => a = n
    BY DEF FirstDigit, p
<1> HIDE DEF v
<1>15. /\ x.conv = c /\ x.from = i /\ x.to = e /\ x.value = v
    BY <1>10 DEF v
<1> DEFINE dg == IF fr.base = 16 /\ Prefixed(plain) THEN SubSeq(plain, 3, Len(plain)) ELSE plain
<1>16. digits = dg /\ RadixOf(c, plain) = fr.base
    BY <1>7, <1>12
<1> HIDE DEF dg
<1>17. Holds(x, size) <=> /\ Stands(c, v, size, IF plain = text THEN n ELSE -n)
                          /\ AllDigits(digits, fr.base, At(buf, e))
    <2>1. SubSeq(buf, x.from, x.to - 1) = text
        BY <1>15 DEF text
    <2>2. Unsigned(text) = plain
        BY <1>8
    <2> DEFINE b == RadixOf(x.conv, plain)
    <2>3. b = fr.base
        BY <1>15, <1>16
    <2> DEFINE ds == IF b = 16 /\ Prefixed(plain) THEN SubSeq(plain, 3, Len(plain)) ELSE plain
    <2>4. ds = digits
        BY <1>16, <2>3 DEF dg
    <2>5. Holds(x, size) <=>
             /\ Stands(x.conv, x.value, size,
                       IF plain = text THEN Positional(ds, b) ELSE -Positional(ds, b))
             /\ AllDigits(ds, b, At(buf, x.to))
        BY <2>1, <2>2 DEF Holds
    <2> HIDE DEF b, ds
    <2> QED BY <1>15, <2>3, <2>4, <2>5 DEF n
<1>18. a = IF plain = text THEN n ELSE -n
    BY <1>8
<1> HIDE DEF a
<1>19. Stands(c, v, size, IF plain = text THEN n ELSE -n)
    BY <1>13, <1>14, <1>18 DEF Stands
<1> QED BY <1>4, <1>17, <1>19 DEF AllDigits

--------------------------------------------------------------------------
(* The elements at some places.                                            *)

(* The elements at some places.                                            *)
\* The place that is j-th by rank is one alone.
LEMMA RankIs ==
    ASSUME NEW T \in SUBSET Nat, IsFiniteSet(T), NEW j \in T
    PROVE  /\ Rank(T, j) \in 1 .. Cardinality(T)
           /\ \A l \in T : Rank(T, l) = Rank(T, j) => l = j
<1> DEFINE Up(l) == {k \in T : k <= l}
<1>1. \A l \in T : IsFiniteSet(Up(l)) /\ Cardinality(Up(l)) \in Nat
    <2> SUFFICES ASSUME NEW l \in T PROVE IsFiniteSet(Up(l)) /\ Cardinality(Up(l)) \in Nat
        OBVIOUS
    <2>1. Up(l) \subseteq T
        OBVIOUS
    <2> QED BY <2>1, FS_Subset, FS_CardinalityType
<1>2. Cardinality(Up(j)) <= Cardinality(T) /\ Cardinality(T) \in Nat
    <2>1. Up(j) \subseteq T
        OBVIOUS
    <2> QED BY <2>1, FS_Subset, FS_CardinalityType
<1>3. Cardinality(Up(j)) # 0
    <2>1. j \in Up(j)
        OBVIOUS
    <2> HIDE DEF Up
    <2> QED BY <1>1, <2>1, FS_EmptySet
<1>4. ASSUME NEW l \in T, NEW m \in T, l < m
      PROVE  Cardinality(Up(l)) < Cardinality(Up(m))
    <2>1. Up(l) \subseteq Up(m) /\ Up(l) # Up(m)
        <3>1. m \in Up(m) /\ m \notin Up(l)
            BY <1>4
        <3>2. \A k \in Up(l) : k \in Up(m)
            BY <1>4
        <3> HIDE DEF Up
        <3> QED BY <3>1, <3>2
    <2> HIDE DEF Up
    <2> QED BY <1>1, <2>1, FS_Subset
<1>5. \A l \in T : Cardinality(Up(l)) = Cardinality(Up(j)) => l = j
    <2> SUFFICES ASSUME NEW l \in T, Cardinality(Up(l)) = Cardinality(Up(j)), l # j PROVE FALSE
        OBVIOUS
    <2>1. l < j \/ j < l
        OBVIOUS
    <2> HIDE DEF Up
    <2> QED BY <1>1, <1>4, <2>1
<1> QED BY <1>1, <1>2, <1>3, <1>5 DEF Rank

\* What stands at a place stands at its rank.
LEMMA PickedAt ==
    ASSUME NEW s, NEW T \in SUBSET Nat, IsFiniteSet(T), NEW j \in T
    PROVE  Picked(s, T)[Rank(T, j)] = s[j]
<1>1. /\ Rank(T, j) \in 1 .. Cardinality(T)
      /\ \A l \in T : Rank(T, l) = Rank(T, j) => l = j
    BY RankIs
<1>2. (CHOOSE l \in T : Rank(T, l) = Rank(T, j)) = j
    BY <1>1
<1> QED BY <1>1, <1>2 DEF Picked

\* A place behind the others comes last and moves none of them.
LEMMA RankNext ==
    ASSUME NEW T \in SUBSET Nat, IsFiniteSet(T), NEW j \in Nat, \A k \in T : k < j
    PROVE  /\ Cardinality(T \cup {j}) = Cardinality(T) + 1 /\ Cardinality(T) \in Nat
           /\ IsFiniteSet(T \cup {j}) /\ T \cup {j} \in SUBSET Nat
           /\ Rank(T \cup {j}, j) = Cardinality(T) + 1
           /\ \A l \in T : Rank(T \cup {j}, l) = Rank(T, l)
<1> DEFINE U == T \cup {j}
<1>1. j \notin T
    OBVIOUS
<1>2. Cardinality(U) = Cardinality(T) + 1 /\ Cardinality(T) \in Nat /\ IsFiniteSet(U)
    BY <1>1, FS_AddElement, FS_CardinalityType
<1>3. Rank(U, j) = Cardinality(T) + 1
    <2>1. \A k \in U : k <= j
        OBVIOUS
    <2> HIDE DEF U
    <2>2. {k \in U : k <= j} = U
        BY <2>1
    <2> QED BY <1>2, <2>2 DEF Rank
<1>4. \A l \in T : Rank(U, l) = Rank(T, l)
    <2> SUFFICES ASSUME NEW l \in T PROVE Rank(U, l) = Rank(T, l)
        OBVIOUS
    <2>1. {k \in U : k <= l} = {k \in T : k <= l}
        OBVIOUS
    <2> QED BY <2>1 DEF Rank
<1> QED BY <1>2, <1>3, <1>4

\* The last of the elements picked, and the others.
LEMMA PickedLast ==
    ASSUME NEW s, NEW T \in SUBSET Nat, IsFiniteSet(T), NEW j \in Nat, \A k \in T : k < j
    PROVE  /\ Cardinality(T) \in Nat
           /\ DOMAIN Picked(s, T) = 1 .. Cardinality(T)
           /\ DOMAIN Picked(s, T \cup {j}) = 1 .. Cardinality(T) + 1
           /\ Picked(s, T \cup {j})[Cardinality(T) + 1] = s[j]
<1> DEFINE U == T \cup {j}
           n == Cardinality(T)
<1>1. /\ Cardinality(U) = n + 1 /\ n \in Nat /\ IsFiniteSet(U) /\ U \in SUBSET Nat
      /\ Rank(U, j) = n + 1 /\ j \in U
    BY RankNext
<1>2. Picked(s, U)[n + 1] = s[j]
    <2> HIDE DEF U, n
    <2> QED BY <1>1, PickedAt
<1>3. DOMAIN Picked(s, U) = 1 .. Cardinality(U) /\ DOMAIN Picked(s, T) = 1 .. n
    BY DEF Picked
<1> QED BY <1>1, <1>2, <1>3

LEMMA PickedSame ==
    ASSUME NEW s, NEW T \in SUBSET Nat, IsFiniteSet(T), NEW j \in Nat, \A k \in T : k < j,
           NEW i \in 1 .. Cardinality(T)
    PROVE  Picked(s, T \cup {j})[i] = Picked(s, T)[i]
<1> DEFINE U == T \cup {j}
           n == Cardinality(T)
<1>1. /\ Cardinality(U) = n + 1 /\ n \in Nat /\ Rank(U, j) = n + 1
      /\ \A l \in T : Rank(U, l) = Rank(T, l)
    BY RankNext
<1>2. j \notin T /\ \A l : l \in U <=> l \in T \/ l = j
    OBVIOUS
<1> HIDE DEF U
<1>3. ASSUME NEW l
      PROVE  (l \in U /\ Rank(U, l) = i) <=> (l \in T /\ Rank(T, l) = i)
    <2>1. Rank(U, j) # i
        BY <1>1
    <2> QED BY <1>1, <1>2, <2>1
<1>4. (CHOOSE l \in U : Rank(U, l) = i) = (CHOOSE l \in T : Rank(T, l) = i)
    BY <1>3, Zenon
<1>5. i \in 1 .. Cardinality(U)
    BY <1>1
<1>6. Picked(s, U)[i] = s[CHOOSE l \in U : Rank(U, l) = i]
    BY <1>5 DEF Picked
<1>7. Picked(s, T)[i] = s[CHOOSE l \in T : Rank(T, l) = i]
    BY DEF Picked
<1> QED BY <1>4, <1>6, <1>7 DEF U

\* Two intervals from 1 on are the same if their ends are.
LEMMA SameLength ==
    ASSUME NEW a \in Nat, NEW b \in Nat, 1 .. a = 1 .. b
    PROVE  a = b
<1>1. ~(a < b)
    <2> SUFFICES ASSUME a < b PROVE FALSE
        OBVIOUS
    <2>1. b \in 1 .. b /\ b \notin 1 .. a
        OBVIOUS
    <2> QED BY <2>1
<1>2. ~(b < a)
    <2> SUFFICES ASSUME b < a PROVE FALSE
        OBVIOUS
    <2>1. a \in 1 .. a /\ a \notin 1 .. b
        OBVIOUS
    <2> QED BY <2>1
<1> QED BY <1>1, <1>2

--------------------------------------------------------------------------
(* The items of a format.                                                  *)

\* An item starts in a way that tells what it is.
Starts(conv, text) ==
    /\ text \in Seq(STRING) /\ Len(text) \in Nat \ {0}
    /\ conv = "ws" => Len(text) = 1 /\ IsSpace(text[1])
    /\ conv = "=" => Len(text) = 1 /\ text[1] \notin Spaces \cup {"%", NUL}
    /\ conv \notin {"ws", "="} => text[1] = "%"
    /\ conv = "*" => /\ Len(text) >= 2 /\ text[2] = "*"
                     /\ \A i \in 2 .. Len(text) : text[i] \notin Spaces \cup {"%"}

\* A well-formed item starts so.
LEMMA ItemStarts ==
    ASSUME NEW it \in Item, WellFormed(it)
    PROVE  Starts(it.conv, it.text)
<1> DEFINE text == it.text
           conv == it.conv
<1> SUFFICES Starts(conv, text)
    OBVIOUS
<1>1. text \in Seq(STRING)
    BY DEF Item
<1>2. \/ conv = "=" /\ Len(text) = 1 /\ At(text, Len(text)) \notin Spaces \cup {"%", NUL}
      \/ conv = "ws" /\ Len(text) = 1 /\ IsSpace(At(text, Len(text)))
      \/ /\ conv = "*"
         /\ At(text, 1) = "%" /\ At(text, 2) = "*"
         /\ \A i \in 2 .. Len(text) : text[i] \notin Spaces \cup {"%"}
      \/ conv \in Kinds \cup {"%", "bad"} /\ At(text, 1) = "%"
    BY DEF WellFormed
<1> HIDE DEF text, conv
<1>3. DOMAIN text = 1 .. Len(text) /\ Len(text) \in Nat
    BY <1>1
<1>4. At(text, 1) # NUL => 1 <= Len(text) /\ text[1] = At(text, 1)
    BY <1>3 DEF At
<1>5. At(text, 2) # NUL => 2 <= Len(text) /\ text[2] = At(text, 2)
    BY <1>3 DEF At
<1>6. CASE conv = "=" /\ Len(text) = 1 /\ At(text, Len(text)) \notin Spaces \cup {"%", NUL}
    <2>1. At(text, 1) \notin Spaces \cup {"%", NUL}
        BY <1>6
    <2> QED BY <1>1, <1>4, <1>6, <2>1 DEF Starts
<1>7. CASE conv = "ws" /\ Len(text) = 1 /\ IsSpace(At(text, Len(text)))
    <2>1. IsSpace(At(text, 1)) /\ At(text, 1) # NUL
        BY <1>7, SpacesAre
    <2> QED BY <1>1, <1>4, <1>7, <2>1 DEF Starts
<1>8. CASE /\ conv = "*"
           /\ At(text, 1) = "%" /\ At(text, 2) = "*"
           /\ \A i \in 2 .. Len(text) : text[i] \notin Spaces \cup {"%"}
    <2>1. At(text, 1) # NUL /\ At(text, 2) # NUL
        BY <1>8 DEF NUL
    <2> QED BY <1>1, <1>3, <1>4, <1>5, <1>8, <2>1 DEF Starts
<1>9. CASE conv \in Kinds \cup {"%", "bad"} /\ At(text, 1) = "%"
    <2>1. At(text, 1) # NUL
        BY <1>9 DEF NUL
    <2>2. conv \notin {"=", "ws", "*"}
        BY <1>9 DEF Kinds, Ints
    <2> QED BY <1>1, <1>3, <1>4, <1>9, <2>1, <2>2 DEF Starts
<1> QED BY <1>2, <1>6, <1>7, <1>8, <1>9

\* The parts of a conversion: its width, its qualifier, and the conversion.
Converting(it, text, w, c) ==
    /\ w \in 2 .. Len(text)
    /\ text[w] \notin ToSet(Decimal)
    /\ text[2] # "*"
    /\ c = text[Len(text)]
    /\ c \notin {"*", "L", "z", "Z", NUL}
    /\ it.conv = IF c \in Kinds \cup {"%"} THEN c ELSE "bad"
    /\ text[w] \in {"L", "z", "Z"} =>
          /\ Len(text) = w + 1
          /\ c \in Ints => it.size = SizeOf(text[w])
          /\ c \in {"i", "d"} => text[w] \notin {"z", "Z"}
    /\ text[w] \notin {"L", "z", "Z"} =>
          /\ Len(text) = w
          /\ c \in Ints => it.size = SizeOf("")

\* A well-formed conversion has these parts.
LEMMA ItemConverts ==
    ASSUME NEW it \in Item, WellFormed(it), it.conv \notin {"ws", "=", "*"}
    PROVE  Converting(it, it.text, Skip(it.text, 2, ToSet(Decimal)), it.text[Len(it.text)])
<1> DEFINE text == it.text
           w == Skip(text, 2, ToSet(Decimal))
           q == IF At(text, w) \in {"L", "z", "Z"} THEN text[w] ELSE ""
           c == At(text, Len(text))
<1>1. /\ it.conv = IF c \in Kinds \cup {"%"} THEN c ELSE "bad"
      /\ Len(text) = IF q = "" THEN w ELSE w + 1
      /\ c \notin {"*", "L", "z", "Z", NUL}
      /\ c \in Ints => it.size = SizeOf(q)
      /\ c \in {"i", "d"} => q \notin {"z", "Z"}
    BY DEF WellFormed
<1>2. text \in Seq(STRING) /\ Len(text) \in Nat \ {0}
    BY ItemStarts DEF Starts
<1> HIDE DEF text
<1>3. DOMAIN text = 1 .. Len(text) /\ Len(text) \in 1 .. Len(text) /\ 2 \in 1 .. Len(text) + 1
    <2>1. DOMAIN text = 1 .. Len(text)
        BY <1>2
    <2>2. Len(text) \in 1 .. Len(text) /\ 2 \in 1 .. Len(text) + 1
        BY <1>2
    <2> QED BY <2>1, <2>2
<1>4. /\ w \in 2 .. Len(text) + 1
      /\ \A k \in 2 .. w - 1 : text[k] \in ToSet(Decimal)
      /\ w \in DOMAIN text => text[w] \notin ToSet(Decimal)
    BY <1>2, <1>3, SkipIs
<1>5. c = text[Len(text)]
    BY <1>2, <1>3 DEF At
<1> HIDE DEF w
<1>6. At(text, w) \in {"L", "z", "Z"} => w \in DOMAIN text /\ At(text, w) = text[w]
    BY DEF At, NUL
<1>7. w \in 2 .. Len(text)
    <2>1. CASE q = ""
        <3>1. Len(text) = w
            BY <1>1, <2>1
        <3> QED BY <1>2, <1>4, <3>1
    <2>2. CASE q # ""
        <3>1. w \in DOMAIN text
            BY <1>6, <2>2
        <3> QED BY <1>2, <1>3, <1>4, <3>1
    <2> QED BY <2>1, <2>2
<1>8. At(text, w) = text[w] /\ text[w] \notin ToSet(Decimal)
    <2>1. w \in 1 .. Len(text)
        BY <1>2, <1>7
    <2> QED BY <1>3, <1>4, <2>1 DEF At
<1>9. /\ text[w] \in {"L", "z", "Z"} => q = text[w] /\ q # ""
      /\ text[w] \notin {"L", "z", "Z"} => q = ""
    BY <1>8
<1> HIDE DEF q, c
<1>10. text[2] # "*"
    <2>1. CASE w # 2
        <3>1. "*" \notin ToSet(Decimal)
            <4>1. ~IsIn("*", Decimal)
                BY DEF IsIn, Decimal
            <4> QED BY <4>1 DEF ToSet, IsIn
        <3>2. 2 \in 2 .. w - 1
            BY <1>2, <1>7, <2>1
        <3> QED BY <1>4, <3>1, <3>2
    <2>2. CASE w = 2 /\ text[w] \in {"L", "z", "Z"}
        BY <2>2
    <2>3. CASE w = 2 /\ text[w] \notin {"L", "z", "Z"}
        <3>1. Len(text) = w
            BY <1>1, <1>9, <2>3
        <3> QED BY <1>1, <1>5, <2>3, <3>1
    <2> QED BY <2>1, <2>2, <2>3
<1>11. text[w] \in {"L", "z", "Z"} =>
          /\ Len(text) = w + 1
          /\ c \in Ints => it.size = SizeOf(text[w])
          /\ c \in {"i", "d"} => text[w] \notin {"z", "Z"}
    BY <1>1, <1>9
<1>12. text[w] \notin {"L", "z", "Z"} =>
          /\ Len(text) = w
          /\ c \in Ints => it.size = SizeOf("")
    BY <1>1, <1>9
<1>13. c \notin {"*", "L", "z", "Z", NUL} /\ it.conv = IF c \in Kinds \cup {"%"} THEN c ELSE "bad"
    BY <1>1
<1>14. Converting(it, text, w, c)
    BY <1>5, <1>7, <1>8, <1>10, <1>11, <1>12, <1>13 DEF Converting
<1> QED BY <1>5, <1>14 DEF text, w

(* What a round finds in the format.                                       *)
\* The code keeps track of the format: nothing in it is an h or an l.
Plain == ~Uses("h") /\ ~Uses("l")

\* Where the n-th item ends.
End(n) == Passed(items, n)

\* What the items of such a format are.
LEMMA ItemsAre ==
    ASSUME IInv, FormatsWellFormed, Plain
    PROVE  /\ items \in Seq(Item) /\ Len(items) \in Nat
           /\ \A n \in 1 .. Len(items) :
                 /\ items[n] \in Item /\ WellFormed(items[n])
                 /\ ~IsIn("h", items[n].text) /\ ~IsIn("l", items[n].text)
           /\ \A n \in 1 .. Len(items) - 1 :
                 items[n].conv = "*" => items[n + 1].text[1] \in Spaces \cup {"%"}
<1>1. items \in Seq(Item)
    BY StringsAssumption DEF IInv, Item
<1>2. /\ DOMAIN items = 1 .. Len(items) /\ Len(items) \in Nat
      /\ \A n \in 1 .. Len(items) : items[n] \in Item
    BY <1>1
<1>3. ~UsedIn(items, "h") /\ ~UsedIn(items, "l") /\ items \in Formats
    BY DEF Plain, Uses, IInv
<1>4. \A n \in DOMAIN items :
         /\ WellFormed(items[n])
         /\ items[n].conv = "*" /\ n < Len(items) => items[n + 1].text[1] \in Spaces \cup {"%"}
    BY <1>3 DEF FormatsWellFormed
<1>5. \A n \in DOMAIN items : ~IsIn("h", items[n].text) /\ ~IsIn("l", items[n].text)
    BY <1>3 DEF UsedIn
<1>6. \A n \in 1 .. Len(items) - 1 : n \in DOMAIN items /\ n < Len(items)
    BY <1>2
<1> QED BY <1>1, <1>2, <1>4, <1>5, <1>6

\* The format is made of the items' texts.
LEMMA EndsAre ==
    ASSUME IInv, FormatsWellFormed, Plain
    PROVE  /\ End(0) = 0 /\ End(Len(items)) = Len(format) /\ Len(format) \in Nat
           /\ format \in Seq(STRING) /\ DOMAIN format = 1 .. Len(format)
           /\ \A n \in 0 .. Len(items) : End(n) \in 0 .. Len(format)
           /\ \A n \in 0 .. Len(items) - 1 :
                 /\ n + 1 \in 1 .. Len(items)
                 /\ Starts(items[n + 1].conv, items[n + 1].text)
                 /\ End(n + 1) = End(n) + Len(items[n + 1].text)
                 /\ End(n) + Len(items[n + 1].text) <= Len(format)
                 /\ \A j \in 1 .. Len(items[n + 1].text) :
                       format[End(n) + j] = items[n + 1].text[j]
<1>1. /\ items \in Seq(Item) /\ Len(items) \in Nat /\ format = TextOf(items)
      /\ \A n \in 1 .. Len(items) : items[n] \in Item /\ WellFormed(items[n])
    BY ItemsAre DEF IInv
<1>2. /\ format \in Seq(STRING)
      /\ End(0) = 0 /\ End(Len(items)) = Len(format)
      /\ \A n \in 0 .. Len(items) : End(n) \in 0 .. Len(format)
      /\ \A n \in 0 .. Len(items) - 1 :
            /\ End(n + 1) = End(n) + Len(items[n + 1].text)
            /\ \A j \in 1 .. Len(items[n + 1].text) :
                  format[End(n) + j] = items[n + 1].text[j]
    BY <1>1, LayoutIs DEF End
<1>3. Len(format) \in Nat /\ DOMAIN format = 1 .. Len(format)
    BY <1>2
<1>4. ASSUME NEW n \in 0 .. Len(items) - 1
      PROVE  /\ n + 1 \in 1 .. Len(items)
             /\ Starts(items[n + 1].conv, items[n + 1].text)
             /\ End(n + 1) <= Len(format)
    <2>1. n + 1 \in 1 .. Len(items) /\ n + 1 \in 0 .. Len(items)
        BY <1>1
    <2>2. Starts(items[n + 1].conv, items[n + 1].text)
        BY <1>1, <2>1, ItemStarts
    <2>3. End(n + 1) \in 0 .. Len(format)
        BY <1>2, <2>1
    <2>4. End(n + 1) <= Len(format)
        BY <1>3, <2>3
    <2> QED BY <2>1, <2>2, <2>4
<1>5. \A n \in 0 .. Len(items) - 1 : End(n) + Len(items[n + 1].text) <= Len(format)
    BY <1>2, <1>4
<1> QED BY <1>2, <1>3, <1>4, <1>5

\* The first character of an item.
LEMMA FirstIs ==
    ASSUME IInv, FormatsWellFormed, Plain, NEW n \in 0 .. Len(items) - 1
    PROVE  /\ End(n) + 1 \in 1 .. Len(format)
           /\ At(format, End(n) + 1) = items[n + 1].text[1]
           /\ format[End(n) + 1] = items[n + 1].text[1]
<1> DEFINE text == items[n + 1].text
<1>1. /\ Len(text) \in Nat \ {0}
      /\ End(n) + Len(text) <= Len(format)
      /\ \A j \in 1 .. Len(text) : format[End(n) + j] = text[j]
    BY EndsAre DEF Starts
<1>2. End(n) \in Nat /\ Len(format) \in Nat /\ DOMAIN format = 1 .. Len(format)
    <2>1. n \in 0 .. Len(items)
        BY ItemsAre
    <2> QED BY <2>1, EndsAre
<1> HIDE DEF text
<1>3. 1 \in 1 .. Len(text) /\ End(n) + 1 \in 1 .. Len(format)
    BY <1>1, <1>2
<1>4. format[End(n) + 1] = text[1]
    BY <1>1, <1>3
<1> QED BY <1>2, <1>3, <1>4 DEF At, text

--------------------------------------------------------------------------
(* What a round finds in the format.                                       *)

\* A round starts at the next item that is not white space, if there is one.
AtItem(n, m) ==
    /\ m \in n .. Len(items)
    /\ F = End(m) + 1
    /\ \A k \in n + 1 .. m : items[k].conv = "ws"
    /\ m < Len(items) => items[m + 1].conv # "ws"

\* Behind the items it has passed, every round starts at an item.
LEMMA RoundIs ==
    ASSUME IInv, FormatsWellFormed, Plain, More,
           NEW n \in 0 .. Len(items), End(n) = fmt - 1
    PROVE  \E m : AtItem(n, m)
<1> DEFINE N == Len(items)
           T == {k \in n .. N : k = N \/ items[k + 1].conv # "ws"}
<1>1. /\ N \in Nat /\ n \in Nat /\ Len(format) \in Nat /\ fmt \in 1 .. Len(format) /\ fmt \in Nat
      /\ format \in Seq(STRING) /\ DOMAIN format = 1 .. Len(format)
    BY ItemsAre, EndsAre DEF IInv, More
<1>2. PICK m \in T : \A k \in T : m <= k
    <2>1. T \in SUBSET Nat /\ N \in T
        BY <1>1
    <2> HIDE DEF T
    <2> QED BY <2>1, LeastNumber
<1>3. m \in n .. N /\ m \in Nat /\ (m < N => items[m + 1].conv # "ws")
    BY <1>1, <1>2
<1>4. \A k \in n .. m - 1 : items[k + 1].conv = "ws" /\ k \in 0 .. N - 1
    <2> SUFFICES ASSUME NEW k \in n .. m - 1
                 PROVE  items[k + 1].conv = "ws" /\ k \in 0 .. N - 1
        OBVIOUS
    <2>1. k \in n .. N /\ k < m /\ k # N /\ k \in 0 .. N - 1
        BY <1>1, <1>3
    <2>2. k \notin T
        BY <1>2, <2>1
    <2> QED BY <2>1, <2>2
<1> HIDE DEF T
<1>5. ASSUME NEW k \in n .. m - 1
      PROVE  End(k + 1) = End(k) + 1 /\ format[End(k) + 1] \in Spaces
    <2>1. k \in 0 .. N - 1 /\ items[k + 1].conv = "ws"
        BY <1>4
    <2>2. Len(items[k + 1].text) = 1 /\ items[k + 1].text[1] \in Spaces
        BY <2>1, EndsAre DEF Starts, IsSpace
    <2>3. End(k + 1) = End(k) + Len(items[k + 1].text)
        BY <2>1, EndsAre
    <2> QED BY <2>1, <2>2, <2>3, FirstIs
<1> DEFINE B(d) == End(n + d) = End(n) + d
           U == {d \in 0 .. m - n : B(d)}
<1>6. \A d \in 0 .. m - n : End(n + d) = End(n) + d
    <2>0. m - n \in Nat /\ End(n) \in Nat
        BY <1>1, <1>3
    <2>1. 0 \in U
        <3>1. 0 \in 0 .. m - n /\ n + 0 = n /\ End(n) + 0 = End(n)
            BY <1>1, <2>0
        <3> QED BY <3>1
    <2>2. ASSUME NEW d \in 0 .. (m - n) - 1, d \in U PROVE d + 1 \in U
        <3>1. n + d \in n .. m - 1 /\ d + 1 \in 0 .. m - n /\ n + (d + 1) = (n + d) + 1
            BY <1>1, <1>3
        <3>2. End((n + d) + 1) = End(n + d) + 1
            BY <1>5, <3>1
        <3>3. End(n + d) = End(n) + d
            BY <2>2
        <3>4. (End(n) + d) + 1 = End(n) + (d + 1)
            BY <2>0
        <3>5. B(d + 1)
            BY <3>1, <3>2, <3>3, <3>4
        <3> HIDE DEF B
        <3> QED BY <3>1, <3>5
    <2>3. \A d \in 0 .. m - n : d \in U
        <3> HIDE DEF U
        <3> QED BY <2>0, <2>1, <2>2, InductionTo
    <2> QED BY <2>3
<1>7. End(m) = fmt - 1 + (m - n) /\ End(m) + 1 <= Len(format) + 1
    <2>1. m - n \in 0 .. m - n /\ n + (m - n) = m /\ m \in 0 .. N
        BY <1>1, <1>3
    <2>2. End(m) = End(n) + (m - n)
        BY <1>6, <2>1
    <2>3. End(m) \in 0 .. Len(format)
        BY <2>1, EndsAre
    <2> QED BY <1>1, <2>2, <2>3
<1>8. \A k \in fmt .. End(m) : format[k] \in Spaces
    <2> SUFFICES ASSUME NEW k \in fmt .. End(m) PROVE format[k] \in Spaces
        OBVIOUS
    <2> DEFINE d == k - fmt
    <2>1. d \in 0 .. m - n /\ n + d \in n .. m - 1 /\ (fmt - 1) + d + 1 = k
        BY <1>1, <1>3, <1>7
    <2>2. End(n + d) + 1 = k
        BY <1>6, <2>1
    <2> HIDE DEF d
    <2> QED BY <1>5, <2>1, <2>2
<1>9. End(m) + 1 \in DOMAIN format => format[End(m) + 1] \notin Spaces
    <2>1. CASE m = N
        <3>1. End(m) = Len(format)
            BY <2>1, EndsAre
        <3> QED BY <1>1, <3>1
    <2>2. CASE m # N
        <3>1. m \in 0 .. N - 1 /\ items[m + 1].conv # "ws"
            BY <1>1, <1>3, <2>2
        <3>2. items[m + 1].text[1] \notin Spaces
            <4>1. \/ items[m + 1].text[1] \notin Spaces \cup {"%", NUL}
                  \/ items[m + 1].text[1] = "%"
                BY <3>1, EndsAre DEF Starts
            <4> QED BY <4>1, SpacesAre DEF IsSpace
        <3> QED BY <3>1, <3>2, FirstIs
    <2> QED BY <2>1, <2>2
<1>10. F = End(m) + 1
    <2>1. At(format, fmt) = format[fmt]
        BY <1>1 DEF At
    <2>2. CASE m = n
        <3>1. End(m) + 1 = fmt /\ fmt \in DOMAIN format
            BY <1>1, <2>2
        <3>2. ~AtSpace
            BY <1>9, <2>1, <3>1 DEF AtSpace, IsSpace
        <3> QED BY <3>1, <3>2 DEF F
    <2>3. CASE m # n
        <3>1. fmt \in fmt .. End(m) /\ End(m) \in Nat /\ End(m) >= fmt
            BY <1>1, <1>3, <1>7, <2>3
        <3>2. AtSpace
            BY <1>8, <2>1, <3>1 DEF AtSpace, IsSpace
        <3> DEFINE i == fmt + 1
                   j == End(m) + 1
        <3>3. /\ i \in 1 .. Len(format) + 1 /\ j \in i .. Len(format) + 1
              /\ \A k \in i .. j - 1 : k \in fmt .. End(m)
            BY <1>1, <1>7, <3>1
        <3>4. \A k \in i .. j - 1 : format[k] \in Spaces
            BY <1>8, <3>3
        <3>5. j \in DOMAIN format => format[j] \notin Spaces
            BY <1>9
        <3> HIDE DEF i, j
        <3>6. Skip(format, i, Spaces) = j
            BY <1>1, <3>3, <3>4, <3>5, SkipAt
        <3> QED BY <3>2, <3>6 DEF F, SkipSpaces, i, j
    <2> QED BY <2>2, <2>3
<1>11. \A k \in n + 1 .. m : items[k].conv = "ws"
    <2> SUFFICES ASSUME NEW k \in n + 1 .. m PROVE items[k].conv = "ws"
        OBVIOUS
    <2>1. k - 1 \in n .. m - 1 /\ (k - 1) + 1 = k
        BY <1>1, <1>3
    <2> QED BY <1>4, <2>1
<1> QED BY <1>3, <1>10, <1>11 DEF AtItem

\* The item a round is at.
LEMMA HeadItem ==
    ASSUME IInv, FormatsWellFormed, Plain, NEW n \in 0 .. Len(items), NEW m, AtItem(n, m),
           At(format, F) # NUL
    PROVE  /\ m \in 0 .. Len(items) - 1 /\ m \in 0 .. Len(items) /\ m + 1 \in 0 .. Len(items)
           /\ items[m + 1].conv # "ws"
           /\ Starts(items[m + 1].conv, items[m + 1].text)
           /\ At(format, F) = items[m + 1].text[1]
           /\ End(m) \in Nat /\ F = End(m) + 1
           /\ End(m + 1) = End(m) + Len(items[m + 1].text)
           /\ End(m + 1) <= Len(format)
<1>1. /\ Len(items) \in Nat /\ m \in n .. Len(items) /\ F = End(m) + 1
      /\ m < Len(items) => items[m + 1].conv # "ws"
    BY ItemsAre DEF AtItem
<1>2. m # Len(items)
    <2> SUFFICES ASSUME m = Len(items) PROVE FALSE
        OBVIOUS
    <2>1. F = Len(format) + 1 /\ Len(format) \in Nat /\ DOMAIN format = 1 .. Len(format)
        BY <1>1, EndsAre
    <2> QED BY <2>1 DEF At
<1>3. m \in 0 .. Len(items) - 1 /\ m \in 0 .. Len(items) /\ m + 1 \in 0 .. Len(items)
    BY <1>1, <1>2
<1>4. items[m + 1].conv # "ws"
    BY <1>1, <1>3
<1>5. /\ Starts(items[m + 1].conv, items[m + 1].text)
      /\ End(m + 1) = End(m) + Len(items[m + 1].text)
      /\ End(m) + Len(items[m + 1].text) <= Len(format)
    BY <1>3, EndsAre
<1>6. End(m) \in Nat
    <2>1. End(m) \in 0 .. Len(format) /\ Len(format) \in Nat
        BY <1>3, EndsAre
    <2> QED BY <2>1
<1>7. At(format, F) = items[m + 1].text[1]
    BY <1>1, <1>3, FirstIs
<1>8. End(m + 1) <= Len(format)
    BY <1>5
<1> QED BY <1>1, <1>3, <1>4, <1>5, <1>6, <1>7, <1>8

\* A character that must match.
LEMMA LiteralFinds ==
    ASSUME IInv, FormatsWellFormed, Plain, NEW n \in 0 .. Len(items), NEW m, AtItem(n, m),
           At(format, F) \notin {"%", NUL}
    PROVE  /\ m \in 0 .. Len(items) - 1
           /\ items[m + 1].conv = "="
           /\ At(format, F) = Last(items[m + 1].text)
           /\ ~IsSpace(At(format, F))
           /\ End(m + 1) = F
<1> DEFINE it == items[m + 1]
<1>1. /\ m \in 0 .. Len(items) - 1
      /\ it.conv # "ws" /\ Starts(it.conv, it.text)
      /\ At(format, F) = it.text[1] /\ F = End(m) + 1
      /\ End(m + 1) = End(m) + Len(it.text)
    BY HeadItem
<1>2. it.conv = "="
    BY <1>1 DEF Starts
<1>3. Len(it.text) = 1 /\ it.text[1] \notin Spaces
    BY <1>1, <1>2 DEF Starts
<1> QED BY <1>1, <1>2, <1>3 DEF Last, IsSpace

\* The second character of a directive.
LEMMA SecondIs ==
    ASSUME IInv, FormatsWellFormed, Plain, NEW m \in 0 .. Len(items) - 1,
           Len(items[m + 1].text) >= 2
    PROVE  At(format, End(m) + 2) = items[m + 1].text[2]
<1> DEFINE text == items[m + 1].text
<1>1. /\ Len(text) \in Nat \ {0}
      /\ End(m) + Len(text) <= Len(format)
      /\ \A j \in 1 .. Len(text) : format[End(m) + j] = text[j]
    BY EndsAre DEF Starts
<1>2. End(m) \in Nat /\ Len(format) \in Nat /\ DOMAIN format = 1 .. Len(format)
    <2>1. m \in 0 .. Len(items)
        BY ItemsAre
    <2> QED BY <2>1, EndsAre
<1>3. Len(text) >= 2
    OBVIOUS
<1> HIDE DEF text
<1>4. 2 \in 1 .. Len(text) /\ End(m) + 2 \in 1 .. Len(format)
    BY <1>1, <1>2, <1>3
<1> QED BY <1>1, <1>2, <1>4 DEF At, text

\* The parts of a conversion in the format.
LEMMA ConversionParts ==
    ASSUME IInv, FormatsWellFormed, Plain, NEW m \in 0 .. Len(items) - 1, F = End(m) + 1,
           items[m + 1].conv \notin {"ws", "=", "*"}
    PROVE  LET it == items[m + 1]
               w == Skip(it.text, 2, ToSet(Decimal))
           IN  /\ Converting(it, it.text, w, Last(it.text))
               /\ Len(it.text) \in Nat /\ End(m) \in Nat
               /\ WidthEnd = End(m) + w
               /\ \A k \in 1 .. Len(it.text) : At(format, End(m) + k) = it.text[k]
               /\ \A k \in 1 .. Len(it.text) : it.text[k] \notin {"h", "l"}
<1> DEFINE it == items[m + 1]
           text == it.text
           w == Skip(text, 2, ToSet(Decimal))
           o == End(m)
<1>1. /\ it \in Item /\ WellFormed(it) /\ ~IsIn("h", text) /\ ~IsIn("l", text)
    <2>1. m + 1 \in 1 .. Len(items)
        BY EndsAre
    <2> QED BY <2>1, ItemsAre
<1>2. Converting(it, text, w, Last(text))
    <2>1. it.conv \notin {"ws", "=", "*"}
        OBVIOUS
    <2> HIDE DEF it
    <2> QED BY <1>1, <2>1, ItemConverts DEF Last
<1>3. /\ text \in Seq(STRING) /\ Len(text) \in Nat \ {0}
      /\ o + Len(text) <= Len(format)
      /\ \A j \in 1 .. Len(text) : format[o + j] = text[j]
    BY EndsAre DEF Starts
<1>4. /\ o \in Nat /\ Len(format) \in Nat /\ DOMAIN format = 1 .. Len(format)
      /\ format \in Seq(STRING)
    <2>1. m \in 0 .. Len(items)
        BY ItemsAre
    <2> QED BY <2>1, EndsAre
<1>5. w \in 2 .. Len(text)
    BY <1>2 DEF Converting
<1>6. WidthEnd = Skip(format, o + 2, ToSet(Decimal))
    <2>1. F + 1 = o + 2
        BY <1>4
    <2> QED BY <2>1 DEF WidthEnd
<1> HIDE DEF text, o
<1>7. Skip(format, o + 2, ToSet(Decimal)) = o + w
    <2>1. 2 \in 1 .. Len(text) /\ w <= Len(text)
        BY <1>3, <1>5
    <2> QED BY <1>3, <1>4, <2>1, SkipWithin
<1>8. \A k \in 1 .. Len(text) : At(format, o + k) = text[k]
    <2> SUFFICES ASSUME NEW k \in 1 .. Len(text) PROVE At(format, o + k) = text[k]
        OBVIOUS
    <2>1. o + k \in 1 .. Len(format)
        BY <1>3, <1>4
    <2> QED BY <1>3, <1>4, <2>1 DEF At
<1>9. \A k \in 1 .. Len(text) : text[k] \notin {"h", "l"}
    <2>1. DOMAIN text = 1 .. Len(text)
        BY <1>3
    <2> QED BY <1>1, <2>1 DEF IsIn
<1> QED BY <1>2, <1>3, <1>4, <1>6, <1>7, <1>8, <1>9 DEF text, o

\* The conversion of a directive, its qualifier and where it stands.
LEMMA ConversionFinds ==
    ASSUME IInv, FormatsWellFormed, Plain, NEW n \in 0 .. Len(items), NEW m, AtItem(n, m),
           Conversion
    PROVE  LET it == items[m + 1]
               c == At(format, Conv)
           IN  /\ m \in 0 .. Len(items) - 1
               /\ Conv = End(m + 1)
               /\ ~Doubled
               /\ c = Last(it.text) /\ c # NUL
               /\ it.conv = IF c \in Kinds \cup {"%"} THEN c ELSE "bad"
               /\ c \in Ints => SizeOf(Qualifier) = it.size
               /\ c \in {"i", "d"} => Qualifier \notin {"z", "Z"}
               /\ Qualifier # "H"
<1> DEFINE it == items[m + 1]
           text == it.text
           w == Skip(text, 2, ToSet(Decimal))
           o == End(m)
           last == Last(text)
<1>1. /\ m \in 0 .. Len(items) - 1 /\ m + 1 \in 1 .. Len(items)
      /\ it.conv # "ws" /\ Starts(it.conv, text)
      /\ At(format, F) = text[1] /\ F = o + 1 /\ o \in Nat
      /\ End(m + 1) = o + Len(text)
    <2>1. At(format, F) # NUL
        BY DEF Conversion, Directive, NUL
    <2> QED BY <2>1, HeadItem, ItemsAre
<1>2. At(format, F) = "%" /\ At(format, F + 1) # "*"
    BY DEF Conversion, Directive
<1>3. it.conv \notin {"ws", "=", "*"}
    <2>1. it.conv # "="
        BY <1>1, <1>2 DEF Starts
    <2>2. it.conv # "*"
        <3> SUFFICES ASSUME it.conv = "*" PROVE FALSE
            OBVIOUS
        <3>1. Len(text) >= 2 /\ text[2] = "*"
            BY <1>1 DEF Starts
        <3>2. At(format, o + 2) = text[2]
            BY <1>1, <3>1, SecondIs
        <3>3. o + 2 = F + 1
            BY <1>1
        <3> QED BY <1>2, <3>1, <3>2, <3>3
    <2> QED BY <1>1, <2>1, <2>2
<1>4. /\ Converting(it, text, w, last)
      /\ Len(text) \in Nat /\ WidthEnd = o + w
      /\ \A k \in 1 .. Len(text) : At(format, o + k) = text[k]
      /\ \A k \in 1 .. Len(text) : text[k] \notin {"h", "l"}
    BY <1>1, <1>3, ConversionParts
<1> HIDE DEF it, text, w, o, last
<1>5. /\ w \in 2 .. Len(text) /\ last = text[Len(text)]
      /\ last \notin {"*", "L", "z", "Z", NUL}
      /\ it.conv = IF last \in Kinds \cup {"%"} THEN last ELSE "bad"
      /\ text[w] \in {"L", "z", "Z"} =>
            /\ Len(text) = w + 1
            /\ last \in Ints => it.size = SizeOf(text[w])
            /\ last \in {"i", "d"} => text[w] \notin {"z", "Z"}
      /\ text[w] \notin {"L", "z", "Z"} =>
            /\ Len(text) = w
            /\ last \in Ints => it.size = SizeOf("")
    BY <1>4 DEF Converting
<1>6. /\ At(format, WidthEnd) = text[w] /\ text[w] \notin {"h", "l"}
      /\ At(format, o + Len(text)) = last
    <2>0. Len(text) \in Nat /\ w \in 2 .. Len(text)
        BY <1>4, <1>5
    <2>1. w \in 1 .. Len(text) /\ Len(text) \in 1 .. Len(text)
        BY <2>0
    <2> QED BY <1>4, <1>5, <2>1
<1>7. CASE text[w] \in {"L", "z", "Z"}
    <2>1. Qualified /\ Qualifier = text[w] /\ Conv = WidthEnd + 1
        BY <1>6, <1>7 DEF Qualified, Qualifier, Conv
    <2>2. WidthEnd + 1 = o + Len(text)
        <3>1. /\ o \in Nat /\ Len(text) \in Nat /\ w \in 2 .. Len(text)
              /\ WidthEnd = o + w /\ Len(text) = w + 1
            BY <1>1, <1>4, <1>5, <1>7
        <3> QED BY <3>1
    <2>3. ~Doubled
        BY <1>5, <1>6, <1>7, <2>2 DEF Doubled
    <2>4. /\ last \in Ints => SizeOf(Qualifier) = it.size
          /\ last \in {"i", "d"} => Qualifier \notin {"z", "Z"}
          /\ Qualifier # "H"
        BY <1>5, <1>7, <2>1
    <2>5. Conv = End(m + 1) /\ At(format, Conv) = last
        BY <1>1, <1>6, <2>1, <2>2
    <2> QED BY <1>1, <1>5, <2>3, <2>4, <2>5 DEF it, text, last
<1>8. CASE text[w] \notin {"L", "z", "Z"}
    <2>1. ~Qualified /\ Qualifier = "" /\ Conv = WidthEnd + 0 /\ ~Doubled
        BY <1>6, <1>8 DEF Qualified, Qualifier, Conv, Doubled
    <2>2. WidthEnd + 0 = o + Len(text)
        <3>1. /\ o \in Nat /\ Len(text) \in Nat /\ WidthEnd = o + w /\ Len(text) = w
            BY <1>1, <1>4, <1>5, <1>8
        <3> QED BY <3>1
    <2>3. /\ last \in Ints => SizeOf(Qualifier) = it.size
          /\ last \in {"i", "d"} => Qualifier \notin {"z", "Z"}
          /\ Qualifier # "H"
        BY <1>5, <1>8, <2>1
    <2>4. Conv = End(m + 1) /\ At(format, Conv) = last
        BY <1>1, <1>6, <2>1, <2>2
    <2> QED BY <1>1, <1>5, <2>1, <2>3, <2>4 DEF it, text, last
<1> QED BY <1>7, <1>8

\* A suppressed conversion is passed as a whole.
LEMMA SuppressFinds ==
    ASSUME IInv, FormatsWellFormed, Plain, NEW n \in 0 .. Len(items), NEW m, AtItem(n, m),
           Directive, At(format, F + 1) = "*"
    PROVE  /\ m \in 0 .. Len(items) - 1
           /\ items[m + 1].conv = "*"
           /\ Seek(format, F + 1, Spaces \cup {"%"}) = End(m + 1) + 1
<1> DEFINE it == items[m + 1]
           text == it.text
           o == End(m)
           chars == Spaces \cup {"%"}
<1>1. /\ m \in 0 .. Len(items) - 1 /\ m + 1 \in 1 .. Len(items) /\ m + 1 \in 0 .. Len(items)
      /\ it.conv # "ws" /\ Starts(it.conv, text)
      /\ At(format, F) = text[1] /\ F = o + 1 /\ o \in Nat
      /\ End(m + 1) = o + Len(text) /\ End(m + 1) <= Len(format)
    <2>1. At(format, F) # NUL
        BY DEF Directive, NUL
    <2> QED BY <2>1, HeadItem, ItemsAre
<1>2. At(format, F) = "%"
    BY DEF Directive
<1>3. it.conv = "*"
    <2> SUFFICES ASSUME it.conv # "*" PROVE FALSE
        OBVIOUS
    <2>1. it.conv \notin {"ws", "=", "*"}
        BY <1>1, <1>2 DEF Starts
    <2>2. /\ Converting(it, text, Skip(text, 2, ToSet(Decimal)), Last(text))
          /\ Len(text) \in Nat
          /\ \A k \in 1 .. Len(text) : At(format, o + k) = text[k]
        BY <1>1, <2>1, ConversionParts
    <2> HIDE DEF text, o, it
    <2>3. text[2] # "*" /\ Skip(text, 2, ToSet(Decimal)) \in 2 .. Len(text)
        BY <2>2 DEF Converting
    <2>4. 2 \in 1 .. Len(text) /\ o + 2 = F + 1
        BY <1>1, <2>2, <2>3
    <2> QED BY <2>2, <2>3, <2>4
<1>4. /\ Len(text) \in Nat /\ Len(text) >= 2
      /\ \A i \in 2 .. Len(text) : text[i] \notin chars
    BY <1>1, <1>3 DEF Starts
<1>5. /\ \A j \in 1 .. Len(text) : format[o + j] = text[j]
      /\ format \in Seq(STRING) /\ Len(format) \in Nat /\ DOMAIN format = 1 .. Len(format)
    BY <1>1, EndsAre
<1>6. End(m + 1) + 1 \in DOMAIN format => format[End(m + 1) + 1] \in chars
    <2>1. CASE m + 1 = Len(items)
        <3>1. End(m + 1) = Len(format)
            BY <2>1, EndsAre
        <3> QED BY <1>5, <3>1
    <2>2. CASE m + 1 # Len(items)
        <3>1. m + 1 \in 1 .. Len(items) - 1 /\ m + 1 \in 0 .. Len(items) - 1
            BY <1>1, <2>2, ItemsAre
        <3>2. items[(m + 1) + 1].text[1] \in chars
            BY <1>3, <3>1, ItemsAre
        <3>3. format[End(m + 1) + 1] = items[(m + 1) + 1].text[1]
            BY <3>1, FirstIs
        <3> QED BY <3>2, <3>3
    <2> QED BY <2>1, <2>2
<1> DEFINE i == F + 1
           j == End(m + 1) + 1
<1> HIDE DEF chars, it, text, o
<1>7. i \in 1 .. Len(format) + 1 /\ j \in i .. Len(format) + 1
    BY <1>1, <1>4, <1>5
<1>8. \A k \in i .. j - 1 : format[k] \notin chars
    <2> SUFFICES ASSUME NEW k \in i .. j - 1 PROVE format[k] \notin chars
        OBVIOUS
    <2>1. k - o \in 2 .. Len(text) /\ k - o \in 1 .. Len(text) /\ o + (k - o) = k
        BY <1>1, <1>4, <1>5
    <2>2. format[o + (k - o)] = text[k - o]
        BY <1>5, <2>1
    <2> QED BY <1>4, <2>1, <2>2
<1>9. j \in DOMAIN format => format[j] \in chars
    BY <1>6
<1> HIDE DEF i, j
<1>10. Seek(format, i, chars) = j
    BY <1>5, <1>7, <1>8, <1>9, SeekAt
<1> QED BY <1>1, <1>3, <1>10 DEF i, j, chars, it

--------------------------------------------------------------------------
(* What the passed part of a format asks for.                              *)

(* What the passed part of a format asks for.                              *)
\* The places of some kinds of items among the first n.
Places(n, kinds) == {i \in 1 .. n : items[i].conv \in kinds}

\* These places are finitely many, and within the format.
LEMMA PlacesAre ==
    ASSUME NEW n \in Nat, NEW kinds
    PROVE  /\ Places(n, kinds) \in SUBSET Nat /\ IsFiniteSet(Places(n, kinds))
           /\ Cardinality(Places(n, kinds)) \in Nat
           /\ \A i \in Places(n, kinds) : i <= n
<1>1. Places(n, kinds) \subseteq 1 .. n
    BY DEF Places
<1>2. IsFiniteSet(1 .. n)
    BY FS_Interval
<1>3. IsFiniteSet(Places(n, kinds))
    BY <1>1, <1>2, FS_Subset
<1> QED BY <1>1, <1>3, FS_CardinalityType

\* The next item that is not white space is the only one that can be new.
LEMMA PlacesNext ==
    ASSUME NEW n \in 0 .. Len(items), NEW m, AtItem(n, m), m < Len(items),
           Len(items) \in Nat, NEW kinds, "ws" \notin kinds
    PROVE  /\ items[m + 1].conv \in kinds =>
                 Places(m + 1, kinds) = Places(n, kinds) \cup {m + 1}
           /\ items[m + 1].conv \notin kinds => Places(m + 1, kinds) = Places(n, kinds)
           /\ \A i \in Places(n, kinds) : i < m + 1
<1>1. m \in n .. Len(items) /\ n \in Nat /\ m \in Nat /\ m >= n
    BY DEF AtItem
<1>2. \A k \in n + 1 .. m : items[k].conv \notin kinds
    BY DEF AtItem
<1>3. ASSUME NEW i
      PROVE  i \in Places(m + 1, kinds) <=>
                i \in Places(n, kinds) \/ (i = m + 1 /\ items[m + 1].conv \in kinds)
    <2>1. i \in 1 .. m + 1 <=> i \in 1 .. n \/ i \in n + 1 .. m \/ i = m + 1
        BY <1>1
    <2>2. i \in 1 .. n => i # m + 1 /\ i \notin n + 1 .. m
        BY <1>1
    <2>3. m + 1 \notin n + 1 .. m
        BY <1>1
    <2> QED BY <1>2, <2>1, <2>2, <2>3 DEF Places
<1>4. \A i \in Places(n, kinds) : i < m + 1
    BY <1>1 DEF Places
<1>5. ASSUME items[m + 1].conv \in kinds
      PROVE  Places(m + 1, kinds) = Places(n, kinds) \cup {m + 1}
    BY <1>3, <1>5
<1>6. ASSUME items[m + 1].conv \notin kinds
      PROVE  Places(m + 1, kinds) = Places(n, kinds)
    BY <1>3, <1>6
<1> QED BY <1>4, <1>5, <1>6

\* What the properties count, in these words.
LEMMA StoringIs == \A n : Storing(n) = Picked(items, Places(n, Kinds))
BY DEF Storing, Places

LEMMA MatchingIs == \A n : Matching(n) = Picked(items, Places(n, {"=", "%"}))
BY DEF Matching, Places

\* What was stored has the conversions of the items that store something.
LEMMA StoredAs ==
    ASSUME NEW s \in Seq(Stored), NEW n \in Nat, Conversions(s) = Conversions(Storing(n))
    PROVE  /\ Len(s) = Cardinality(Places(n, Kinds))
           /\ \A i \in 1 .. Len(s) : s[i].conv = Storing(n)[i].conv
<1> DEFINE T == Places(n, Kinds)
           c == Cardinality(T)
<1>1. DOMAIN Storing(n) = 1 .. c /\ c \in Nat
    BY StoringIs, PlacesAre DEF Picked
<1>2. DOMAIN Conversions(s) = DOMAIN s /\ DOMAIN Conversions(Storing(n)) = DOMAIN Storing(n)
    BY DEF Conversions
<1>3. DOMAIN s = 1 .. Len(s) /\ Len(s) \in Nat
    OBVIOUS
<1> HIDE DEF c
<1>4. 1 .. Len(s) = 1 .. c
    BY <1>1, <1>2, <1>3
<1>5. Len(s) = c
    <2> DEFINE l == Len(s)
    <2>1. l \in Nat /\ c \in Nat /\ 1 .. l = 1 .. c
        BY <1>1, <1>3, <1>4
    <2> HIDE DEF l
    <2>2. l = c
        BY <2>1, SameLength
    <2> QED BY <2>2 DEF l
<1>6. ASSUME NEW i \in 1 .. Len(s) PROVE s[i].conv = Storing(n)[i].conv
    <2>1. Conversions(s)[i] = s[i].conv /\ Conversions(Storing(n))[i] = Storing(n)[i].conv
        BY <1>1, <1>3, <1>4 DEF Conversions
    <2> QED BY <2>1
<1> QED BY <1>5, <1>6 DEF c

\* One more of both.
LEMMA ConversionsNext ==
    ASSUME NEW s \in Seq(Stored), NEW x \in Stored, Len(items) \in Nat,
           NEW n \in 0 .. Len(items), NEW m, AtItem(n, m), m < Len(items),
           Conversions(s) = Conversions(Storing(n)), x.conv = items[m + 1].conv
    PROVE  Conversions(Append(s, x)) = Conversions(Storing(m + 1))
<1> DEFINE T == Places(n, Kinds)
           c == Cardinality(T)
           t == Append(s, x)
           old == Picked(items, T)
           new == Picked(items, T \cup {m + 1})
<1>1. n \in Nat /\ m \in Nat /\ m + 1 \in Nat
    BY DEF AtItem
<1>2. x.conv \in Kinds
    BY DEF Stored
<1>3. "ws" \notin Kinds
    BY DEF Kinds, Ints
<1>4. Places(m + 1, Kinds) = T \cup {m + 1} /\ \A i \in T : i < m + 1
    BY <1>2, <1>3, PlacesNext
<1>5. T \in SUBSET Nat /\ IsFiniteSet(T)
    BY <1>1, PlacesAre
<1>6. Len(s) = c /\ \A i \in 1 .. Len(s) : s[i].conv = old[i].conv
    BY <1>1, StoredAs, StoringIs
<1> HIDE DEF T
<1>7. /\ c \in Nat /\ DOMAIN new = 1 .. c + 1
      /\ \A i \in 1 .. c : new[i] = old[i]
      /\ new[c + 1] = items[m + 1]
    <2> DEFINE j == m + 1
    <2>1. j \in Nat /\ \A i \in T : i < j
        BY <1>1, <1>4
    <2> HIDE DEF j
    <2>2. /\ Cardinality(T) \in Nat
          /\ DOMAIN Picked(items, T \cup {j}) = 1 .. Cardinality(T) + 1
          /\ Picked(items, T \cup {j})[Cardinality(T) + 1] = items[j]
        BY <1>5, <2>1, PickedLast
    <2>3. \A i \in 1 .. Cardinality(T) : Picked(items, T \cup {j})[i] = Picked(items, T)[i]
        BY <1>5, <2>1, PickedSame
    <2> QED BY <2>2, <2>3 DEF j
<1> HIDE DEF c, old, new
<1>8. /\ DOMAIN t = 1 .. c + 1 /\ t[c + 1] = x /\ \A i \in 1 .. c : t[i] = s[i]
    BY <1>6, <1>7
<1> HIDE DEF t
<1>9. ASSUME NEW i \in 1 .. c + 1 PROVE t[i].conv = new[i].conv
    <2>1. CASE i = c + 1
        BY <1>7, <1>8, <2>1
    <2>2. CASE i # c + 1
        <3>1. i \in 1 .. c
            BY <1>7, <2>2
        <3> QED BY <1>6, <1>7, <1>8, <3>1
    <2> QED BY <2>1, <2>2
<1>10. Conversions(t) = Conversions(new)
    BY <1>7, <1>8, <1>9 DEF Conversions
<1>11. Storing(m + 1) = new
    BY <1>4, StoringIs DEF new
<1> QED BY <1>10, <1>11 DEF t

\* The next value to store is for the item the format is at.
LEMMA ArgumentOf ==
    ASSUME NEW s \in Seq(Stored), Len(items) \in Nat,
           NEW n \in 0 .. Len(items), NEW m, AtItem(n, m), m < Len(items),
           Conversions(s) = Conversions(Storing(n)), items[m + 1].conv \in Kinds
    PROVE  Storing(Len(items))[Len(s) + 1] = items[m + 1]
<1> DEFINE N == Len(items)
           T == Places(n, Kinds)
           U == Places(N, Kinds)
<1>1. n \in Nat /\ m \in Nat /\ m + 1 \in Nat /\ m + 1 \in 1 .. N /\ N \in Nat
    BY DEF AtItem
<1>2. "ws" \notin Kinds
    BY DEF Kinds, Ints
<1>3. Places(m + 1, Kinds) = T \cup {m + 1} /\ \A i \in T : i < m + 1
    BY <1>2, PlacesNext
<1>4. Len(s) = Cardinality(T)
    BY <1>1, StoredAs
<1>5. IsFiniteSet(T) /\ T \in SUBSET Nat /\ IsFiniteSet(U) /\ U \in SUBSET Nat
    BY <1>1, PlacesAre
<1>6. {i \in U : i <= m + 1} = Places(m + 1, Kinds)
    <2>1. ASSUME NEW i PROVE i \in 1 .. N /\ i <= m + 1 <=> i \in 1 .. m + 1
        BY <1>1
    <2> QED BY <2>1 DEF Places
<1>7. m + 1 \in U
    BY <1>1 DEF Places
<1>8. Cardinality(T \cup {m + 1}) = Cardinality(T) + 1
    <2>1. m + 1 \notin T
        BY <1>1, <1>3
    <2> HIDE DEF T
    <2> QED BY <1>5, <2>1, FS_AddElement
<1>9. Rank(U, m + 1) = Len(s) + 1
    BY <1>3, <1>4, <1>6, <1>8 DEF Rank
<1> HIDE DEF U
<1>10. Picked(items, U)[Rank(U, m + 1)] = items[m + 1]
    BY <1>5, <1>7, PickedAt
<1> QED BY <1>9, <1>10, StoringIs DEF U

\* Items that store nothing ask for nothing.
LEMMA StoringSame ==
    ASSUME Len(items) \in Nat, NEW n \in 0 .. Len(items), NEW m, AtItem(n, m), m < Len(items),
           items[m + 1].conv \notin Kinds
    PROVE  Storing(m + 1) = Storing(n)
<1>1. "ws" \notin Kinds
    BY DEF Kinds, Ints
<1>2. Places(m + 1, Kinds) = Places(n, Kinds)
    BY <1>1, PlacesNext
<1> QED BY <1>2, StoringIs

\* What num counts.
Counted(s) == {k \in DOMAIN s : s[k].conv # "n"}

\* num counts one more, except for %n.
LEMMA CountedNext ==
    ASSUME NEW s \in Seq(Stored), NEW x \in Stored
    PROVE  Cardinality(Counted(Append(s, x))) =
              IF x.conv = "n" THEN Cardinality(Counted(s)) ELSE Cardinality(Counted(s)) + 1
<1> DEFINE t == Append(s, x)
           n == Len(s)
<1>1. /\ n \in Nat /\ DOMAIN s = 1 .. n /\ DOMAIN t = 1 .. n + 1
      /\ t[n + 1] = x /\ \A i \in 1 .. n : t[i] = s[i]
    OBVIOUS
<1> HIDE DEF t, n
<1>2. ASSUME NEW k
      PROVE  k \in Counted(t) <=> k \in Counted(s) \/ (k = n + 1 /\ x.conv # "n")
    <2>1. k \in 1 .. n + 1 <=> k \in 1 .. n \/ k = n + 1
        BY <1>1
    <2>2. n + 1 \notin 1 .. n
        BY <1>1
    <2> QED BY <1>1, <2>1, <2>2 DEF Counted
<1>3. IsFiniteSet(Counted(s)) /\ n + 1 \notin Counted(s)
    <2>1. Counted(s) \subseteq 1 .. n /\ n + 1 \notin 1 .. n
        BY <1>1 DEF Counted
    <2>2. IsFiniteSet(1 .. n)
        BY <1>1, FS_Interval
    <2> QED BY <2>1, <2>2, FS_Subset
<1>4. CASE x.conv = "n"
    <2>1. Counted(t) = Counted(s)
        BY <1>2, <1>4
    <2> QED BY <1>4, <2>1 DEF t
<1>5. CASE x.conv # "n"
    <2>1. Counted(t) = Counted(s) \cup {n + 1}
        BY <1>2, <1>5
    <2>2. Cardinality(Counted(s) \cup {n + 1}) = Cardinality(Counted(s)) + 1
        BY <1>3, FS_AddElement
    <2> QED BY <1>5, <2>1, <2>2 DEF t
<1> QED BY <1>4, <1>5

--------------------------------------------------------------------------
(* The characters no conversion took.                                      *)

(* The characters no conversion took.                                      *)
\* The places of these characters.
OthersOf(b, s, p) ==
    {i \in 1 .. p - 1 : /\ ~IsSpace(b[i])
                        /\ \A k \in DOMAIN s : i \notin s[k].from .. s[k].to - 1}

\* What the property calls Others, and where these places are.
LEMMA OthersIs == Others = Picked(buf, OthersOf(buf, stored, str))
BY DEF Others, OthersOf

LEMMA OthersPlaces ==
    ASSUME NEW b, NEW s, NEW p \in Nat \ {0}
    PROVE  /\ OthersOf(b, s, p) \in SUBSET Nat /\ IsFiniteSet(OthersOf(b, s, p))
           /\ \A i \in OthersOf(b, s, p) : i < p
<1>1. OthersOf(b, s, p) \subseteq 1 .. p - 1
    BY DEF OthersOf
<1>2. IsFiniteSet(1 .. p - 1)
    BY FS_Interval
<1> QED BY <1>1, <1>2, FS_Subset

\* A conversion takes what it reads, and what it skips is white space.
LEMMA OthersTaken ==
    ASSUME NEW b, NEW s \in Seq(Stored), NEW x \in Stored, NEW p \in Nat \ {0}, p <= x.from,
           \A i \in p .. x.from - 1 : IsSpace(b[i])
    PROVE  OthersOf(b, Append(s, x), x.to) = OthersOf(b, s, p)
<1> DEFINE t == Append(s, x)
           n == Len(s)
           f == x.from
           e == x.to
<1>1. f \in Nat /\ e \in Nat /\ f <= e
    BY DEF Stored
<1>2. /\ n \in Nat /\ DOMAIN s = 1 .. n /\ DOMAIN t = 1 .. n + 1
      /\ t[n + 1] = x /\ \A k \in 1 .. n : t[k] = s[k]
    OBVIOUS
<1>3. p <= f /\ \A i \in p .. f - 1 : IsSpace(b[i])
    OBVIOUS
<1> HIDE DEF t, n
<1>4. ASSUME NEW i \in Int
      PROVE  (\A k \in DOMAIN t : i \notin t[k].from .. t[k].to - 1) <=>
                /\ \A k \in DOMAIN s : i \notin s[k].from .. s[k].to - 1
                /\ i \notin f .. e - 1
    <2>1. \A k : k \in 1 .. n + 1 <=> k \in 1 .. n \/ k = n + 1
        BY <1>2
    <2> QED BY <1>2, <2>1
<1> HIDE DEF f, e
<1>5. ASSUME NEW i
      PROVE  i \in OthersOf(b, t, e) <=> i \in OthersOf(b, s, p)
    <2>1. CASE i \in 1 .. p - 1
        <3>1. i \in Int /\ i \in 1 .. e - 1 /\ i \notin f .. e - 1
            BY <1>1, <1>3, <2>1
        <3> QED BY <1>4, <2>1, <3>1 DEF OthersOf
    <2>2. CASE i \in p .. f - 1
        <3>1. i \notin 1 .. p - 1 /\ IsSpace(b[i])
            BY <1>1, <1>3, <2>2
        <3> QED BY <3>1 DEF OthersOf
    <2>3. CASE i \in f .. e - 1
        <3>1. i \in Int /\ i \notin 1 .. p - 1
            BY <1>1, <1>3, <2>3
        <3> QED BY <1>4, <2>3, <3>1 DEF OthersOf
    <2>4. CASE i \notin 1 .. p - 1 /\ i \notin p .. f - 1 /\ i \notin f .. e - 1
        <3>1. i \notin 1 .. e - 1
            BY <1>1, <1>3, <2>4
        <3> QED BY <2>4, <3>1 DEF OthersOf
    <2> QED BY <2>1, <2>2, <2>3, <2>4
<1>6. OthersOf(b, t, e) = OthersOf(b, s, p)
    BY <1>5
<1> QED BY <1>6 DEF t, e

\* White space between two places, and stored values that end before one.
Blanks(b, p, q) == \A i \in p .. q - 1 : IsSpace(b[i])
Past(s, p) == \A k \in DOMAIN s : s[k].to <= p

\* A character that matches is one more.
LEMMA OthersNext ==
    ASSUME NEW b, NEW s \in Seq(Stored), NEW p \in Nat \ {0}, NEW q \in Nat, p <= q,
           Blanks(b, p, q), ~IsSpace(b[q]), Past(s, p)
    PROVE  OthersOf(b, s, q + 1) = OthersOf(b, s, p) \cup {q}
<1> USE DEF Blanks, Past
<1>1. ASSUME NEW k \in DOMAIN s PROVE q \notin s[k].from .. s[k].to - 1
    <2> DEFINE f == s[k].from
               e == s[k].to
    <2>1. s[k] \in Stored
        OBVIOUS
    <2>2. f \in Nat /\ e \in Nat /\ e <= p
        BY <2>1 DEF Stored
    <2> HIDE DEF f, e
    <2>3. q \notin f .. e - 1
        BY <2>2
    <2> QED BY <2>3 DEF f, e
<1>2. ASSUME NEW i
      PROVE  i \in OthersOf(b, s, q + 1) <=> i \in OthersOf(b, s, p) \/ i = q
    <2>1. i \in 1 .. (q + 1) - 1 <=> i \in 1 .. p - 1 \/ i \in p .. q - 1 \/ i = q
        OBVIOUS
    <2>2. i \in p .. q - 1 => i \notin 1 .. p - 1 /\ i # q
        OBVIOUS
    <2>3. CASE i = q
        BY <1>1, <2>1, <2>3 DEF OthersOf
    <2>4. CASE i \in p .. q - 1
        BY <2>1, <2>2, <2>4 DEF OthersOf
    <2>5. CASE i # q /\ i \notin p .. q - 1
        BY <2>1, <2>5 DEF OthersOf
    <2> QED BY <2>3, <2>4, <2>5
<1> QED BY <1>2

\* The characters the passed part of the format matches.
Expected(n) == [i \in DOMAIN Matching(n) |-> Last(Matching(n)[i].text)]

\* The next item expects a character, or it does not.
LEMMA MatchingSame ==
    ASSUME Len(items) \in Nat, NEW n \in 0 .. Len(items), NEW m, AtItem(n, m), m < Len(items),
           items[m + 1].conv \notin {"=", "%"}
    PROVE  Expected(m + 1) = Expected(n)
<1>1. Places(m + 1, {"=", "%"}) = Places(n, {"=", "%"})
    <2> DEFINE kinds == {"=", "%"}
    <2>1. "ws" \notin kinds /\ items[m + 1].conv \notin kinds
        OBVIOUS
    <2> HIDE DEF kinds
    <2>2. Places(m + 1, kinds) = Places(n, kinds)
        BY <2>1, PlacesNext
    <2> QED BY <2>2 DEF kinds
<1>2. Matching(m + 1) = Matching(n)
    BY <1>1, MatchingIs
<1> QED BY <1>2 DEF Expected

LEMMA MatchingNext ==
    ASSUME Len(items) \in Nat, NEW n \in 0 .. Len(items), NEW m, AtItem(n, m), m < Len(items),
           items[m + 1].conv \in {"=", "%"},
           NEW b, NEW T \in SUBSET Nat, IsFiniteSet(T), NEW q \in Nat, \A i \in T : i < q,
           Picked(b, T) = Expected(n), b[q] = Last(items[m + 1].text)
    PROVE  Picked(b, T \cup {q}) = Expected(m + 1)
<1> DEFINE kinds == {"=", "%"}
           P == Places(n, kinds)
           c == Cardinality(P)
           j == m + 1
           old == Picked(items, P)
           new == Picked(items, P \cup {j})
           was == Picked(b, T)
           is == Picked(b, T \cup {q})
<1>1. n \in Nat /\ m \in Nat /\ j \in Nat
    BY DEF AtItem
<1>2. "ws" \notin kinds /\ items[m + 1].conv \in kinds
    OBVIOUS
<1> HIDE DEF kinds
<1>3. Places(m + 1, kinds) = P \cup {j} /\ \A i \in P : i < j
    BY <1>2, PlacesNext
<1>4. P \in SUBSET Nat /\ IsFiniteSet(P)
    BY <1>1, PlacesAre
<1>5. Matching(n) = old /\ Matching(m + 1) = new
    BY <1>3, MatchingIs DEF kinds
<1> HIDE DEF P, j
<1>6. /\ c \in Nat /\ DOMAIN old = 1 .. c /\ DOMAIN new = 1 .. c + 1
      /\ new[c + 1] = items[j]
    <2>1. /\ Cardinality(P) \in Nat
          /\ DOMAIN Picked(items, P) = 1 .. Cardinality(P)
          /\ DOMAIN Picked(items, P \cup {j}) = 1 .. Cardinality(P) + 1
          /\ Picked(items, P \cup {j})[Cardinality(P) + 1] = items[j]
        BY <1>1, <1>3, <1>4, PickedLast
    <2> QED BY <2>1
<1>7. \A i \in 1 .. c : new[i] = old[i]
    BY <1>1, <1>3, <1>4, PickedSame
<1>8. Cardinality(T) \in Nat /\ DOMAIN was = 1 .. Cardinality(T)
    BY PickedLast
<1>9. DOMAIN is = 1 .. Cardinality(T) + 1 /\ is[Cardinality(T) + 1] = b[q]
    BY PickedLast
<1>10. \A i \in 1 .. Cardinality(T) : is[i] = was[i]
    BY PickedSame
<1> DEFINE d == Cardinality(T)
<1> HIDE DEF c, d, old, new, was, is
<1>11. was = [i \in 1 .. c |-> Last(old[i].text)]
    BY <1>5, <1>6 DEF Expected, was
<1>12. d = c
    <2>1. 1 .. d = 1 .. c
        BY <1>8, <1>11 DEF d
    <2>2. d \in Nat /\ c \in Nat
        BY <1>6, <1>8 DEF d
    <2> QED BY <2>1, <2>2, SameLength
<1>13. ASSUME NEW i \in 1 .. c + 1 PROVE is[i] = Last(new[i].text)
    <2>1. CASE i = c + 1
        BY <1>6, <1>9, <1>12, <2>1 DEF d, j
    <2>2. CASE i # c + 1
        <3>1. i \in 1 .. c
            BY <1>6, <2>2
        <3>2. is[i] = was[i] /\ new[i] = old[i]
            BY <1>7, <1>10, <1>12, <3>1 DEF d
        <3> QED BY <1>11, <3>1, <3>2
    <2> QED BY <2>1, <2>2
<1>14. is = [i \in 1 .. c + 1 |-> is[i]]
    BY <1>9, <1>12 DEF is, d, Picked
<1>15. is = [i \in 1 .. c + 1 |-> Last(new[i].text)]
    BY <1>13, <1>14
<1>16. Expected(m + 1) = [i \in 1 .. c + 1 |-> Last(new[i].text)]
    BY <1>5, <1>6 DEF Expected
<1> QED BY <1>15, <1>16 DEF is

--------------------------------------------------------------------------
(* The format and what was stored and matched go together.                 *)

(* The format and what was stored and matched go together.                 *)
\* The first n items asked for what was stored and matched.
Matches(n) ==
    /\ n \in 0 .. Len(items) /\ End(n) = fmt - 1
    /\ Conversions(stored) = Conversions(Storing(n))
    /\ num = Cardinality(Counted(stored))
    /\ ~Uses("*") => Others = Expected(n)

\* FormatMatched in these words.
LEMMA MatchedIs == FormatMatched <=> (pc = "loop" /\ Plain => \E n : Matches(n))
BY DEF FormatMatched, Matches, Plain, End, Passed, Counted, Expected

\* No conversion took a character that is yet to be read.
Behind == \A k \in DOMAIN stored : stored[k].to <= str

\* What stays when the format and the input stay.
LEMMA SameItems ==
    ASSUME items' = items, NEW n
    PROVE  /\ End(n)' = End(n) /\ Storing(n)' = Storing(n) /\ Uses("*")' = Uses("*")
           /\ Expected(n)' = Expected(n) /\ Len(items)' = Len(items)
BY DEF End, Storing, Uses, Expected, Matching

\* A conversion that stores its argument and takes its characters.
LEMMA StoreMatches ==
    ASSUME IInv, FormatsWellFormed, Plain, NEW n, Matches(n), NEW m, AtItem(n, m),
           m < Len(items), NEW conv \in Kinds, items[m + 1].conv = conv,
           NEW from \in Nat, NEW to \in Nat, str <= from, from <= to,
           \A i \in str .. from - 1 : IsSpace(buf[i]),
           NEW value \in -LongLongSize .. LongLongSize, Put(conv, from, to, value),
           Goto("loop", End(m + 1) + 1, to),
           num' = IF conv = "n" THEN num ELSE num + 1
    PROVE  Matches(m + 1)'
<1> DEFINE x == [conv |-> conv, from |-> from, to |-> to, value |-> value]
<1>1. /\ n \in 0 .. Len(items) /\ m + 1 \in 0 .. Len(items) /\ Len(items) \in Nat
      /\ m \in 0 .. Len(items) - 1
    BY ItemsAre DEF Matches, AtItem
<1>2. stored \in Seq(Stored) /\ str \in Nat \ {0}
    BY DEF IInv
<1>3. x \in Stored /\ x.conv = conv /\ x.from = from /\ x.to = to
    BY DEF Stored
<1>4. /\ stored' = Append(stored, x) /\ fmt' = End(m + 1) + 1 /\ str' = to
      /\ buf' = buf /\ items' = items
    BY DEF Put, Goto
<1> HIDE DEF x
<1>5. End(m + 1) \in Int
    <2>1. End(m + 1) \in 0 .. Len(format) /\ Len(format) \in Nat
        BY <1>1, EndsAre
    <2> QED BY <2>1
<1>6. Conversions(Append(stored, x)) = Conversions(Storing(m + 1))
    <2>1. Conversions(stored) = Conversions(Storing(n))
        BY DEF Matches
    <2> QED BY <1>1, <1>2, <1>3, <2>1, ConversionsNext
<1>7. num' = Cardinality(Counted(Append(stored, x)))
    <2>1. num = Cardinality(Counted(stored))
        BY DEF Matches
    <2>2. Cardinality(Counted(Append(stored, x))) =
             IF conv = "n" THEN Cardinality(Counted(stored)) ELSE Cardinality(Counted(stored)) + 1
        BY <1>2, <1>3, CountedNext
    <2> QED BY <2>1, <2>2
<1>8. ASSUME ~Uses("*") PROVE Picked(buf, OthersOf(buf, Append(stored, x), to)) = Expected(m + 1)
    <2>1. OthersOf(buf, Append(stored, x), x.to) = OthersOf(buf, stored, str)
        BY <1>2, <1>3, OthersTaken
    <2>2. Others = Expected(n)
        BY <1>8 DEF Matches
    <2>3. items[m + 1].conv \notin {"=", "%"}
        BY DEF Kinds, Ints
    <2>4. Expected(m + 1) = Expected(n)
        BY <1>1, <2>3, MatchingSame
    <2> QED BY <1>3, <2>1, <2>2, <2>4, OthersIs
<1>9. Others' = Picked(buf, OthersOf(buf, Append(stored, x), to))
    <2>1. Others' = Picked(buf', OthersOf(buf', stored', str'))
        BY DEF Others, OthersOf
    <2> QED BY <1>4, <2>1
<1>10. End(m + 1)' = fmt' - 1
    BY <1>4, <1>5, SameItems
<1>11. Conversions(stored') = Conversions(Storing(m + 1))'
    <2>1. Storing(m + 1)' = Storing(m + 1)
        BY <1>4, SameItems
    <2> QED BY <1>4, <1>6, <2>1
<1>12. ~Uses("*")' => Others' = Expected(m + 1)'
    BY <1>4, <1>8, <1>9, SameItems
<1> QED BY <1>1, <1>4, <1>7, <1>10, <1>11, <1>12 DEF Matches

\* A character or a %% that matches.
LEMMA LiteralMatches ==
    ASSUME IInv, FormatsWellFormed, Plain, NEW n, Matches(n), NEW m, AtItem(n, m),
           m < Len(items), items[m + 1].conv \in {"=", "%"}, More, Behind,
           buf[S] = Last(items[m + 1].text), ~IsSpace(buf[S]),
           Goto("loop", End(m + 1) + 1, S + 1), NothingStored
    PROVE  Matches(m + 1)'
<1>1. /\ n \in 0 .. Len(items) /\ m + 1 \in 0 .. Len(items) /\ Len(items) \in Nat
      /\ m \in 0 .. Len(items) - 1
    BY ItemsAre DEF Matches, AtItem
<1>2. stored \in Seq(Stored)
    BY DEF IInv
<1>3. /\ stored' = stored /\ num' = num /\ fmt' = End(m + 1) + 1 /\ str' = S + 1
      /\ buf' = buf /\ items' = items
    BY DEF NothingStored, Goto
<1>4. End(m + 1) \in Int
    <2>1. End(m + 1) \in 0 .. Len(format) /\ Len(format) \in Nat
        BY <1>1, EndsAre
    <2> QED BY <2>1
<1>5. items[m + 1].conv \notin Kinds
    BY DEF Kinds, Ints
<1>6. Conversions(stored) = Conversions(Storing(m + 1))
    <2>1. Storing(m + 1) = Storing(n)
        BY <1>1, <1>5, StoringSame
    <2> QED BY <2>1 DEF Matches
<1> DEFINE q == S
<1>7. /\ q \in Nat /\ str \in Nat \ {0} /\ str <= q
      /\ \A i \in str .. q - 1 : IsSpace(buf[i])
    BY SkippedIs
<1>8. ASSUME ~Uses("*") PROVE Picked(buf, OthersOf(buf, stored, q + 1)) = Expected(m + 1)
    <2>1. ~IsSpace(buf[q]) /\ buf[q] = Last(items[m + 1].text)
        OBVIOUS
    <2>2. Others = Expected(n)
        BY <1>8 DEF Matches
    <2> HIDE DEF q
    <2> DEFINE T == OthersOf(buf, stored, str)
    <2>3. OthersOf(buf, stored, q + 1) = T \cup {q}
        <3>1. stored \in Seq(Stored) /\ Past(stored, str)
            BY <1>2 DEF Behind, Past
        <3>2. str \in Nat \ {0} /\ q \in Nat /\ str <= q /\ Blanks(buf, str, q)
            BY <1>7 DEF Blanks
        <3>3. ~IsSpace(buf[q])
            BY <2>1
        <3> HIDE DEF T
        <3>4. OthersOf(buf, stored, q + 1) = OthersOf(buf, stored, str) \cup {q}
            BY <3>1, <3>2, <3>3, OthersNext
        <3> QED BY <3>4 DEF T
    <2>4. T \in SUBSET Nat /\ IsFiniteSet(T) /\ \A i \in T : i < q
        <3>1. T \in SUBSET Nat /\ IsFiniteSet(T) /\ \A i \in T : i < str
            BY <1>7, OthersPlaces
        <3> HIDE DEF T
        <3> QED BY <1>7, <3>1
    <2>5. Picked(buf, T) = Expected(n)
        BY <2>2, OthersIs
    <2> HIDE DEF T
    <2>6. Picked(buf, T \cup {q}) = Expected(m + 1)
        BY <1>1, <1>7, <2>1, <2>4, <2>5, MatchingNext
    <2> QED BY <2>3, <2>6
<1>9. Others' = Picked(buf, OthersOf(buf, stored, q + 1))
    <2>1. Others' = Picked(buf', OthersOf(buf', stored', str'))
        BY DEF Others, OthersOf
    <2> HIDE DEF q
    <2>2. str' = q + 1
        BY <1>3 DEF q
    <2> QED BY <1>3, <2>1, <2>2
<1> HIDE DEF q
<1>10. End(m + 1)' = fmt' - 1
    BY <1>3, <1>4, SameItems
<1>11. Conversions(stored') = Conversions(Storing(m + 1))'
    <2>1. Storing(m + 1)' = Storing(m + 1)
        BY <1>3, SameItems
    <2> QED BY <1>3, <1>6, <2>1
<1>12. ~Uses("*")' => Others' = Expected(m + 1)'
    BY <1>3, <1>8, <1>9, SameItems
<1>13. num' = Cardinality(Counted(stored'))
    BY <1>3 DEF Matches
<1> QED BY <1>1, <1>3, <1>10, <1>11, <1>12, <1>13 DEF Matches

\* A conversion that is passed over.
LEMMA SuppressMatches ==
    ASSUME IInv, FormatsWellFormed, Plain, NEW n, Matches(n), NEW m, AtItem(n, m),
           m < Len(items), items[m + 1].conv = "*",
           NEW s, Goto("loop", End(m + 1) + 1, s), NothingStored
    PROVE  Matches(m + 1)'
<1>1. /\ n \in 0 .. Len(items) /\ m + 1 \in 0 .. Len(items) /\ Len(items) \in Nat
      /\ m \in 0 .. Len(items) - 1
    BY ItemsAre DEF Matches, AtItem
<1>2. /\ stored' = stored /\ num' = num /\ fmt' = End(m + 1) + 1 /\ items' = items
    BY DEF NothingStored, Goto
<1>3. End(m + 1) \in Int
    <2>1. End(m + 1) \in 0 .. Len(format) /\ Len(format) \in Nat
        BY <1>1, EndsAre
    <2> QED BY <2>1
<1>4. Conversions(stored) = Conversions(Storing(m + 1))
    <2>1. items[m + 1].conv \notin Kinds
        BY DEF Kinds, Ints
    <2>2. Storing(m + 1) = Storing(n)
        BY <1>1, <2>1, StoringSame
    <2> QED BY <2>2 DEF Matches
<1>5. Uses("*")
    <2> DEFINE text == items[m + 1].text
    <2>1. text \in Seq(STRING) /\ Len(text) >= 2 /\ text[2] = "*"
        BY <1>1, EndsAre DEF Starts
    <2>2. IsIn("*", text)
        <3> HIDE DEF text
        <3> QED BY <2>1 DEF IsIn
    <2>3. m + 1 \in DOMAIN items
        <3>1. items \in Seq(Item) /\ m + 1 \in 1 .. Len(items)
            BY <1>1, ItemsAre
        <3> QED BY <3>1
    <2> QED BY <2>2, <2>3 DEF Uses, UsedIn
<1>6. End(m + 1)' = fmt' - 1
    BY <1>2, <1>3, SameItems
<1>7. Conversions(stored') = Conversions(Storing(m + 1))'
    <2>1. Storing(m + 1)' = Storing(m + 1)
        BY <1>2, SameItems
    <2> QED BY <1>2, <1>4, <2>1
<1>8. Uses("*")'
    BY <1>2, <1>5, SameItems
<1>9. num' = Cardinality(Counted(stored'))
    BY <1>2 DEF Matches
<1> QED BY <1>1, <1>2, <1>6, <1>7, <1>8, <1>9 DEF Matches

\* The format may be at any item.
LEMMA MatchedThen ==
    ASSUME NEW n, Matches(n)'
    PROVE  FormatMatched'
BY DEF FormatMatched, Matches, End, Passed, Counted, Expected

\* The item a round is at, when the format matched so far.
LEMMA RoundMatched ==
    ASSUME IInv, FormatsWellFormed, FormatMatched, Plain, More
    PROVE  \E n, m : n \in 0 .. Len(items) /\ Matches(n) /\ AtItem(n, m)
<1>1. PICK n : Matches(n)
    BY MatchedIs DEF More
<1>2. n \in 0 .. Len(items) /\ End(n) = fmt - 1
    BY <1>1 DEF Matches
<1>3. \E m : AtItem(n, m)
    BY <1>2, RoundIs
<1> QED BY <1>1, <1>2, <1>3

\* A qualifier that conversion c of an item has, and the item.
Qualifies(c) == Qualifier # "H" /\ (c \in {"i", "d"} => Qualifier \notin {"z", "Z"})

AtConversion(c, n, m) ==
    /\ n \in 0 .. Len(items) /\ Matches(n) /\ AtItem(n, m)
    /\ m \in 0 .. Len(items) - 1 /\ Conv = End(m + 1)
    /\ items[m + 1].conv = IF c \in Kinds \cup {"%"} THEN c ELSE "bad"
    /\ c = Last(items[m + 1].text)
    /\ c \in Ints => SizeOf(Qualifier) = items[m + 1].size
    /\ Qualifies(c)

\* A round that converts is at a conversion of the format.
LEMMA ConversionMatched ==
    ASSUME FormatsWellFormed, IInv, FormatMatched, Plain, Conversion
    PROVE  \E n, m : AtConversion(At(format, Conv), n, m)
<1> DEFINE c == At(format, Conv)
<1>0. More
    BY DEF Conversion, Directive
<1>1. PICK n, m : n \in 0 .. Len(items) /\ Matches(n) /\ AtItem(n, m)
    BY <1>0, RoundMatched
<1>2. /\ m \in 0 .. Len(items) - 1 /\ Conv = End(m + 1)
      /\ items[m + 1].conv = IF c \in Kinds \cup {"%"} THEN c ELSE "bad"
      /\ c = Last(items[m + 1].text)
      /\ c \in Ints => SizeOf(Qualifier) = items[m + 1].size
      /\ c \in {"i", "d"} => Qualifier \notin {"z", "Z"}
      /\ Qualifier # "H"
    BY <1>1, ConversionFinds
<1> HIDE DEF c
<1>3. AtConversion(c, n, m)
    BY <1>1, <1>2 DEF AtConversion, Qualifies
<1> QED BY <1>3 DEF c

--------------------------------------------------------------------------
(* The invariant of the formats.                                           *)

\* The invariant that the formats keep.
MInv == Behind /\ FormatMatched /\ ValueRight

(* The steps.                                                              *)
\* What a step keeps of the format and of what was stored before.
Kept == items' = items /\ buf' = buf

\* The format and the input do not change.
LEMMA PlainStays ==
    Kept => /\ Plain' <=> Plain
            /\ \A x, size : /\ Holds(x, size)' <=> Holds(x, size)
                           /\ IsOctal(x)' <=> IsOctal(x)
BY DEF Kept, Plain, Uses, Holds, IsOctal

\* After the loop, and of other formats, nothing is said.
LEMMA MatchedNot ==
    ASSUME Kept, pc' # "loop" \/ ~Plain
    PROVE  FormatMatched'
BY DEF Kept, FormatMatched, Plain, Uses

\* Nothing stored.
LEMMA NothingNew ==
    ASSUME IInv, Behind, ValueRight, NothingStored, Kept, str' \in Int, str <= str'
    PROVE  Behind' /\ ValueRight'
<1>1. stored' = stored /\ items' = items
    BY DEF NothingStored, Kept
<1>2. Behind'
    <2> SUFFICES ASSUME NEW k \in DOMAIN stored PROVE stored[k].to <= str'
        BY <1>1 DEF Behind
    <2>1. stored[k] \in Stored /\ stored[k].to <= str
        BY DEF IInv, Behind
    <2>2. stored[k].to \in Nat /\ str \in Nat
        BY <2>1 DEF Stored, IInv
    <2> QED BY <2>1, <2>2
<1>3. /\ Storing(Len(items))' = Storing(Len(items))
      /\ (Uses("h")' <=> Uses("h")) /\ (Uses("l")' <=> Uses("l"))
    BY <1>1 DEF Storing, Uses
<1> DEFINE T == Storing(Len(items))
<1>4. T' = T /\ (Plain' <=> Plain)
    BY <1>3 DEF Plain
<1> HIDE DEF T
<1>5. ValueRight'
    <2> SUFFICES ASSUME Plain', NEW k \in DOMAIN stored,
                        stored[k].conv \in Ints, ~IsOctal(stored[k])'
                 PROVE  Holds(stored[k], T[k].size)'
        BY <1>1 DEF ValueRight, Plain, T
    <2>1. ~IsOctal(stored[k])
        BY <1>1, PlainStays DEF IsOctal, Kept
    <2>2. Holds(stored[k], T[k].size)
        BY <1>4, <2>1 DEF ValueRight, Plain, T
    <2> QED BY <1>1, <1>4, <2>2 DEF Holds, Kept
<1> QED BY <1>2, <1>5

\* One value stored.
LEMMA OneMore ==
    ASSUME IInv, Behind, ValueRight, NEW conv \in Kinds, NEW from \in Nat, NEW to \in Nat,
           from <= to, str <= to, NEW value \in -LongLongSize .. LongLongSize,
           Put(conv, from, to, value), Kept, str' = to,
           LET x == [conv |-> conv, from |-> from, to |-> to, value |-> value]
           IN  Plain /\ conv \in Ints /\ ~IsOctal(x) =>
                  Holds(x, Storing(Len(items))[Len(stored) + 1].size)
    PROVE  Behind' /\ ValueRight'
<1> DEFINE x == [conv |-> conv, from |-> from, to |-> to, value |-> value]
           l == Len(stored)
           T == Storing(Len(items))
<1>1. x \in Stored /\ x.conv = conv /\ x.to = to
    BY DEF Stored
<1>2. stored \in Seq(Stored) /\ str \in Nat
    BY DEF IInv
<1>3. stored' = Append(stored, x) /\ items' = items
    BY DEF Put, Kept
<1>4. Plain /\ conv \in Ints /\ ~IsOctal(x) => Holds(x, T[l + 1].size)
    OBVIOUS
<1> HIDE DEF x
<1>5. /\ l \in Nat /\ DOMAIN stored = 1 .. l /\ DOMAIN stored' = 1 .. l + 1
      /\ stored'[l + 1] = x /\ \A k \in 1 .. l : stored'[k] = stored[k]
    BY <1>1, <1>2, <1>3
<1>6. T' = T /\ (Plain' <=> Plain)
    BY <1>3, PlainStays DEF Storing, Plain, Uses
<1> HIDE DEF l, T
<1>7. \A k : k \in 1 .. l + 1 <=> k \in 1 .. l \/ k = l + 1
    BY <1>5
<1>8. Behind'
    <2> SUFFICES ASSUME NEW k \in 1 .. l + 1 PROVE stored'[k].to <= to
        BY <1>5 DEF Behind
    <2>1. CASE k = l + 1
        BY <1>1, <1>5, <2>1
    <2>2. CASE k # l + 1
        <3>1. k \in 1 .. l /\ stored'[k] = stored[k] /\ stored[k] \in Stored
            BY <1>2, <1>5, <1>7, <2>2
        <3>2. stored[k].to <= str /\ stored[k].to \in Nat
            BY <1>5, <3>1 DEF Behind, Stored
        <3> QED BY <1>2, <3>1, <3>2
    <2> QED BY <2>1, <2>2
<1>9. ASSUME Plain, NEW k \in 1 .. l + 1,
             stored'[k].conv \in Ints, ~IsOctal(stored'[k])
      PROVE  Holds(stored'[k], T[k].size)
    <2>1. CASE k = l + 1
        BY <1>1, <1>4, <1>5, <1>9, <2>1
    <2>2. CASE k # l + 1
        <3>1. k \in 1 .. l /\ stored'[k] = stored[k]
            BY <1>5, <1>7, <2>2
        <3> QED BY <1>5, <1>9, <3>1 DEF ValueRight, Plain, T
    <2> QED BY <2>1, <2>2
<1>10. ValueRight'
    <2> SUFFICES ASSUME Plain', NEW k \in 1 .. l + 1,
                        stored'[k].conv \in Ints, ~IsOctal(stored[k])'
                 PROVE  Holds(stored[k], T[k].size)'
        BY <1>5 DEF ValueRight, Plain, T
    <2> QED BY <1>6, <1>9, PlainStays DEF Holds, IsOctal, Kept
<1> QED BY <1>8, <1>10

\* One lemma for each action: it keeps what was stored and matched right.
LEMMA LiteralKeeps ==
    ASSUME FormatsWellFormed, IInv, MInv, Literal
    PROVE  MInv'
<1>1. /\ More /\ At(format, F) \notin {"%", NUL} /\ NothingStored /\ Kept
      /\ Goto(IF At(format, F) = At(buf, S) THEN "loop" ELSE "tail", F + 1, S + 1)
      /\ str' = S + 1
    BY DEF Literal, Goto, Kept
<1>2. S \in Nat /\ str \in Nat /\ str <= S
    BY <1>1, SkippedIs
<1>3. Behind' /\ ValueRight'
    BY <1>1, <1>2, NothingNew DEF MInv
<1>4. CASE pc' # "loop" \/ ~Plain
    BY <1>1, <1>3, <1>4, MatchedNot DEF MInv
<1>5. CASE pc' = "loop" /\ Plain
    <2>1. At(format, F) = At(buf, S) /\ Goto("loop", F + 1, S + 1)
        BY <1>1, <1>5 DEF Goto
    <2>2. PICK n, m : n \in 0 .. Len(items) /\ Matches(n) /\ AtItem(n, m)
        BY <1>1, <1>5, RoundMatched DEF MInv
    <2>3. /\ m \in 0 .. Len(items) - 1 /\ items[m + 1].conv = "="
          /\ At(format, F) = Last(items[m + 1].text) /\ ~IsSpace(At(format, F))
          /\ End(m + 1) = F
        BY <1>1, <1>5, <2>2, LiteralFinds
    <2>4. buf[S] = At(format, F)
        BY <1>1, <2>1 DEF At
    <2>5. m < Len(items)
        BY <1>5, <2>3, ItemsAre
    <2>6. Matches(m + 1)'
        BY <1>1, <1>5, <2>1, <2>2, <2>3, <2>4, <2>5, LiteralMatches DEF MInv
    <2>7. FormatMatched'
        BY <2>6, MatchedThen
    <2> QED BY <1>3, <2>7 DEF MInv
<1> QED BY <1>4, <1>5

LEMMA SuppressKeeps ==
    ASSUME FormatsWellFormed, IInv, MInv, Suppress
    PROVE  MInv'
<1> DEFINE s == Seek(buf, S, Spaces)
<1>1. /\ More /\ Directive /\ At(format, F + 1) = "*" /\ NothingStored /\ Kept
      /\ Goto("loop", Seek(format, F + 1, Spaces \cup {"%"}), s) /\ str' = s
    BY DEF Suppress, Directive, Goto, Kept
<1>2. S \in 1 .. Len(buf) + 1 /\ S \in Nat /\ str \in Nat /\ str <= S /\ buf \in Seq(STRING)
    <2>1. S \in str .. Len(buf) + 1 /\ S \in Nat /\ str \in Nat \ {0} /\ str <= S /\ buf \in Seq(STRING)
        BY <1>1, SkippedIs DEF IInv
    <2> QED BY <2>1
<1>3. s \in S .. Len(buf) + 1
    BY <1>2, SeekIs
<1> HIDE DEF s
<1>4. Behind' /\ ValueRight'
    BY <1>1, <1>2, <1>3, NothingNew DEF MInv
<1>5. CASE ~Plain
    BY <1>1, <1>4, <1>5, MatchedNot DEF MInv
<1>6. CASE Plain
    <2>1. PICK n, m : n \in 0 .. Len(items) /\ Matches(n) /\ AtItem(n, m)
        BY <1>1, <1>6, RoundMatched DEF MInv
    <2>2. /\ m \in 0 .. Len(items) - 1 /\ items[m + 1].conv = "*"
          /\ Seek(format, F + 1, Spaces \cup {"%"}) = End(m + 1) + 1
        BY <1>1, <1>6, <2>1, SuppressFinds
    <2>3. m < Len(items)
        BY <1>6, <2>2, ItemsAre
    <2>4. Matches(m + 1)'
        BY <1>1, <1>6, <2>1, <2>2, <2>3, SuppressMatches
    <2>5. FormatMatched'
        BY <2>4, MatchedThen
    <2> QED BY <1>4, <2>5 DEF MInv
<1> QED BY <1>5, <1>6

\* A conversion that stores what it read, behind white space.
LEMMA ConversionKeeps ==
    ASSUME FormatsWellFormed, IInv, MInv, NEW convs \in SUBSET Kinds, Converts(convs),
           NEW from \in Nat, NEW to \in Nat, S <= from, from <= to,
           \A i \in S .. from - 1 : IsSpace(buf[i]),
           NEW value \in -LongLongSize .. LongLongSize,
           Put(At(format, Conv), from, to, value), Goto("loop", Conv + 1, to),
           num' = IF At(format, Conv) = "n" THEN num ELSE num + 1,
           LET x == [conv |-> At(format, Conv), from |-> from, to |-> to, value |-> value]
           IN  Plain /\ At(format, Conv) \in Ints /\ Qualifies(At(format, Conv)) /\ ~IsOctal(x) =>
                  Holds(x, SizeOf(Qualifier))
    PROVE  MInv'
<1> DEFINE c == At(format, Conv)
           x == [conv |-> c, from |-> from, to |-> to, value |-> value]
<1>1. /\ More /\ Conversion /\ c \in convs /\ Kept /\ str' = to
    BY DEF Converts, Conversion, Directive, Goto, Kept
<1>2. /\ S \in Nat /\ str \in Nat /\ str <= S /\ str <= from /\ str <= to
      /\ \A i \in str .. from - 1 : IsSpace(buf[i])
    <2>1. /\ S \in Nat /\ str \in Nat /\ str <= S
          /\ \A i \in str .. S - 1 : IsSpace(buf[i])
        BY <1>1, SkippedIs
    <2>2. S \in Int /\ str \in Int
        BY <2>1
    <2>3. ASSUME NEW i \in str .. from - 1 PROVE i \in str .. S - 1 \/ i \in S .. from - 1
        BY <2>2
    <2> QED BY <2>1, <2>3
<1>3. c \in Kinds /\ c \notin {"=", "%", "*"} /\ Ints \subseteq Kinds
    BY <1>1 DEF Kinds, Ints
<1>4. ASSUME Plain PROVE \E n, m : AtConversion(c, n, m)
    BY <1>1, <1>4, ConversionMatched DEF MInv
<1>5. Plain /\ c \in Ints /\ ~IsOctal(x) => Holds(x, Storing(Len(items))[Len(stored) + 1].size)
    <2> SUFFICES ASSUME Plain, c \in Ints, ~IsOctal(x)
                 PROVE  Holds(x, Storing(Len(items))[Len(stored) + 1].size)
        OBVIOUS
    <2>0. PICK n, m : AtConversion(c, n, m)
        BY <1>4
    <2>1. /\ n \in 0 .. Len(items) /\ Matches(n) /\ AtItem(n, m)
          /\ m \in 0 .. Len(items) - 1 /\ items[m + 1].conv = c
          /\ SizeOf(Qualifier) = items[m + 1].size /\ Qualifies(c)
        BY <1>3, <2>0 DEF AtConversion
    <2>2. Holds(x, SizeOf(Qualifier))
        BY <2>1
    <2>3. Len(items) \in Nat /\ m < Len(items) /\ stored \in Seq(Stored)
        BY <2>1, ItemsAre DEF IInv
    <2>4. Conversions(stored) = Conversions(Storing(n))
        BY <2>1 DEF Matches
    <2> HIDE DEF c, x
    <2>5. Storing(Len(items))[Len(stored) + 1] = items[m + 1]
        BY <1>3, <2>1, <2>3, <2>4, ArgumentOf
    <2> QED BY <2>1, <2>2, <2>5
<1>6. Behind' /\ ValueRight'
    BY <1>1, <1>2, <1>3, <1>5, OneMore DEF MInv
<1>7. CASE ~Plain
    BY <1>1, <1>6, <1>7, MatchedNot DEF MInv
<1>8. CASE Plain
    <2>0. PICK n, m : AtConversion(c, n, m)
        BY <1>4, <1>8
    <2>1. /\ n \in 0 .. Len(items) /\ Matches(n) /\ AtItem(n, m)
          /\ m \in 0 .. Len(items) - 1 /\ Conv = End(m + 1)
          /\ items[m + 1].conv = c
        BY <1>3, <2>0 DEF AtConversion
    <2>2. m < Len(items)
        BY <1>8, <2>1, ItemsAre
    <2> HIDE DEF c
    <2>3. Matches(m + 1)'
        <3>1. Put(c, from, to, value) /\ Goto("loop", End(m + 1) + 1, to)
              /\ num' = IF c = "n" THEN num ELSE num + 1
            BY <2>1 DEF c
        <3> QED BY <1>2, <1>3, <1>8, <2>1, <2>2, <3>1, StoreMatches
    <2>4. FormatMatched'
        BY <2>3, MatchedThen
    <2> QED BY <1>6, <2>4 DEF MInv
<1> QED BY <1>7, <1>8

\* The conversions that store something.
LEMMA CharactersKeep ==
    ASSUME FormatsWellFormed, IInv, MInv, Characters
    PROVE  MInv'
<1>1. /\ Converts({"c"}) /\ At(format, Conv) = "c" /\ num' = num + 1
    BY DEF Characters, Converts
<1>2. PICK to \in Nat : /\ S \in Nat /\ S <= to /\ Put("c", S, to, 0) /\ Goto("loop", Conv + 1, to)
    BY CharactersTake
<1>3. {"c"} \in SUBSET Kinds /\ 0 \in -LongLongSize .. LongLongSize /\ "c" \notin Ints
    BY SizesAssumption DEF Kinds, Ints
<1>4. PICK from \in Nat : from = S
    BY <1>2
<1>5. S <= from /\ \A i \in S .. from - 1 : IsSpace(buf[i])
    BY <1>4
<1>6. Put("c", from, to, 0) /\ from <= to
    BY <1>2, <1>4
<1> QED BY <1>1, <1>2, <1>3, <1>4, <1>5, <1>6, ConversionKeeps

LEMMA StringKeeps ==
    ASSUME FormatsWellFormed, IInv, MInv, StringToSpace
    PROVE  MInv'
<1>1. /\ Converts({"s"}) /\ At(format, Conv) = "s" /\ num' = num + 1 /\ More
    BY DEF StringToSpace, Converts, Conversion, Directive
<1>2. PICK from \in Nat, to \in Nat :
         /\ from = SkipSpaces(buf, S) /\ from <= to
         /\ Put("s", from, to, 0) /\ Goto("loop", Conv + 1, to)
    BY StringTakes
<1>3. {"s"} \in SUBSET Kinds /\ 0 \in -LongLongSize .. LongLongSize /\ "s" \notin Ints
    BY SizesAssumption DEF Kinds, Ints
<1>4. S <= from /\ \A i \in S .. from - 1 : IsSpace(buf[i])
    BY <1>1, <1>2, SpacesSkipped
<1> QED BY <1>1, <1>2, <1>3, <1>4, ConversionKeeps

LEMMA CountKeeps ==
    ASSUME FormatsWellFormed, IInv, MInv, Count
    PROVE  MInv'
<1> DEFINE value == Narrow(S - 1, IntSize, TRUE)
<1>1. /\ Converts({"n"}) /\ At(format, Conv) = "n" /\ num' = num
      /\ Put("n", S, S, value) /\ Goto("loop", Conv + 1, S)
    BY DEF Count, Converts
<1>2. S \in Nat /\ S <= S /\ S - 1 \in Int
    <2>1. S \in Nat
        BY <1>1, SkippedIs DEF Converts, Conversion, Directive
    <2> QED BY <2>1
<1>3. value \in -LongLongSize .. LongLongSize
    BY <1>2, NarrowIs
<1> HIDE DEF value
<1>4. {"n"} \in SUBSET Kinds /\ "n" \notin Ints
    BY DEF Kinds, Ints
<1>5. \A i \in S .. S - 1 : IsSpace(buf[i])
    BY <1>2
<1> QED BY <1>1, <1>2, <1>3, <1>4, <1>5, ConversionKeeps

LEMMA NumberKeeps ==
    ASSUME FormatsWellFormed, IInv, MInv, Number
    PROVE  MInv'
<1> DEFINE c == At(format, Conv)
           i == SkipSpaces(buf, S)
           signed == c \in {"i", "d"} /\ Qualifier \notin {"z", "Z"}
           r == NumberAt(c, i, signed)
           value == Narrow(r.value, SizeOf(Qualifier), signed)
           x == [conv |-> c, from |-> i, to |-> r.end, value |-> value]
<1>1. /\ Converts(Ints) /\ c \in Ints /\ num' = num + 1 /\ More
    BY DEF Number, Converts, Conversion, Directive
<1>2. /\ Put(c, i, r.end, value) /\ Goto("loop", Conv + 1, r.end)
      /\ i \in Nat /\ r.end \in Nat /\ i <= r.end
      /\ i \in 1 .. Len(buf) + 1 /\ StartsNumber(c, i)
      /\ value \in -LongLongSize .. LongLongSize
    BY NumberTakes
<1>3. S <= i /\ \A k \in S .. i - 1 : IsSpace(buf[k])
    BY <1>1, SpacesSkipped
<1>4. ASSUME Qualifies(c), ~IsOctal(x)
      PROVE  Holds(x, SizeOf(Qualifier))
    <2> DEFINE size == SizeOf(Qualifier)
    <2>1. size \in {IntSize, LongLongSize}
        BY <1>4 DEF Qualifies, SizeOf
    <2>2. /\ c \in {"i", "d"} => signed = TRUE
          /\ c \notin {"i", "d"} => signed = FALSE
        BY <1>4 DEF Qualifies
    <2>3. buf \in Seq(STRING)
        BY DEF IInv
    <2>4. x = LET sg == c \in {"i", "d"}
                  q == IF sg THEN StrToS(buf, i, Base(c)) ELSE StrToU(buf, i, Base(c))
              IN  [conv |-> c, from |-> i, to |-> q.end, value |-> Narrow(q.value, size, sg)]
        <3> HIDE DEF c, i, size, signed
        <3>1. CASE c \in {"i", "d"}
            <4>1. signed = TRUE /\ (c \in {"i", "d"}) = TRUE
                BY <2>2, <3>1
            <4> QED BY <4>1 DEF NumberAt, size
        <3>2. CASE c \notin {"i", "d"}
            <4>1. signed = FALSE /\ (c \in {"i", "d"}) = FALSE
                BY <2>2, <3>2
            <4> QED BY <4>1 DEF NumberAt, size
        <3> QED BY <3>1, <3>2
    <2> HIDE DEF c, i, x, size, signed
    <2> QED BY <1>1, <1>2, <1>4, <2>1, <2>3, <2>4, NumberHolds DEF size
<1>5. Ints \in SUBSET Kinds /\ c # "n"
    BY <1>1 DEF Kinds, Ints
<1>6. num' = IF c = "n" THEN num ELSE num + 1
    BY <1>1, <1>5
<1>7. Plain /\ c \in Ints /\ Qualifies(c) /\ ~IsOctal(x) => Holds(x, SizeOf(Qualifier))
    BY <1>4
<1> HIDE DEF i, r, value
<1> DEFINE to == r.end
<1> HIDE DEF to
<1>8. MInv'
    BY <1>1, <1>2, <1>3, <1>5, <1>6, <1>7, ConversionKeeps
<1> QED BY <1>8

\* What stores nothing or ends the scan.
LEMMA PercentKeeps ==
    ASSUME FormatsWellFormed, IInv, MInv, PercentOrInvalid
    PROVE  MInv'
<1> DEFINE c == At(format, Conv)
           s == IF c = "%" THEN S + 1 ELSE S
<1>1. /\ More /\ Conversion /\ NothingStored /\ Kept /\ At(buf, S) # NUL
      /\ Goto(IF c = "%" /\ At(buf, S) = "%" THEN "loop" ELSE "done", Conv + 1, s) /\ str' = s
    BY DEF PercentOrInvalid, Conversion, Directive, Goto, Kept
<1>2. S \in Nat /\ str \in Nat /\ str <= S
    BY <1>1, SkippedIs
<1>3. s \in Int /\ str <= s
    BY <1>2
<1>4. Behind' /\ ValueRight'
    BY <1>1, <1>3, NothingNew DEF MInv
<1>5. CASE pc' # "loop" \/ ~Plain
    BY <1>1, <1>4, <1>5, MatchedNot DEF MInv
<1>6. CASE pc' = "loop" /\ Plain
    <2>1. c = "%" /\ At(buf, S) = "%" /\ Goto("loop", Conv + 1, S + 1)
        BY <1>1, <1>6 DEF Goto
    <2>2. PICK n, m : AtConversion(c, n, m)
        BY <1>1, <1>6, ConversionMatched DEF MInv
    <2>3. /\ n \in 0 .. Len(items) /\ Matches(n) /\ AtItem(n, m)
          /\ m \in 0 .. Len(items) - 1 /\ Conv = End(m + 1)
          /\ items[m + 1].conv = "%" /\ Last(items[m + 1].text) = "%"
        BY <2>1, <2>2 DEF AtConversion
    <2>4. buf[S] = "%" /\ ~IsSpace(buf[S])
        BY <2>1, SpacesAre DEF At, NUL
    <2>5. m < Len(items)
        BY <1>6, <2>3, ItemsAre
    <2>6. Matches(m + 1)'
        BY <1>1, <1>6, <2>1, <2>3, <2>4, <2>5, LiteralMatches DEF MInv
    <2>7. FormatMatched'
        BY <2>6, MatchedThen
    <2> QED BY <1>4, <2>7 DEF MInv
<1> QED BY <1>5, <1>6

\* The scan ends without a conversion.
LEMMA EndKeeps ==
    ASSUME FormatsWellFormed, IInv, MInv, FormatEnds \/ CannotConvert \/ NotANumber
    PROVE  MInv'
<1>1. /\ More /\ NothingStored /\ Kept /\ pc' = "tail"
      /\ str' \in {S, SkipSpaces(buf, S)}
    BY DEF FormatEnds, CannotConvert, NotANumber, Converts, Conversion, Directive, Goto, Kept
<1>2. /\ S \in 1 .. Len(buf) + 1 /\ S \in Nat /\ str \in Nat /\ str <= S /\ buf \in Seq(STRING)
    <2>1. S \in str .. Len(buf) + 1 /\ str \in Nat \ {0} /\ str <= S /\ buf \in Seq(STRING)
        BY <1>1, SkippedIs DEF IInv
    <2> QED BY <2>1
<1>3. SkipSpaces(buf, S) \in S .. Len(buf) + 1
    BY <1>2, SkipIs DEF SkipSpaces
<1>4. str' \in Int /\ str <= str'
    BY <1>1, <1>2, <1>3
<1>5. Behind' /\ ValueRight'
    BY <1>1, <1>4, NothingNew DEF MInv
<1>6. FormatMatched'
    BY <1>1, MatchedNot
<1> QED BY <1>5, <1>6 DEF MInv

LEMMA TrailingCountKeeps ==
    ASSUME FormatsWellFormed, IInv, MInv, TrailingCount
    PROVE  MInv'
<1> DEFINE value == Narrow(str - 1, IntSize, TRUE)
<1>1. Kept /\ pc' = "done" /\ str' = str /\ num' = num
      /\ (Put("n", str, str, value) \/ UNCHANGED stored)
    BY DEF TrailingCount, Goto, Kept
<1>2. str \in Nat /\ str - 1 \in Int /\ str <= str
    BY DEF IInv
<1>3. value \in -LongLongSize .. LongLongSize
    BY <1>2, NarrowIs
<1> HIDE DEF value
<1>4. "n" \in Kinds /\ "n" \notin Ints
    BY DEF Kinds, Ints
<1>5. Behind' /\ ValueRight'
    <2>1. CASE Put("n", str, str, value)
        BY <1>1, <1>2, <1>3, <1>4, <2>1, OneMore DEF MInv
    <2>2. CASE UNCHANGED stored
        BY <1>1, <1>2, <2>2, NothingNew DEF MInv, NothingStored
    <2> QED BY <1>1, <2>1, <2>2
<1>6. FormatMatched'
    BY <1>1, MatchedNot
<1> QED BY <1>5, <1>6 DEF MInv

\* The start and every step.
LEMMA InitMInv == FormatsWellFormed /\ Init => MInv
<1> SUFFICES ASSUME FormatsWellFormed, Init PROVE MInv
    OBVIOUS
<1>0. IInv
    BY InitIInv
<1>1. stored = <<>> /\ str = 1 /\ fmt = 1 /\ num = 0
    BY DEF Init
<1>2. DOMAIN stored = {} /\ stored \in Seq(Stored)
    BY <1>1
<1>3. Behind /\ ValueRight
    BY <1>2 DEF Behind, ValueRight
<1>4. ASSUME Plain PROVE Matches(0)
    <2>1. 0 \in 0 .. Len(items) /\ End(0) = fmt - 1
        BY <1>0, <1>1, <1>4, ItemsAre, EndsAre
    <2>2. \A kinds : Places(0, kinds) = {}
        BY DEF Places
    <2>3. \A s : Picked(s, {}) = <<>>
        BY FS_EmptySet DEF Picked
    <2>4. Conversions(stored) = Conversions(Storing(0))
        BY <1>1, <2>2, <2>3, StoringIs
    <2>5. num = Cardinality(Counted(stored))
        <3>1. Counted(stored) = {}
            BY <1>2 DEF Counted
        <3> QED BY <1>1, <3>1, FS_EmptySet
    <2>6. Others = Expected(0)
        <3>1. OthersOf(buf, stored, str) = {}
            BY <1>1 DEF OthersOf
        <3>2. Others = <<>>
            BY <2>3, <3>1, OthersIs
        <3>3. Matching(0) = <<>>
            BY <2>2, <2>3, MatchingIs
        <3>4. Expected(0) = [i \in {} |-> Last(<<>>[i].text)]
            BY <3>3 DEF Expected
        <3> QED BY <3>2, <3>4
    <2> QED BY <2>1, <2>4, <2>5, <2>6 DEF Matches
<1>5. FormatMatched
    BY <1>4, MatchedIs
<1> QED BY <1>3, <1>5 DEF MInv

LEMMA NextMInv == FormatsWellFormed /\ IInv /\ MInv /\ [Next]_vars => MInv'
<1> SUFFICES ASSUME FormatsWellFormed, IInv, MInv, [Next]_vars
             PROVE  MInv'
    OBVIOUS
<1>1. CASE Next /\ ~Returned
    BY <1>1, LiteralKeeps, SuppressKeeps, EndKeeps, CharactersKeep, StringKeeps, CountKeeps,
       PercentKeeps, NumberKeeps, TrailingCountKeeps DEF Next
<1>2. CASE UNCHANGED vars
    <2>1. Kept /\ NothingStored /\ str' = str /\ str \in Int /\ str <= str
        BY <1>2 DEF vars, Kept, NothingStored, IInv
    <2>2. Behind' /\ ValueRight'
        BY <2>1, NothingNew DEF MInv
    <2>3. FormatMatched'
        <3>1. CASE pc' # "loop" \/ ~Plain
            BY <2>1, <3>1, MatchedNot
        <3>2. CASE pc' = "loop" /\ Plain
            <4>1. PICK n : Matches(n)
                BY <1>2, <3>2, MatchedIs DEF MInv, vars
            <4>2. /\ items' = items /\ stored' = stored /\ num' = num /\ fmt' = fmt
                  /\ buf' = buf /\ str' = str
                BY <1>2 DEF vars
            <4>3. Others' = Others
                BY <4>2 DEF Others
            <4>4. Matches(n)'
                BY <4>1, <4>2, <4>3, SameItems DEF Matches
            <4> QED BY <4>4, MatchedThen
        <3> QED BY <3>1, <3>2
    <2> QED BY <2>2, <2>3 DEF MInv
<1> QED BY <1>1, <1>2 DEF Returned

--------------------------------------------------------------------------
(* The theorems.                                                           *)

(* The theorems.                                                           *)
\* The inductive invariant, whatever the input and the format.
THEOREM Invariance == Spec => []IInv
<1>1. IInv /\ [Next]_vars => IInv'
    BY NextIInv
<1> QED BY InitIInv, <1>1, PTL DEF Spec

\* The scan stays within its strings and stores what its types can hold, for
\* any format that has a conversion behind every h and l.
THEOREM Typing ==
    ASSUME QualifiersFollowed
    PROVE  Spec => []TypeOK
<1>1. IInv => TypeOK
    BY IInvImplies
<1> QED BY <1>1, Invariance, PTL

\* Every call of sscanf returns: each round but the last takes at least one
\* character of the format, and the format has no more than its length.
THEOREM Termination == Spec => RoundsEnd
<1>1. IInv /\ [Next]_vars => [pc' # pc \/ (fmt' > fmt /\ fmt' <= Len(format) + 1)]_vars
    BY NextIInv DEF Advances
<1> QED BY <1>1, Invariance, PTL DEF Spec, RoundsEnd

\* As long as a call of sscanf goes on, what it has stored and what it has
\* matched is what the passed part of the format asks for, in this order, and num
\* counts it: no conversion is skipped or done twice, and no character is lost.
THEOREM Agreement ==
    ASSUME FormatsWellFormed
    PROVE  Spec => []FormatMatched
<1>1. Init => IInv /\ MInv
    BY InitIInv, InitMInv
<1>2. IInv /\ MInv /\ [Next]_vars => IInv' /\ MInv'
    BY NextIInv, NextMInv
<1>3. MInv => FormatMatched
    BY DEF MInv
<1> QED BY <1>1, <1>2, <1>3, PTL DEF Spec

\* Every number that sscanf stores, of any length and any conversion, is the one
\* its text stands for, cut to the size of the argument it is stored to, except
\* an octal one: the parser, the sign, the prefix and the narrowing together.
THEOREM Values ==
    ASSUME FormatsWellFormed
    PROVE  Spec => []ValueRight
<1>1. Init => IInv /\ MInv
    BY InitIInv, InitMInv
<1>2. IInv /\ MInv /\ [Next]_vars => IInv' /\ MInv'
    BY NextIInv, NextMInv
<1>3. MInv => ValueRight
    BY DEF MInv
<1> QED BY <1>1, <1>2, <1>3, PTL DEF Spec
=============================================================================
