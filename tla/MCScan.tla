------------------------------- MODULE MCScan -------------------------------
(* A char holds 4 values, a short 8, an int 16, a long long 64: two digits   *)
(* overflow, and a field width of one digit does.                            *)
EXTENDS Scan

Text(chars) == BoundedSeq(chars, 4)

MCInputs == Text({"0", "9", "a", "x", "-", " ", "%"})

Item(text, conv, size) == [text |-> text, conv |-> conv, size |-> size]
D == Item(<<"%", "d">>, "d", IntSize)
U == Item(<<"%", "u">>, "u", IntSize)
X == Item(<<"%", "x">>, "x", IntSize)
I == Item(<<"%", "i">>, "i", IntSize)
LD == Item(<<"%", "L", "d">>, "d", LongLongSize)
ZU == Item(<<"%", "z", "u">>, "u", IntSize)
HD == Item(<<"%", "h", "d">>, "d", CharSize)
HHD == Item(<<"%", "h", "h", "d">>, "d", CharSize)
C == Item(<<"%", "c">>, "c", 0)
C3 == Item(<<"%", "3", "c">>, "c", 0)
C4 == Item(<<"%", "4", "c">>, "c", 0)
String == Item(<<"%", "s">>, "s", 0)
String2 == Item(<<"%", "2", "s">>, "s", 0)
String9 == Item(<<"%", "9", "s">>, "s", 0)
N == Item(<<"%", "n">>, "n", 0)
Suppressed == Item(<<"%", "*", "d">>, "*", 0)
Percent == Item(<<"%", "%">>, "%", 0)
Blank == Item(<<" ">>, "ws", 0)
Bad == Item(<<"%", "q">>, "bad", 0)
Lit(c) == Item(<<c>>, "=", 0)

MCFormats == {
    <<D, D>>, <<U, C>>, <<X, Lit("-"), X>>, <<I, Blank, I>>, <<LD, N, String>>,
    <<ZU, Percent, D>>, <<C3, U>>, <<C4>>, <<String2, X>>, <<String9, U>>, <<Suppressed, N, Blank, D>>,
    <<Lit("9"), Blank, Lit("a"), C>>, <<Blank, Percent, N, I>>, <<C, Bad, D>>,
    <<HD, X>>, <<HHD, N>>, <<D, Blank>>, <<>>}

ASSUME MCFormatsWellFormed == FormatsWellFormed

OctalInputs == Text({"0", "7", "8", " "})
OctalFormats == {<<Item(<<"%", "o">>, "o", IntSize)>>, <<I>>}
=============================================================================
