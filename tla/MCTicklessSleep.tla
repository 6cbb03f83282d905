-------------------------- MODULE MCTicklessSleep --------------------------
(* Four clocks to a tick, a 6-bit counter that holds 16 ticks, an 8-bit word *)
(* in which the reported time wraps at 32.  Of the response times one is too *)
(* short, two fit the counter, two do not, one does not fit the word, and of *)
(* two not even the ticks do: 258 of them are 2, 265 are 9.                  *)
EXTENDS TicklessSleep

ShortAndLongRequests == {3, 22, 60, 68, 160, 300, 1032, 1060}
============================================================================
