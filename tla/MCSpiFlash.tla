---------------------------- MODULE MCSpiFlash ----------------------------
(* Two sectors of two pages of two one-bit bytes.                          *)
EXTENDS SpiFlash
CONSTANT b

MCBits == {b}
MCEraseAddrs == {0, 4}
BoundaryAddrs == {0, FlashBytes, FlashBytes + 1}
==========================================================================
