---------------------------- MODULE MCSendQueue -----------------------------
(* Instances of SendQueue for TLC: packet lists of three packets, of one   *)
(* list element each or fragments of one IP packet.                       *)
EXTENDS SendQueue

PassMixed == <<3, 1, 2>>
PassEqual == <<1, 1, 1>>

Single       == 1 .. 3
OneFragmented == {1}
=============================================================================
