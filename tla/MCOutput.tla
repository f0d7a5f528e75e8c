------------------------------ MODULE MCOutput ------------------------------
(* Instances of Output for TLC: two single packets around an IP packet of  *)
(* two fragments.                                                          *)
EXTENDS Output, TLC

FourPackets   == <<1, 2, 1, 1>>
ThreeElements == {1, 2, 4}
SomeDelays    == (1 :> 0) @@ (2 :> 5) @@ (4 :> 1)
=============================================================================
