----------------------------- MODULE MCResolver -----------------------------
(* Instances of Resolver for TLC: two hosts and a multicast group.         *)
EXTENDS Resolver, TLC

CONSTANTS hostA, hostB, macA, macB

MacTable == hostA :> macA @@ hostB :> macB
=============================================================================
