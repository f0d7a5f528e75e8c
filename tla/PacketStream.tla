---------------------------- MODULE PacketStream ----------------------------
(***************************************************************************)
(* The stream of Ethernet packets that cOutput::operator<< hands to its    *)
(* backend.  A compiled cPacketData list is a sequence of list elements:   *)
(* a cEthernetPacket is one packet, a cIPPacket is one or more fragments.  *)
(* The list is walked Repeat times (0: until Ctrl+C).  Packets are         *)
(* numbered 1, 2, ... in the order of the walk; only their lengths and the *)
(* places where the code looks at the Ctrl+C flag matter: the flag is read *)
(* before every list element, never between the fragments of one element.  *)
(***************************************************************************)
EXTENDS Integers, Sequences

CONSTANTS
  Lengths,   \* Lengths[i]: bytes of the i-th Ethernet packet of one pass
  Heads,     \* indexes of one pass at which a list element begins
  Repeat,    \* m_repeat, the -l option; 0 means endless
  MaxPasses  \* bound on the passes of an endless walk

ASSUME StreamAssumption ==
  /\ Lengths \in Seq(Nat \ {0})
  /\ Heads \subseteq 1 .. Len(Lengths)
  /\ Len(Lengths) > 0 => 1 \in Heads
  /\ Repeat \in Nat
  /\ MaxPasses \in Nat

(* cPacketData::getPacketCnt and getTotalPacketBytes, both of one pass.    *)
PacketCnt == Len(Lengths)

BytesUpTo[i \in Nat] == IF i = 0 THEN 0 ELSE BytesUpTo[i - 1] + Lengths[i]

TotalPacketBytes == BytesUpTo[Len(Lengths)]

(* The n-th packet of the walk is packet PassIndex(n) of its pass.         *)
PassIndex(n) == ((n - 1) % Len(Lengths)) + 1

LengthOf(n) == Lengths[PassIndex(n)]

IsHead(n) == PassIndex(n) \in Heads

(* Packets the walk can emit; for an endless walk this is only the bound.  *)
Total == Len(Lengths) * (IF Repeat = 0 THEN MaxPasses ELSE Repeat)
=============================================================================
