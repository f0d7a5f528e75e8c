----------------------------- MODULE IPFragment -----------------------------
(***************************************************************************)
(* cIPPacket::compile: an IP datagram (an L4 header and its payload) is cut *)
(* into as many Ethernet packets as the MTU needs.  Packets are compiled   *)
(* one after the other; automatic identifications are counted in a static  *)
(* member.  Lengths are in bytes and not scaled.                           *)
(***************************************************************************)
EXTENDS Integers, Sequences

CONSTANTS
  Mtus,           \* values of the MTU, of the interface or --mtu
  HeaderLens,     \* 20, 24 with the router alert option, 40 for IPv6
  L4HeaderLens,   \* lengths of the headers of UDP, TCP, ICMP, ...
  PayloadLens,
  UserIds,        \* identifications given in instructions
  VlanTags,       \* numbers of VLAN tags in the Ethernet header
  MaxLength,      \* 65535, the greatest length of a datagram
  IdWord,         \* 2^16: identifications are uint16_t
  MaxPackets      \* bound on the fragmented packets with an automatic id

(* execute accepts no MTU below 68; no L4 header is longer than TCP's.     *)
ASSUME FragmentAssumption ==
  /\ Mtus \subseteq {m \in Nat : m >= 68}
  /\ HeaderLens \subseteq {20, 24, 40}
  /\ L4HeaderLens \subseteq 0 .. 20
  /\ PayloadLens \subseteq Nat
  /\ UserIds \subseteq Nat
  /\ VlanTags \subseteq Nat
  /\ MaxLength \in Nat
  /\ IdWord \in Nat \ {0}
  /\ MaxPackets \in Nat

VARIABLES
  mtu,                 \* m_mtu
  nextIdentification,  \* cIPPacket::v4::nextIdentification
  pc,
  ipHeaderLen, l4headerLen, tags, total,  \* the datagram being compiled
  payloadLen,          \* payload bytes not copied yet
  payload,             \* payload bytes already copied: the read position
  fragCnt, n, offset, id,
  fragments,           \* the packets written so far
  autoIds              \* history: identifications chosen for fragmented packets

datagramVars == <<ipHeaderLen, l4headerLen, tags, total>>
loopVars == <<payloadLen, payload, n, offset, fragments>>
vars == <<mtu, nextIdentification, pc, datagramVars, loopVars, fragCnt, id, autoIds>>

(* Room for IP payload in a packet.                                        *)
Room == mtu - ipHeaderLen

IsIPv6(headerLen) == headerLen = 40

Init ==
  /\ mtu \in Mtus
  /\ nextIdentification = 1 % IdWord
  /\ pc = "idle"
  /\ ipHeaderLen = 20 /\ l4headerLen = 0 /\ tags = 0 /\ total = 0
  /\ payloadLen = 0 /\ payload = 0
  /\ fragCnt = 0 /\ n = 0 /\ offset = 0 /\ id = 0
  /\ fragments = <<>>
  /\ autoIds = <<>>

(* The number of packets needed for a datagram.                            *)
NotRoundedUp(len, room) == IF len < room THEN 1 ELSE len \div room
FragmentCount(len, room) == ((len - 1) \div room) + 1

KeepId == UNCHANGED nextIdentification
WideId == nextIdentification' = nextIdentification + 1
NextId == nextIdentification' = (nextIdentification + 1) % IdWord

(* No identification given: m_v4.hasId is false, m_v4.identification 0.    *)
NoId == -1

(* id: the user's, or an automatic one if there are several fragments.     *)
ChooseId(userId) ==
  \/ /\ fragCnt' > 1 /\ userId = NoId
     /\ id' = nextIdentification
     /\ NextId
     /\ autoIds' = Append(autoIds, id')
  \/ /\ fragCnt' <= 1 \/ userId # NoId
     /\ id' = IF userId = NoId THEN 0 ELSE userId
     /\ UNCHANGED <<nextIdentification, autoIds>>

(* The checks at the start.  Too long a datagram is an error, IPv6 packets *)
(* cannot be fragmented.                                                   *)
Begin(headerLen, l4, len, vlan, userId) ==
  /\ pc \in {"idle", "compiled"} /\ Len(autoIds) < MaxPackets
  /\ l4 + len > 0
  /\ ipHeaderLen' = headerLen /\ l4headerLen' = l4 /\ tags' = vlan /\ total' = l4 + len
  /\ payloadLen' = len /\ payload' = 0
  /\ n' = 0 /\ offset' = 0 /\ fragments' = <<>>
  /\ fragCnt' = FragmentCount(l4 + len, mtu - headerLen)
  /\ \/ /\ l4 + len + headerLen > MaxLength
        /\ pc' = "idle"
        /\ UNCHANGED <<nextIdentification, id, autoIds>>
     \/ /\ l4 + len + headerLen <= MaxLength
        /\ IsIPv6(headerLen) /\ fragCnt' > 1
        /\ pc' = "bug"
        /\ UNCHANGED <<nextIdentification, id, autoIds>>
     \/ /\ l4 + len + headerLen <= MaxLength
        /\ ~(IsIPv6(headerLen) /\ fragCnt' > 1)
        /\ pc' = "fragment"
        /\ ChooseId(userId)
  /\ UNCHANGED mtu

(* A raw IP packet without payload: l4headerLen + payloadLen - 1 wraps     *)
(* around, the count of fragments is a huge number and memory runs out.    *)
EmptyDatagram(l4, len) ==
  /\ pc \in {"idle", "compiled"} /\ l4 + len = 0
  /\ pc' = "bug"
  /\ UNCHANGED <<mtu, nextIdentification, datagramVars, loopVars, fragCnt, id, autoIds>>

(* What is left: the first packet also takes the L4 header.                *)
Left == (IF n = 0 THEN l4headerLen ELSE 0) + payloadLen

(* All packets but the last are filled to a multiple of eight bytes.       *)
EightBytes(len) == (len \div 8) * 8
FragLen ==
  LET len == IF Left + ipHeaderLen > mtu THEN Room ELSE Left
  IN  IF n + 1 # fragCnt THEN EightBytes(len) ELSE len

PayloadOffset(len) == offset + len - (IF n = 0 THEN l4headerLen ELSE 0)
NextOffset(len) == offset + len

(* cEthernetPacket holds an MTU, a MAC header and one VLAN tag.            *)
FitsEthernetPacket(len) == 14 + 4 * tags + ipHeaderLen + len <= mtu + 14 + 4

Fragment ==
  /\ pc = "fragment" /\ n < fragCnt
  /\ FitsEthernetPacket(FragLen)
  /\ fragments' = Append(fragments,
       [offset |-> offset,
        start  |-> IF n = 0 THEN 0 ELSE l4headerLen + payload,
        len    |-> FragLen,
        mf     |-> n + 1 # fragCnt,
        id     |-> id])
  /\ LET copied == FragLen - (IF n = 0 THEN l4headerLen ELSE 0) IN
     /\ payloadLen' = payloadLen - copied
     /\ payload' = payload + copied
  /\ offset' = NextOffset(FragLen)
  /\ n' = n + 1
  /\ UNCHANGED <<mtu, nextIdentification, pc, datagramVars, fragCnt, id, autoIds>>

(* checkPacketLength throws; the packet is given up.                       *)
TooLong ==
  /\ pc = "fragment" /\ n < fragCnt
  /\ ~FitsEthernetPacket(FragLen)
  /\ pc' = "idle"
  /\ UNCHANGED <<mtu, nextIdentification, datagramVars, loopVars, fragCnt, id, autoIds>>

Compiled ==
  /\ pc = "fragment" /\ n = fragCnt
  /\ pc' = "compiled"
  /\ UNCHANGED <<mtu, nextIdentification, datagramVars, loopVars, fragCnt, id, autoIds>>

Over == (pc = "bug" \/ Len(autoIds) = MaxPackets) /\ UNCHANGED vars

Next ==
  \/ \E headerLen \in HeaderLens, l4 \in L4HeaderLens, len \in PayloadLens,
        vlan \in VlanTags, userId \in UserIds \cup {NoId} :
        Begin(headerLen, l4, len, vlan, userId) \/ EmptyDatagram(l4, len)
  \/ Fragment \/ TooLong \/ Compiled \/ Over

Spec == Init /\ [][Next]_vars

-----------------------------------------------------------------------------
FragmentType == [offset : Nat, start : Nat, len : Nat, mf : BOOLEAN, id : Nat]

TypeOK ==
  /\ mtu \in Mtus
  /\ nextIdentification \in 0 .. IdWord - 1
  /\ pc \in {"idle", "fragment", "compiled", "bug"}
  /\ ipHeaderLen \in {20, 24, 40} /\ l4headerLen \in 0 .. 20
  /\ tags \in Nat /\ total \in Nat
  /\ payloadLen \in Nat /\ payload \in Nat
  /\ fragCnt \in Nat /\ n \in Nat /\ offset \in Nat /\ id \in Nat
  /\ fragments \in Seq(FragmentType)
  /\ autoIds \in Seq(Nat)

(* BUG_ON (offset % 8) in ipv4_header_with_router_alert_t::compile, and    *)
(* what a receiver needs: every fragment carries the bytes its header      *)
(* says, begins where the one before ended, is not empty, fits into the    *)
(* MTU, and the last one only has no more-fragments flag.                  *)
Contiguous ==
  \A i \in DOMAIN fragments :
    LET f == fragments[i] IN
    /\ f.offset % 8 = 0
    /\ f.start = f.offset
    /\ f.offset = IF i = 1 THEN 0 ELSE fragments[i - 1].offset + fragments[i - 1].len
    /\ f.len > 0 /\ f.len + ipHeaderLen <= mtu
    /\ f.mf <=> i < fragCnt

(* The loop's bookkeeping: read position, offset and what is left fit      *)
(* together, and what is left needs exactly the fragments still to come.   *)
(* Its upper bound is lost if a full fragment is shorter than the room.    *)
LoopInv ==
  pc = "fragment" =>
    /\ fragCnt >= 1
    /\ n = Len(fragments) /\ n <= fragCnt
    /\ n = 0 => offset = 0 /\ payload = 0 /\ l4headerLen + payloadLen = total
    /\ n > 0 => /\ l4headerLen + payload = offset
                /\ offset + payloadLen = total
                /\ offset = fragments[n].offset + fragments[n].len
    /\ n < fragCnt => offset % 8 = 0 /\ Left > (fragCnt - n - 1) * Room
    /\ Room % 8 = 0 => Left <= (fragCnt - n) * Room

(* The fragments are the whole datagram, if the room in a packet is a      *)
(* multiple of eight; the number of fragments is computed from the room,   *)
(* not from what is used of it (ippacket.cpp:174).                         *)
Complete ==
  (pc = "compiled" /\ Room % 8 = 0) =>
    fragments[Len(fragments)].offset + fragments[Len(fragments)].len = total

(* Fragmented packets that may be on their way at the same time differ in  *)
(* their identification, until the counter has gone through all its        *)
(* values.                                                                 *)
DistinctIds ==
  \A i, j \in DOMAIN autoIds :
    (i < j /\ j - i < IdWord) => autoIds[i] # autoIds[j]
=============================================================================
