--------------------------- MODULE Resolver_proofs ---------------------------
(***************************************************************************)
(* Theorems about the filter and the resolver, for every packet list,      *)
(* every set of hosts, every timeout and whatever the network carries.     *)
(***************************************************************************)
EXTENDS Resolver, TLAPS

-----------------------------------------------------------------------------
(* The inductive invariant.                                                *)

Packet == [type : Types, dip : Ips \cup {Group}, dmac : Seq(Macs)]

(* The fragments of a packet have the same destination.                    *)
OneDestination(packet) ==
  /\ Len(packet.dmac) > 0
  /\ \A k \in DOMAIN packet.dmac : packet.dmac[k] = packet.dmac[1]

(* A packet as the parser leaves it: what has no address can be asked for, *)
(* or is no IPv4 packet.                                                   *)
AsCompiled(packet) ==
  \/ packet.dmac[1] = Given
  \/ packet.dmac[1] = Multicast /\ packet.dip = Group
  \/ /\ packet.dmac[1] = NoMac /\ packet.type # "eth"
     /\ packet.type = "ip4" => packet.dip \in Ips

(* A packet that goes where it is meant to go.                             *)
Directed(packet) ==
  packet.dmac[1] \in {Given, IF packet.dip = Group THEN Multicast ELSE MacOf[packet.dip]}

ListInv ==
  /\ packets \in Seq(Packet)
  /\ \A i \in DOMAIN packets : OneDestination(packets[i])
  /\ pc \in {"open", "filter"} => p = 1 /\ \A i \in DOMAIN packets : AsCompiled(packets[i])
  /\ pc \in {"walk", "request", "recv", "resolved"} =>
       \A i \in DOMAIN packets :
         IF forcedDMAC THEN packets[i].dmac[1] = Forced
         ELSE IF i < p THEN Directed(packets[i]) ELSE AsCompiled(packets[i])
  /\ pc = "resolved" => p > Len(packets)

(* The cache holds what the hosts say of themselves.                       *)
CacheInv == \A ip \in Ips : cache[ip] \in {NoMac, MacOf[ip]}

(* The resolver asks for an address that is not in the cache, and counts   *)
(* its requests.                                                           *)
AskingInv ==
  /\ pc \in {"request", "recv"} =>
       /\ p <= Len(packets) /\ Current.type = "ip4" /\ Current.dmac[1] = NoMac
       /\ cache[Current.dip] = NoMac
  /\ pc = "recv" => attempt < 2
  /\ \A ip \in Ips :
       IF pc \in {"request", "recv"} /\ ip = Current.dip
       THEN asked[ip] = attempt + (IF pc = "recv" THEN 1 ELSE 0)
       ELSE asked[ip] <= 2 /\ (pc \in {"open", "filter", "walk", "request", "recv"}
                                 /\ cache[ip] = NoMac => asked[ip] = 0)

(* An answer that came in time is still in the receive buffer, and the     *)
(* clock stands until it is read.                                          *)
AnswerInv ==
  /\ pc = "recv" /\ inTime =>
       elapsed < Timeout /\ \E i \in DOMAIN rx : Answers(rx[i])
  /\ pc \in {"request", "timeout"} => ~inTime

(* The interface is open unless the output is a file.                      *)
OpenInv ==
  /\ pc \in {"filter", "walk", "request", "recv"} /\ ~toFile => ifcOpen
  /\ pc = "bug" => toFile \/ ~addressed \/ "ip6" \in Types

ResolveInv == TypeOK /\ ListInv /\ CacheInv /\ AskingInv /\ AnswerInv /\ OpenInv

-----------------------------------------------------------------------------
(* Lemmas about packets.                                                   *)

(* What the parser makes of an instruction.                                *)
LEMMA CompiledPackets ==
  ASSUME NEW c \in Compiled
  PROVE  c \in Packet /\ OneDestination(c) /\ AsCompiled(c)
<1>1. ASSUME NEW t \in Types, NEW d \in Ips \cup {Group}, NEW mac \in Macs,
             c = [type |-> t, dip |-> d, dmac |-> Fragments(t, mac)]
      PROVE  c \in Packet /\ OneDestination(c) /\ c.dmac[1] = mac
  <2>1. Fragments(t, mac) \in Seq(Macs) /\ Len(Fragments(t, mac)) > 0
    BY DEF Fragments
  <2>2. \A k \in DOMAIN Fragments(t, mac) : Fragments(t, mac)[k] = mac
    <3>1. CASE t = "ip4"
      <4>1. Fragments(t, mac) = <<mac, mac>>
        BY <3>1 DEF Fragments
      <4> QED BY <4>1
    <3>2. CASE t # "ip4"
      <4>1. Fragments(t, mac) = <<mac>>
        BY <3>2 DEF Fragments
      <4> QED BY <4>1
    <3> QED BY <3>1, <3>2
  <2>3. 1 \in DOMAIN Fragments(t, mac)
    BY <2>1
  <2> QED BY <1>1, <2>1, <2>2, <2>3 DEF Packet, OneDestination
<1>2. CASE \E t \in Types, d \in Ips \cup {Group} :
             c = [type |-> t, dip |-> d, dmac |-> Fragments(t, Given)]
  <2>1. Given \in Macs
    BY DEF Macs
  <2> QED BY <1>1, <1>2, <2>1 DEF AsCompiled
<1>3. CASE \E td \in {x \in Types \X (Ips \cup {Group}) : MayOmit(x[1], x[2])} :
             c = [type |-> td[1], dip |-> td[2],
                  dmac |-> Fragments(td[1], Derived(td[1], td[2]))]
  <2>1. PICK td \in Types \X (Ips \cup {Group}) :
          /\ MayOmit(td[1], td[2])
          /\ c = [type |-> td[1], dip |-> td[2],
                  dmac |-> Fragments(td[1], Derived(td[1], td[2]))]
    BY <1>3
  <2>2. /\ Derived(td[1], td[2]) \in Macs /\ td[1] \in Types
        /\ td[2] \in Ips \cup {Group} /\ td[1] # "eth"
    BY <2>1 DEF Derived, Macs, MayOmit
  <2>3. c \in Packet /\ OneDestination(c) /\ c.dmac[1] = Derived(td[1], td[2])
    BY <1>1, <2>1, <2>2
  <2>4. c.type = td[1] /\ c.dip = td[2]
    BY <2>1
  <2> QED BY <2>2, <2>3, <2>4 DEF AsCompiled, Derived
<1> QED BY <1>2, <1>3 DEF Compiled

(* setDestMac gives all fragments the address and changes nothing else.    *)
LEMMA AllFragmentsSet ==
  ASSUME NEW c \in Packet, OneDestination(c), NEW mac \in Macs
  PROVE  /\ SetDestMac(c, mac) \in Packet /\ OneDestination(SetDestMac(c, mac))
         /\ SetDestMac(c, mac).dmac[1] = mac
         /\ SetDestMac(c, mac).type = c.type /\ SetDestMac(c, mac).dip = c.dip
<1> DEFINE f == [i \in DOMAIN c.dmac |-> mac]
<1>1. c.dmac \in Seq(Macs) /\ Len(c.dmac) \in Nat /\ Len(c.dmac) > 0
        /\ DOMAIN c.dmac = 1 .. Len(c.dmac)
  BY DEF Packet, OneDestination
<1>2. f \in Seq(Macs) /\ Len(f) = Len(c.dmac) /\ DOMAIN f = DOMAIN c.dmac
  BY <1>1
<1>3. 1 \in DOMAIN f /\ \A k \in DOMAIN f : f[k] = mac
  BY <1>1
<1> HIDE DEF f
<1>4. SetDestMac(c, mac) = [c EXCEPT !.dmac = f]
  BY DEF SetDestMac, f
<1> QED BY <1>1, <1>2, <1>3, <1>4 DEF Packet, OneDestination

(* What TypeOK says of the packets.                                        *)
LEMMA PacketTypes ==
  ASSUME NEW s \in Seq(Packet)
  PROVE  \A i \in DOMAIN s :
           s[i].type \in Types /\ s[i].dip \in Ips \cup {Group}
             /\ \A k \in DOMAIN s[i].dmac : s[i].dmac[k] \in Macs
<1> SUFFICES ASSUME NEW i \in DOMAIN s
             PROVE  s[i].type \in Types /\ s[i].dip \in Ips \cup {Group}
                      /\ \A k \in DOMAIN s[i].dmac : s[i].dmac[k] \in Macs
  OBVIOUS
<1>1. s[i] \in Packet
  OBVIOUS
<1>2. s[i].type \in Types /\ s[i].dip \in Ips \cup {Group} /\ s[i].dmac \in Seq(Macs)
  BY <1>1 DEF Packet
<1> DEFINE m == s[i].dmac
<1>3. m \in Seq(Macs)
  BY <1>2
<1> HIDE DEF m
<1>4. \A k \in DOMAIN m : m[k] \in Macs
  BY <1>3
<1> QED BY <1>2, <1>4 DEF m

-----------------------------------------------------------------------------
(* The steps.                                                              *)

(* The resolver before its first step.                                     *)
LEMMA ResolveInit == Init => ResolveInv
<1> SUFFICES ASSUME Init PROVE ResolveInv
  OBVIOUS
<1>1. PICK n \in 1 .. MaxPackets : packets \in [1 .. n -> Compiled]
  BY DEF Init
<1>2. n \in Nat /\ n > 0
  BY <1>1, ResolverAssumption
<1>3. packets \in Seq(Packet) /\ Len(packets) = n /\ DOMAIN packets = 1 .. n
  <2>1. packets \in [1 .. n -> Packet]
    BY <1>1, CompiledPackets
  <2> QED BY <1>2, <2>1
<1>4. \A i \in DOMAIN packets : OneDestination(packets[i]) /\ AsCompiled(packets[i])
  BY <1>1, CompiledPackets
<1>5. ListInv
  BY <1>3, <1>4 DEF Init, ListInv
<1>6. TypeOK
  <2>1. \A i \in DOMAIN packets :
       packets[i].type \in Types /\ packets[i].dip \in Ips \cup {Group}
         /\ \A k \in DOMAIN packets[i].dmac : packets[i].dmac[k] \in Macs
    BY <1>3, PacketTypes
  <2>2. ifcOpen \in BOOLEAN /\ inTime \in BOOLEAN
    BY DEF Init
  <2>3. rx \in Seq(Frames) /\ Len(packets) \in Nat /\ NoMac \in Macs
    BY <1>2, <1>3 DEF Init, Macs
  <2> QED BY <2>1, <2>2, <2>3, ResolverAssumption DEF Init, TypeOK, MaxElapsed
<1>7. CacheInv /\ AskingInv /\ AnswerInv /\ OpenInv
  BY DEF Init, CacheInv, AskingInv, AnswerInv, OpenInv
<1> QED BY <1>5, <1>6, <1>7 DEF ResolveInv

(* Opening the interface.                                                  *)
LEMMA OpenStep == ResolveInv /\ Open => ResolveInv'
<1> SUFFICES ASSUME ResolveInv, Open PROVE ResolveInv'
  OBVIOUS
<1> USE DEF optionVars, arpVars
<1>1. pc = "open" /\ pc' \in {"filter", "failed"} /\ ifcOpen' \in BOOLEAN
        /\ (pc' = "filter" => toFile \/ ifcOpen')
  BY DEF Open, ResolveInv, TypeOK
<1>2. UNCHANGED <<optionVars, packets, p, cache, arpVars, asked, inTime>>
  BY DEF Open
<1>3. TypeOK'
  BY <1>1, <1>2 DEF ResolveInv, TypeOK
<1>4. ListInv'
  BY <1>1, <1>2 DEF ResolveInv, ListInv
<1>5. CacheInv' /\ AskingInv' /\ AnswerInv' /\ OpenInv'
  BY <1>1, <1>2 DEF ResolveInv, CacheInv, AskingInv, AnswerInv, OpenInv
<1> QED BY <1>3, <1>4, <1>5 DEF ResolveInv

(* The filter overwrites all destinations, or none.                        *)
LEMMA FilterStep == ResolveInv /\ Filter => ResolveInv'
<1> SUFFICES ASSUME ResolveInv, Filter PROVE ResolveInv'
  OBVIOUS
<1> USE DEF optionVars, arpVars
<1>1. pc = "filter" /\ pc' = "walk"
        /\ UNCHANGED <<optionVars, ifcOpen, p, cache, arpVars, asked, inTime>>
  BY DEF Filter
<1>2. /\ packets \in Seq(Packet) /\ p = 1 /\ Len(packets) \in Nat
      /\ DOMAIN packets = 1 .. Len(packets)
      /\ \A i \in DOMAIN packets : OneDestination(packets[i]) /\ AsCompiled(packets[i])
  BY <1>1 DEF ResolveInv, ListInv
<1>3. ListInv' /\ Len(packets') = Len(packets)
  <2>1. CASE forcedDMAC
    <3> DEFINE f == [i \in DOMAIN packets |-> SetDestMac(packets[i], Forced)]
    <3>1. packets' = f
      BY <2>1 DEF Filter
    <3>2. ASSUME NEW i \in DOMAIN packets
          PROVE  f[i] \in Packet /\ OneDestination(f[i]) /\ f[i].dmac[1] = Forced
      <4>1. Forced \in Macs /\ packets[i] \in Packet
        BY <1>2 DEF Macs
      <4> QED BY <1>2, <4>1, AllFragmentsSet
    <3>3. DOMAIN f = 1 .. Len(packets)
      BY <1>2
    <3>4. f \in [1 .. Len(packets) -> Packet]
      BY <1>2, <3>2
    <3> HIDE DEF f
    <3>5. f \in Seq(Packet) /\ Len(f) = Len(packets)
      BY <1>2, <3>4
    <3> QED BY <1>1, <1>2, <2>1, <3>1, <3>2, <3>3, <3>5 DEF ListInv
  <2>2. CASE ~forcedDMAC
    <3>1. packets' = packets
      BY <2>2 DEF Filter
    <3> QED BY <1>1, <1>2, <2>2, <3>1 DEF ListInv
  <2> QED BY <2>1, <2>2
<1>4. TypeOK'
  <2>1. (\A i \in DOMAIN packets :
           packets[i].type \in Types /\ packets[i].dip \in Ips \cup {Group}
             /\ \A k \in DOMAIN packets[i].dmac : packets[i].dmac[k] \in Macs)'
    BY <1>3, PacketTypes DEF ListInv
  <2> QED BY <1>1, <1>3, <2>1 DEF ResolveInv, TypeOK
<1>5. CacheInv' /\ AskingInv' /\ AnswerInv' /\ OpenInv'
  BY <1>1 DEF ResolveInv, CacheInv, AskingInv, AnswerInv, OpenInv
<1> QED BY <1>3, <1>4, <1>5 DEF ResolveInv

(* The packet the resolver is about to set, or to skip.                    *)
LEMMA CurrentPacket ==
  ASSUME ResolveInv, pc \in {"walk", "request", "recv"}, p <= Len(packets)
  PROVE  /\ p \in DOMAIN packets /\ Current \in Packet /\ OneDestination(Current)
         /\ HasDestMac(Current) <=> Current.dmac[1] # NoMac
         /\ forcedDMAC => Current.dmac[1] = Forced
         /\ ~forcedDMAC => AsCompiled(Current)
         /\ Current.dmac[1] = NoMac => ~forcedDMAC /\ Current.type # "eth"
         /\ Current.dmac[1] = NoMac /\ Current.type = "ip4" => Current.dip \in Ips
         /\ Current.type \in {"eth", "ip4", "ip6"}
<1>1. /\ packets \in Seq(Packet) /\ p \in Nat \ {0} /\ Len(packets) \in Nat
      /\ DOMAIN packets = 1 .. Len(packets)
  BY DEF ResolveInv, ListInv, TypeOK
<1>2. p \in DOMAIN packets /\ Current \in Packet
  BY <1>1 DEF Current
<1>3. OneDestination(Current) /\ (forcedDMAC => Current.dmac[1] = Forced)
        /\ (~forcedDMAC => AsCompiled(Current))
  BY <1>1, <1>2 DEF Current, ResolveInv, ListInv
<1>4. Current.type \in {"eth", "ip4", "ip6"}
  BY <1>2, ResolverAssumption DEF Packet
<1> QED BY <1>2, <1>3, <1>4, ResolverAssumption DEF HasDestMac, AsCompiled

(* Setting the destination of the packet and going on to the next one.     *)
LEMMA AssignList ==
  ASSUME ResolveInv, pc \in {"walk", "recv"}, p <= Len(packets), Current.type = "ip4",
         Current.dmac[1] = NoMac, Assign(MacOf[Current.dip]), UNCHANGED forcedDMAC
  PROVE  ListInv' /\ Len(packets') = Len(packets) /\ p' \in 1 .. Len(packets') + 1
<1>0. /\ p \in DOMAIN packets /\ Current \in Packet /\ OneDestination(Current)
      /\ Current.dip \in Ips /\ ~forcedDMAC
  BY CurrentPacket
<1>1. /\ packets \in Seq(Packet) /\ p \in Nat \ {0} /\ Len(packets) \in Nat
      /\ DOMAIN packets = 1 .. Len(packets)
      /\ \A i \in DOMAIN packets : OneDestination(packets[i])
      /\ \A i \in DOMAIN packets :
            IF i < p THEN Directed(packets[i]) ELSE AsCompiled(packets[i])
  BY <1>0 DEF ResolveInv, ListInv, TypeOK
<1> DEFINE c == SetDestMac(Current, MacOf[Current.dip])
<1>2. /\ c \in Packet /\ OneDestination(c) /\ c.dmac[1] = MacOf[Current.dip]
      /\ c.dip = Current.dip
  BY <1>0, AllFragmentsSet DEF Macs
<1>3. Directed(c)
  BY <1>0, <1>2, ResolverAssumption DEF Directed
<1>4. packets' = [packets EXCEPT ![p] = c] /\ p' = p + 1 /\ pc' = "walk"
  BY DEF Assign, Current
<1> HIDE DEF c
<1>5. packets' \in Seq(Packet) /\ Len(packets') = Len(packets) /\ DOMAIN packets' = DOMAIN packets
  BY <1>0, <1>1, <1>2, <1>4
<1>6. ASSUME NEW i \in DOMAIN packets
      PROVE  /\ OneDestination(packets'[i])
             /\ IF i < p' THEN Directed(packets'[i]) ELSE AsCompiled(packets'[i])
  <2>1. CASE i = p
    BY <1>0, <1>1, <1>2, <1>3, <1>4, <2>1
  <2>2. CASE i # p
    <3>1. packets'[i] = packets[i] /\ (i < p' <=> i < p)
      BY <1>1, <1>4, <2>2
    <3> QED BY <1>1, <3>1
  <2> QED BY <2>1, <2>2
<1>7. p' \in 1 .. Len(packets') + 1
  BY <1>0, <1>1, <1>4, <1>5
<1> QED BY <1>0, <1>4, <1>5, <1>6, <1>7 DEF ListInv

(* The walk, where nothing is asked for.                                   *)
LEMMA WalkStep == ResolveInv /\ (EndOfList \/ Skip \/ NotIPv4) => ResolveInv'
<1> SUFFICES ASSUME ResolveInv, EndOfList \/ Skip \/ NotIPv4 PROVE ResolveInv'
  OBVIOUS
<1> USE DEF optionVars, arpVars
<1>1. /\ pc = "walk" /\ UNCHANGED <<optionVars, packets, ifcOpen, cache, arpVars, asked, inTime>>
      /\ \/ pc' = "resolved" /\ p' = p /\ p > Len(packets)
         \/ pc' = "walk" /\ p' = p + 1 /\ p <= Len(packets)
                /\ (Current.type = "eth" \/ HasDestMac(Current))
         \/ pc' = "bug" /\ p' = p /\ p <= Len(packets) /\ Current.type = "ip6"
  BY DEF EndOfList, Skip, NotIPv4, Unresolved
<1>2. p \in 1 .. Len(packets) + 1 /\ Len(packets) \in Nat /\ packets \in Seq(Packet)
        /\ DOMAIN packets = 1 .. Len(packets)
  BY DEF ResolveInv, TypeOK, ListInv
<1>3. TypeOK'
  <2>1. p' \in 1 .. Len(packets) + 1
    BY <1>1, <1>2
  <2> QED BY <1>1, <2>1 DEF ResolveInv, TypeOK
<1>4. ListInv'
  <2>1. CASE p' = p
    BY <1>1, <2>1 DEF ResolveInv, ListInv
  <2>2. CASE pc' = "walk" /\ p' = p + 1 /\ p <= Len(packets)
               /\ (Current.type = "eth" \/ HasDestMac(Current))
    <3>1. ~forcedDMAC => Directed(Current)
      BY <1>1, <2>2, CurrentPacket DEF AsCompiled, Directed
    <3>2. ASSUME NEW i \in DOMAIN packets, ~forcedDMAC
          PROVE  IF i < p' THEN Directed(packets[i]) ELSE AsCompiled(packets[i])
      <4>1. i = p \/ (i < p' <=> i < p)
        BY <1>2, <2>2
      <4>2. CASE i = p
        BY <1>2, <2>2, <3>1, <3>2, <4>2 DEF Current
      <4>3. CASE i < p' <=> i < p
        BY <1>1, <3>2, <4>3 DEF ResolveInv, ListInv
      <4> QED BY <4>1, <4>2, <4>3
    <3> QED BY <1>1, <2>2, <3>2 DEF ResolveInv, ListInv
  <2> QED BY <1>1, <2>1, <2>2
<1>5. CacheInv' /\ AskingInv' /\ AnswerInv'
  BY <1>1 DEF ResolveInv, CacheInv, AskingInv, AnswerInv
<1>6. OpenInv'
  <2>1. pc' = "bug" => "ip6" \in Types
    BY <1>1, CurrentPacket DEF Packet
  <2> QED BY <1>1, <2>1 DEF ResolveInv, OpenInv
<1> QED BY <1>3, <1>4, <1>5, <1>6 DEF ResolveInv

(* The types of a list that the resolver changed.                          *)
LEMMA ListTypes ==
  ASSUME ListInv'
  PROVE  (\A i \in DOMAIN packets :
            packets[i].type \in Types /\ packets[i].dip \in Ips \cup {Group}
              /\ \A k \in DOMAIN packets[i].dmac : packets[i].dmac[k] \in Macs)'
BY PacketTypes DEF ListInv

(* The address is in the cache.                                            *)
LEMMA FromCacheStep == ResolveInv /\ FromCache => ResolveInv'
<1> SUFFICES ASSUME ResolveInv, FromCache PROVE ResolveInv'
  OBVIOUS
<1> USE DEF optionVars, arpVars
<1>1. /\ pc = "walk" /\ p <= Len(packets) /\ Current.type = "ip4" /\ ~HasDestMac(Current)
      /\ cache[Current.dip] # NoMac /\ Assign(cache[Current.dip]) /\ pc' = "walk"
      /\ UNCHANGED <<optionVars, ifcOpen, cache, arpVars, asked, inTime>>
  BY DEF FromCache, Unresolved, Assign
<1>2. Current.dmac[1] = NoMac /\ Current.dip \in Ips
  BY <1>1, CurrentPacket
<1>3. cache[Current.dip] = MacOf[Current.dip]
  BY <1>1, <1>2 DEF ResolveInv, CacheInv
<1>4. ListInv' /\ Len(packets') = Len(packets) /\ p' \in 1 .. Len(packets') + 1
  BY <1>1, <1>2, <1>3, AssignList
<1>5. TypeOK'
  BY <1>1, <1>4, ListTypes DEF ResolveInv, TypeOK
<1>6. CacheInv' /\ AskingInv' /\ AnswerInv' /\ OpenInv'
  BY <1>1 DEF ResolveInv, CacheInv, AskingInv, AnswerInv, OpenInv
<1> QED BY <1>4, <1>5, <1>6 DEF ResolveInv

(* The steps that do not touch the list.                                   *)
LEMMA ListKept ==
  ASSUME ResolveInv, pc \in {"walk", "request", "recv"},
         pc' \in {"walk", "request", "recv", "failed", "timeout", "bug"},
         UNCHANGED <<optionVars, packets, p>>
  PROVE  ListInv'
BY DEF ResolveInv, ListInv, optionVars

(* A socket is opened to ask for an address that is not in the cache.      *)
LEMMA OpenSocketStep == ResolveInv /\ OpenSocket => ResolveInv'
<1> SUFFICES ASSUME ResolveInv, OpenSocket PROVE ResolveInv'
  OBVIOUS
<1> USE DEF optionVars, arpVars
<1>1. /\ pc = "walk" /\ p <= Len(packets) /\ Current.type = "ip4" /\ ~HasDestMac(Current)
      /\ cache[Current.dip] = NoMac /\ attempt' = 0 /\ rx' = <<>> /\ burst' = 0
      /\ inTime' = FALSE
      /\ UNCHANGED <<optionVars, packets, ifcOpen, p, cache, elapsed, waited, asked>>
      /\ \/ pc' = "bug" /\ ~(ifcOpen /\ addressed)
         \/ pc' \in {"request", "failed"}
  BY DEF OpenSocket, Unresolved
<1>2. Current.dmac[1] = NoMac /\ Current.dip \in Ips /\ Current' = Current
  BY <1>1, CurrentPacket DEF Current
<1>3. ListInv'
  BY <1>1, ListKept
<1>4. TypeOK'
  <2>1. burst' \in 0 .. MaxBurst /\ attempt' \in 0 .. 2
    BY <1>1, ResolverAssumption
  <2>2. inTime' \in BOOLEAN
    BY <1>1
  <2>3. rx' \in Seq(Frames)
    BY <1>1
  <2> QED BY <1>1, <2>1, <2>2, <2>3 DEF ResolveInv, TypeOK
<1>5. AskingInv'
  <2>1. asked[Current.dip] = 0
    BY <1>1, <1>2 DEF ResolveInv, AskingInv
  <2> QED BY <1>1, <1>2, <2>1 DEF ResolveInv, AskingInv
<1>6. CacheInv' /\ AnswerInv' /\ OpenInv'
  BY <1>1 DEF ResolveInv, CacheInv, AnswerInv, OpenInv
<1> QED BY <1>3, <1>4, <1>5, <1>6 DEF ResolveInv

(* A request is sent, or the resolver gives up.                            *)
LEMMA RequestStep == ResolveInv /\ (Request \/ Unreachable) => ResolveInv'
<1> SUFFICES ASSUME ResolveInv, Request \/ Unreachable PROVE ResolveInv'
  OBVIOUS
<1> USE DEF optionVars, arpVars
<1>1. /\ pc = "request" /\ pc' \in {"recv", "failed", "timeout"}
      /\ UNCHANGED <<optionVars, packets, ifcOpen, p, cache, attempt, rx, burst, inTime>>
      /\ pc' = "recv" => attempt < 2
      /\ asked' = IF pc' = "recv" THEN [asked EXCEPT ![Current.dip] = @ + 1] ELSE asked
      /\ (elapsed' = 0 /\ waited' = 0) \/ UNCHANGED <<elapsed, waited>>
  BY DEF Request, Unreachable
<1>2. /\ p <= Len(packets) /\ Current.type = "ip4" /\ Current.dmac[1] = NoMac
      /\ cache[Current.dip] = NoMac /\ asked[Current.dip] = attempt
      /\ attempt \in 0 .. 2 /\ asked \in [Ips -> Nat] /\ Current.dip \in Ips
      /\ Current' = Current
  <2>1. /\ p <= Len(packets) /\ Current.type = "ip4" /\ Current.dmac[1] = NoMac
        /\ cache[Current.dip] = NoMac
    BY <1>1 DEF ResolveInv, AskingInv
  <2>2. Current.dip \in Ips
    BY <1>1, <2>1, CurrentPacket
  <2> QED BY <1>1, <2>1, <2>2 DEF ResolveInv, AskingInv, TypeOK, Current
<1>3. ListInv'
  BY <1>1, ListKept
<1>4. TypeOK'
  <2>1. asked' \in [Ips -> Nat]
    BY <1>1, <1>2
  <2>2. elapsed' \in 0 .. MaxElapsed /\ waited' \in 0 .. Timeout
    BY <1>1, ResolverAssumption DEF ResolveInv, TypeOK, MaxElapsed
  <2> QED BY <1>1, <2>1, <2>2 DEF ResolveInv, TypeOK
<1>5. AskingInv'
  <2>1. pc' = "recv" => asked'[Current.dip] = attempt + 1
    BY <1>1, <1>2
  <2>2. \A ip \in Ips : ip # Current.dip => asked'[ip] = asked[ip]
    BY <1>1, <1>2
  <2>3. pc' # "recv" => asked'[Current.dip] <= 2
    BY <1>1, <1>2
  <2> QED BY <1>1, <1>2, <2>1, <2>2, <2>3 DEF ResolveInv, AskingInv
<1>6. CacheInv' /\ AnswerInv' /\ OpenInv'
  BY <1>1 DEF ResolveInv, CacheInv, AnswerInv, OpenInv
<1> QED BY <1>3, <1>4, <1>5, <1>6 DEF ResolveInv

(* A frame arrives.                                                        *)
LEMMA ArriveStep ==
  ASSUME ResolveInv, NEW frame \in Frames, Arrive(frame)
  PROVE  ResolveInv'
<1> USE DEF optionVars, arpVars
<1>1. /\ pc = "recv" /\ pc' = "recv" /\ burst < MaxBurst
      /\ rx' = Append(rx, frame) /\ burst' = burst + 1
      /\ inTime' = (inTime \/ (Answers(frame) /\ elapsed < Timeout))
      /\ UNCHANGED <<optionVars, packets, pc, ifcOpen, p, cache, attempt, elapsed, waited, asked>>
  BY DEF Arrive, Answers
<1>2. Current' = Current
  BY <1>1 DEF Current
<1>3. ListInv'
  BY <1>1, ListKept
<1>4. rx \in Seq(Frames) /\ rx' \in Seq(Frames)
  BY <1>1 DEF ResolveInv, TypeOK
<1>5. TypeOK'
  <2>1. burst' \in 0 .. MaxBurst
    BY <1>1, ResolverAssumption DEF ResolveInv, TypeOK
  <2>2. inTime' \in BOOLEAN
    BY <1>1
  <2> QED BY <1>1, <1>4, <2>1, <2>2 DEF ResolveInv, TypeOK
<1>6. AnswerInv'
  <2> SUFFICES ASSUME inTime'
               PROVE  elapsed < Timeout /\ (\E i \in DOMAIN rx : Answers(rx[i]))'
    BY <1>1 DEF AnswerInv
  <2>1. CASE inTime
    <3>1. elapsed < Timeout /\ \E i \in DOMAIN rx : Answers(rx[i])
      BY <1>1, <2>1 DEF ResolveInv, AnswerInv
    <3>2. PICK i \in DOMAIN rx : Answers(rx[i])
      BY <3>1
    <3>3. i \in DOMAIN rx' /\ rx'[i] = rx[i]
      BY <1>1, <1>4
    <3> QED BY <1>2, <3>1, <3>2, <3>3 DEF Answers
  <2>2. CASE Answers(frame) /\ elapsed < Timeout
    <3>1. Len(rx) + 1 \in DOMAIN rx' /\ rx'[Len(rx) + 1] = frame
      BY <1>1, <1>4
    <3> QED BY <1>2, <2>2, <3>1 DEF Answers
  <2> QED BY <1>1, <2>1, <2>2
<1>7. CacheInv' /\ AskingInv' /\ OpenInv'
  BY <1>1, <1>2 DEF ResolveInv, CacheInv, AskingInv, OpenInv
<1> QED BY <1>3, <1>5, <1>6, <1>7 DEF ResolveInv

(* Time passes while recv waits.                                           *)
LEMMA TickStep == ResolveInv /\ Tick => ResolveInv'
<1> SUFFICES ASSUME ResolveInv, Tick PROVE ResolveInv'
  OBVIOUS
<1> USE DEF optionVars, arpVars
<1>1. /\ pc = "recv" /\ pc' = "recv" /\ rx = <<>> /\ waited < Timeout
      /\ elapsed' = (IF elapsed < MaxElapsed THEN elapsed + 1 ELSE elapsed)
      /\ waited' = waited + 1 /\ burst' = 0
      /\ UNCHANGED <<optionVars, packets, pc, ifcOpen, p, cache, attempt, rx, asked, inTime>>
  BY DEF Tick
<1>2. Current' = Current
  BY <1>1 DEF Current
<1>3. ListInv'
  BY <1>1, ListKept
<1>4. TypeOK'
  <2>1. elapsed' \in 0 .. MaxElapsed /\ waited' \in 0 .. Timeout /\ burst' \in 0 .. MaxBurst
    BY <1>1, ResolverAssumption DEF ResolveInv, TypeOK, MaxElapsed
  <2> QED BY <1>1, <2>1 DEF ResolveInv, TypeOK
<1>5. AnswerInv'
  <2>1. ~inTime
    BY <1>1 DEF ResolveInv, AnswerInv
  <2> QED BY <1>1, <2>1 DEF AnswerInv
<1>6. CacheInv' /\ AskingInv' /\ OpenInv'
  BY <1>1, <1>2 DEF ResolveInv, CacheInv, AskingInv, OpenInv
<1> QED BY <1>3, <1>4, <1>5, <1>6 DEF ResolveInv

(* The answer: it is kept in the cache and the packet goes to the host.    *)
LEMMA AnsweredStep ==
  ASSUME ResolveInv, Receive, Answers(Head(rx))
  PROVE  ResolveInv'
<1> USE DEF optionVars, arpVars
<1>1. /\ pc = "recv" /\ pc' = "walk" /\ rx # <<>> /\ rx' = Tail(rx)
      /\ Head(rx).ip = Current.dip
      /\ cache' = [cache EXCEPT ![Current.dip] = MacOf[Current.dip]]
      /\ Assign(MacOf[Current.dip])
      /\ UNCHANGED <<optionVars, attempt, waited, ifcOpen, elapsed, burst, asked, inTime>>
  BY DEF Receive, Answers, Insert, Assign
<1>2. /\ p <= Len(packets) /\ Current.type = "ip4" /\ Current.dmac[1] = NoMac
      /\ attempt < 2
  BY <1>1 DEF ResolveInv, AskingInv
<1>3. Current.dip \in Ips
  BY <1>1, <1>2, CurrentPacket
<1>4. ListInv' /\ Len(packets') = Len(packets) /\ p' \in 1 .. Len(packets') + 1
  BY <1>1, <1>2, AssignList
<1>5. cache \in [Ips -> Macs] /\ cache' \in [Ips -> Macs] /\ rx' \in Seq(Frames)
  BY <1>1, <1>3 DEF ResolveInv, TypeOK, Macs
<1>6. TypeOK'
  BY <1>1, <1>4, <1>5, ListTypes DEF ResolveInv, TypeOK
<1>7. CacheInv'
  BY <1>1, <1>3, <1>5 DEF ResolveInv, CacheInv
<1>8. AskingInv'
  <2>1. asked[Current.dip] = attempt + 1 /\ attempt \in 0 .. 2
    BY <1>1, <1>3 DEF ResolveInv, AskingInv, TypeOK
  <2>2. asked[Current.dip] <= 2
    BY <1>2, <2>1
  <2>3. cache'[Current.dip] # NoMac
    BY <1>1, <1>3, <1>5, ResolverAssumption, SMTT(30)
  <2>4. \A ip \in Ips : ip # Current.dip => cache'[ip] = cache[ip]
    BY <1>1, <1>5
  <2> QED BY <1>1, <2>2, <2>3, <2>4 DEF ResolveInv, AskingInv
<1>9. AnswerInv' /\ OpenInv'
  BY <1>1 DEF ResolveInv, AnswerInv, OpenInv
<1> QED BY <1>4, <1>6, <1>7, <1>8, <1>9 DEF ResolveInv

(* Anything but the answer, or a timeout: recv is called again, or it is   *)
(* time for the next request.  An answer that came in time is not lost.    *)
LEMMA LoopOnStep ==
  ASSUME ResolveInv, pc = "recv", LoopOn,
         \/ rx # <<>> /\ ~Answers(Head(rx)) /\ rx' = Tail(rx)
         \/ rx = <<>> /\ rx' = rx,
         UNCHANGED <<optionVars, packets, ifcOpen, p, cache, elapsed, burst, asked, inTime>>
  PROVE  ResolveInv'
<1> USE DEF optionVars, arpVars
<1>1. /\ waited' = 0
      /\ \/ elapsed < Timeout /\ pc' = "recv" /\ attempt' = attempt
         \/ ~(elapsed < Timeout) /\ pc' = "request" /\ attempt' = attempt + 1
  BY DEF LoopOn, StillWaiting
<1>2. Current' = Current
  BY DEF Current
<1>3. /\ p <= Len(packets) /\ Current.type = "ip4" /\ Current.dmac[1] = NoMac
      /\ cache[Current.dip] = NoMac /\ attempt < 2
  BY DEF ResolveInv, AskingInv
<1>4. Current.dip \in Ips
  BY <1>3, CurrentPacket
<1>5. ListInv'
  BY <1>1, ListKept
<1>6. attempt \in 0 .. 2 /\ attempt' \in 0 .. 2 /\ waited' \in 0 .. Timeout
  BY <1>1, <1>3, ResolverAssumption DEF ResolveInv, TypeOK
<1>7. rx \in Seq(Frames) /\ rx' \in Seq(Frames)
  <2>1. rx \in Seq(Frames)
    BY DEF ResolveInv, TypeOK
  <2>2. rx # <<>> => Tail(rx) \in Seq(Frames)
    BY <2>1
  <2> QED BY <2>1, <2>2
<1>8. TypeOK'
  BY <1>1, <1>6, <1>7 DEF ResolveInv, TypeOK
<1>9. AskingInv'
  <2>1. asked'[Current.dip] = attempt' + (IF pc' = "recv" THEN 1 ELSE 0)
    BY <1>1, <1>4, <1>6 DEF ResolveInv, AskingInv
  <2> QED BY <1>1, <1>2, <1>3, <2>1 DEF ResolveInv, AskingInv
<1>10. AnswerInv'
  <2>1. CASE ~inTime
    BY <2>1 DEF AnswerInv
  <2>2. CASE inTime
    <3>1. elapsed < Timeout /\ \E i \in DOMAIN rx : Answers(rx[i])
      BY <2>2 DEF ResolveInv, AnswerInv
    <3>2. PICK i \in DOMAIN rx : Answers(rx[i])
      BY <3>1
    <3>3. rx # <<>> /\ ~Answers(Head(rx)) /\ rx' = Tail(rx)
      BY <1>7, <3>2
    <3>4. i # 1
      BY <1>7, <3>2, <3>3
    <3>5. i - 1 \in DOMAIN rx' /\ rx'[i - 1] = rx[i]
      BY <1>7, <3>2, <3>3, <3>4
    <3>6. (\E k \in DOMAIN rx : Answers(rx[k]))'
      BY <1>2, <3>2, <3>5 DEF Answers
    <3> QED BY <1>1, <3>1, <3>6 DEF AnswerInv
  <2> QED BY <2>1, <2>2 DEF ResolveInv, TypeOK
<1>11. CacheInv' /\ OpenInv'
  BY <1>1 DEF ResolveInv, CacheInv, OpenInv
<1> QED BY <1>5, <1>8, <1>9, <1>10, <1>11 DEF ResolveInv

(* A step of the program, of the network or of the clock.                  *)
LEMMA ResolveStep == ResolveInv /\ [Next]_vars => ResolveInv'
<1> SUFFICES ASSUME ResolveInv, [Next]_vars PROVE ResolveInv'
  OBVIOUS
<1>1. CASE Receive
  <2>1. CASE Answers(Head(rx))
    BY <1>1, <2>1, AnsweredStep
  <2>2. CASE ~Answers(Head(rx))
    <3>1. /\ pc = "recv" /\ LoopOn /\ rx # <<>> /\ rx' = Tail(rx)
          /\ UNCHANGED <<optionVars, packets, ifcOpen, p, cache, elapsed, burst, asked, inTime>>
      BY <1>1, <2>2 DEF Receive
    <3> QED BY <2>2, <3>1, LoopOnStep
  <2> QED BY <2>1, <2>2
<1>2. CASE RecvTimeout
  <2>1. /\ pc = "recv" /\ LoopOn /\ rx = <<>> /\ rx' = rx
        /\ UNCHANGED <<optionVars, packets, ifcOpen, p, cache, elapsed, burst, asked, inTime>>
    BY <1>2 DEF RecvTimeout
  <2> QED BY <2>1, LoopOnStep
<1>3. CASE Over \/ UNCHANGED vars
  <2>1. UNCHANGED <<arp, forcedDMAC, toFile, addressed, packets, pc, ifcOpen, p, cache, attempt,
                    elapsed, waited, rx, burst, asked, inTime>>
    BY <1>3 DEF Over, vars, optionVars, arpVars
  <2>2. Current' = Current
    BY <2>1 DEF Current
  <2>3. TypeOK' /\ ListInv'
    BY <2>1 DEF ResolveInv, TypeOK, ListInv
  <2>4. CacheInv' /\ AskingInv' /\ OpenInv'
    BY <2>1, <2>2 DEF ResolveInv, CacheInv, AskingInv, OpenInv
  <2>5. AnswerInv'
    BY <2>1, <2>2 DEF ResolveInv, AnswerInv, Answers
  <2> QED BY <2>3, <2>4, <2>5 DEF ResolveInv
<1>4. CASE \E frame \in Frames : Arrive(frame)
  BY <1>4, ArriveStep
<1>5. CASE Resolving \/ Tick
  BY <1>1, <1>2, <1>5, OpenStep, FilterStep, WalkStep, FromCacheStep, OpenSocketStep,
     RequestStep, TickStep DEF Resolving
<1> QED BY <1>3, <1>4, <1>5 DEF Next

(* The inductive invariant holds throughout.                               *)
THEOREM ResolveInvariance == Spec => []ResolveInv
<1>1. Init => ResolveInv
  BY ResolveInit
<1>2. ResolveInv /\ [Next]_vars => ResolveInv'
  BY ResolveStep
<1> QED BY <1>1, <1>2, PTL DEF Spec

-----------------------------------------------------------------------------
(* What the runs check on two hosts and three packets, for every list,     *)
(* every network and every timeout.                                        *)

(* The state of cResolver, of cFilter and of cArp::resolve keeps its type. *)
THEOREM ResolverTyped == Spec => []TypeOK
<1>1. ResolveInv => TypeOK
  BY DEF ResolveInv
<1> QED BY <1>1, ResolveInvariance, PTL

(* When the resolver is through, all fragments of all packets go to the    *)
(* host they are meant for, whatever ARP traffic was received.             *)
THEOREM ResolvedRight == Spec => []RightDestination
<1>1. ResolveInv => RightDestination
  <2> SUFFICES ASSUME ResolveInv, pc = "resolved",
                      NEW i \in DOMAIN packets, NEW k \in DOMAIN packets[i].dmac
               PROVE  IF forcedDMAC THEN packets[i].dmac[k] = Forced
                      ELSE packets[i].dmac[k] \in
                             {Given, IF packets[i].dip = Group THEN Multicast
                                     ELSE MacOf[packets[i].dip]}
    BY DEF RightDestination
  <2>1. packets[i].dmac[k] = packets[i].dmac[1]
    BY DEF ResolveInv, ListInv, OneDestination
  <2>2. i < p
    BY DEF ResolveInv, ListInv, TypeOK
  <2>3. IF forcedDMAC THEN packets[i].dmac[1] = Forced ELSE Directed(packets[i])
    BY <2>2 DEF ResolveInv, ListInv
  <2> QED BY <2>1, <2>3 DEF Directed
<1> QED BY <1>1, ResolveInvariance, PTL

(* The cache spares the network: no address is asked for more than twice.  *)
THEOREM TwoRequests == Spec => []AskedTwiceAtMost
<1>1. ResolveInv => AskedTwiceAtMost
  <2> SUFFICES ASSUME ResolveInv, NEW ip \in Ips PROVE asked[ip] <= 2
    BY DEF AskedTwiceAtMost
  <2>1. CASE pc \in {"request", "recv"} /\ ip = Current.dip
    <3>1. asked[ip] = attempt + (IF pc = "recv" THEN 1 ELSE 0) /\ attempt \in 0 .. 2
            /\ (pc = "recv" => attempt < 2)
      BY <2>1 DEF ResolveInv, AskingInv, TypeOK
    <3> QED BY <3>1
  <2>2. CASE ~(pc \in {"request", "recv"} /\ ip = Current.dip)
    BY <2>2 DEF ResolveInv, AskingInv
  <2> QED BY <2>1, <2>2
<1> QED BY <1>1, ResolveInvariance, PTL

(* An answer within the timeout of a request is used, however many other   *)
(* frames are read before it.                                              *)
THEOREM NoAnswerLost == Spec => []AnswerInTimeUsed
<1>1. ResolveInv => AnswerInTimeUsed
  BY DEF ResolveInv, AnswerInv, AnswerInTimeUsed
<1> QED BY <1>1, ResolveInvariance, PTL

(* The only ways into BUG_ON: an IPv6 packet without destination MAC, a    *)
(* resolver that runs although the output goes to a file, or an interface  *)
(* without a MAC or an IPv4 address of its own.                            *)
THEOREM BugOnlyKnown ==
  ASSUME "ip6" \notin Types, TRUE \notin ToFile, FALSE \notin Addressed
  PROVE  Spec => []DestMacAutomatic
<1>1. TypeOK => toFile = FALSE /\ addressed = TRUE
  BY ResolverAssumption, Zenon DEF TypeOK
<1>2. ResolveInv => DestMacAutomatic
  BY <1>1 DEF ResolveInv, OpenInv, DestMacAutomatic
<1> QED BY <1>2, ResolveInvariance, PTL
=============================================================================
