------------------------------ MODULE Resolver ------------------------------
(***************************************************************************)
(* How packets get their destination MAC: what the parser leaves out, the  *)
(* filter (cFilter, --overwrite-dmac) and the resolver (cResolver), which  *)
(* asks the network with ARP through cArp::resolve of Linux.  The network  *)
(* may answer, answer late or twice or not at all, and carries the ARP     *)
(* traffic of others.  Ctrl+C plays no part here: the flag is looked at by *)
(* cOutput only, and an interrupted recv is one that returns nothing.      *)
(***************************************************************************)
EXTENDS Integers, Sequences, FiniteSets

CONSTANTS
  Ips,          \* unicast destinations
  Group,        \* a multicast destination
  MacOf,        \* MacOf[ip]: the MAC address of the host with that address
  NoMac,        \* hasDMAC is false
  Given,        \* a MAC address given in the instruction
  Multicast,    \* the MAC address derived from Group
  Forced,       \* the MAC address of --overwrite-dmac
  Types,        \* the kinds of packets considered
  ToFile,       \* values of "output goes to a file" considered
  Addressed,    \* values of "the interface has a MAC and an IPv4 address"
  Timeout,      \* one second, in ticks of the clock
  MaxPackets,   \* bound on the length of the packet list
  MaxBurst      \* bound on the frames the line carries between two ticks

ASSUME ResolverAssumption ==
  /\ Group \notin Ips
  /\ \A a, b \in Ips : MacOf[a] = MacOf[b] => a = b
  /\ {NoMac, Given, Multicast, Forced} \cap {MacOf[ip] : ip \in Ips} = {}
  /\ NoMac \notin {Given, Multicast, Forced}
  /\ Types \subseteq {"eth", "ip4", "ip6"} /\ ToFile \subseteq BOOLEAN
  /\ Addressed \subseteq BOOLEAN
  /\ Timeout \in Nat \ {0} /\ MaxPackets \in Nat \ {0} /\ MaxBurst \in Nat \ {0}

VARIABLES
  arp, forcedDMAC, toFile, packets,  \* options and the packet list
  addressed,     \* getMAC and getIPv4 of the interface succeed
  pc,            \* where the main thread is
  ifcOpen,       \* cInterface::isOpen
  p,             \* position in the list
  cache,         \* cResolver::cache
  attempt,       \* n of cArp::resolve
  elapsed,       \* time since the request was sent
  waited,        \* time since recv was called
  rx,            \* frames in the receive buffer of arpSock
  burst,         \* frames that arrived since the last tick
  asked,         \* history: requests sent for each address
  inTime         \* history: an answer came before the timeout

optionVars == <<arp, forcedDMAC, toFile, addressed>>
arpVars == <<attempt, elapsed, waited, rx, burst>>
vars == <<optionVars, packets, pc, ifcOpen, p, cache, arpVars, asked, inTime>>

Macs == {NoMac, Given, Multicast, Forced} \cup {MacOf[ip] : ip \in Ips}

(* hasDestMac of the first Ethernet packet of a list element.              *)
HasDestMac(packet) == packet.dmac[1] # NoMac

-----------------------------------------------------------------------------
(* Packets as they leave cInstructionParser.  The destination MAC may be   *)
(* left out for a multicast, or for any IP packet with the option -a;      *)
(* v4compile then derives the MAC of a multicast, v6compile does not.      *)
MayOmit(type, dip) == type # "eth" /\ (arp \/ dip = Group)

Derived(type, dip) == IF type = "ip4" /\ dip = Group THEN Multicast ELSE NoMac

(* An IPv4 packet stands for two fragments, each with its own MAC header.  *)
Fragments(type, mac) == IF type = "ip4" THEN <<mac, mac>> ELSE <<mac>>

Compiled ==
  {[type |-> t, dip |-> d, dmac |-> Fragments(t, Given)]
      : t \in Types, d \in Ips \cup {Group}}
  \cup
  {[type |-> td[1], dip |-> td[2], dmac |-> Fragments(td[1], Derived(td[1], td[2]))]
      : td \in {x \in Types \X (Ips \cup {Group}) : MayOmit(x[1], x[2])}}

Init ==
  /\ arp \in BOOLEAN /\ forcedDMAC \in BOOLEAN /\ toFile \in ToFile
  /\ addressed \in Addressed
  /\ packets \in UNION {[1 .. n -> Compiled] : n \in 1 .. MaxPackets}
  /\ pc = "open"
  /\ ifcOpen = FALSE
  /\ p = 1
  /\ cache = [ip \in Ips |-> NoMac]
  /\ attempt = 0 /\ elapsed = 0 /\ waited = 0 /\ rx = <<>> /\ burst = 0
  /\ asked = [ip \in Ips |-> 0]
  /\ inTime = FALSE

(* The interface is opened unless the output is a file.                    *)
Open ==
  /\ pc = "open"
  /\ \/ toFile /\ pc' = "filter" /\ UNCHANGED ifcOpen
     \/ ~toFile /\ pc' = "filter" /\ ifcOpen' = TRUE
     \/ ~toFile /\ pc' = "failed" /\ UNCHANGED ifcOpen
  /\ UNCHANGED <<optionVars, packets, p, cache, arpVars, asked, inTime>>

(* cIPPacket::setDestMac covers every fragment.                            *)
OnlyFirst(packet, mac) == [packet EXCEPT !.dmac[1] = mac]
SetDestMac(packet, mac) == [packet EXCEPT !.dmac = [i \in DOMAIN @ |-> mac]]

Filter ==
  /\ pc = "filter"
  /\ packets' = IF forcedDMAC
                THEN [i \in DOMAIN packets |-> SetDestMac(packets[i], Forced)]
                ELSE packets
  /\ pc' = "walk"
  /\ UNCHANGED <<optionVars, ifcOpen, p, cache, arpVars, asked, inTime>>

-----------------------------------------------------------------------------
(* cResolver::operator<<.                                                  *)

Current == packets[p]

Assign(mac) ==
  /\ packets' = [packets EXCEPT ![p] = SetDestMac(@, mac)]
  /\ p' = p + 1
  /\ pc' = "walk"

EndOfList ==
  /\ pc = "walk" /\ p > Len(packets)
  /\ pc' = "resolved"
  /\ UNCHANGED <<optionVars, packets, ifcOpen, p, cache, arpVars, asked, inTime>>

Skip ==
  /\ pc = "walk" /\ p <= Len(packets)
  /\ Current.type = "eth" \/ HasDestMac(Current)
  /\ p' = p + 1
  /\ UNCHANGED <<optionVars, packets, pc, ifcOpen, cache, arpVars, asked, inTime>>

Unresolved ==
  /\ pc = "walk" /\ p <= Len(packets)
  /\ Current.type # "eth" /\ ~HasDestMac(Current)

(* getDestination (cIPv4&) of an IPv6 packet ends in BUG_ON.               *)
NotIPv4 ==
  /\ Unresolved /\ Current.type = "ip6"
  /\ pc' = "bug"
  /\ UNCHANGED <<optionVars, packets, ifcOpen, p, cache, arpVars, asked, inTime>>

FromCache ==
  /\ Unresolved /\ Current.type = "ip4" /\ cache[Current.dip] # NoMac
  /\ Assign(cache[Current.dip])
  /\ UNCHANGED <<optionVars, ifcOpen, cache, arpVars, asked, inTime>>

(* cArp::resolve: BUG_ON unless the interface is open and has addresses of *)
(* its own, which nothing has made sure of (tcppump.cpp:237-252 only warns *)
(* of it); a fresh socket for every address, which may not be opened.      *)
OpenSocket ==
  /\ Unresolved /\ Current.type = "ip4" /\ cache[Current.dip] = NoMac
  /\ \/ ~(ifcOpen /\ addressed) /\ pc' = "bug"
     \/ ifcOpen /\ addressed /\ pc' \in {"request", "failed"}
  /\ attempt' = 0 /\ rx' = <<>> /\ burst' = 0
  /\ inTime' = FALSE
  /\ UNCHANGED <<optionVars, packets, ifcOpen, p, cache, elapsed, waited, asked>>

(* Twice at most, unless the timeout cannot be set or the request not sent. *)
Request ==
  /\ pc = "request" /\ attempt < 2
  /\ \/ pc' = "recv" /\ asked' = [asked EXCEPT ![Current.dip] = @ + 1]
     \/ pc' = "failed" /\ UNCHANGED asked
  /\ elapsed' = 0 /\ waited' = 0
  /\ UNCHANGED <<optionVars, packets, ifcOpen, p, cache, attempt, rx, burst, inTime>>

(* "TIMEOUT! unreachable": the exception ends the program.                 *)
Unreachable ==
  /\ pc = "request" /\ attempt = 2
  /\ pc' = "timeout"
  /\ UNCHANGED <<optionVars, packets, ifcOpen, p, cache, arpVars, asked, inTime>>

-----------------------------------------------------------------------------
(* The receive loop.  The program reads faster than the clock ticks.       *)

Frames == [op : {"request", "reply"}, ip : Ips]

AnyReply(frame) == frame.op = "reply"
Answers(frame) == frame.op = "reply" /\ frame.ip = Current.dip

(* Any host may send a request or a reply, asked or not, at any time; what *)
(* it says of its own MAC address is true.                                 *)
Arrive(frame) ==
  /\ pc = "recv" /\ burst < MaxBurst
  /\ rx' = Append(rx, frame) /\ burst' = burst + 1
  /\ inTime' = (inTime \/ (frame.op = "reply" /\ frame.ip = Current.dip /\ elapsed < Timeout))
  /\ UNCHANGED <<optionVars, packets, pc, ifcOpen, p, cache, attempt, elapsed, waited, asked>>

(* A recv begun before the timeout ends before twice the timeout: the      *)
(* clock need not count further.                                           *)
MaxElapsed == 2 * Timeout

Tick ==
  /\ pc = "recv" /\ rx = <<>> /\ waited < Timeout
  /\ elapsed' = IF elapsed < MaxElapsed THEN elapsed + 1 ELSE elapsed
  /\ waited' = waited + 1
  /\ burst' = 0
  /\ UNCHANGED <<optionVars, packets, pc, ifcOpen, p, cache, attempt, rx, asked, inTime>>

(* The do-while condition.                                                 *)
FirstFrameOnly == FALSE
WhileFramesArrive == waited < Timeout
StillWaiting == elapsed < Timeout

(* cache.insert.                                                           *)
NoInsert(ip, mac) == cache
Insert(ip, mac) == [cache EXCEPT ![ip] = mac]

CountFrames ==
  /\ waited' = 0
  /\ attempt' = attempt + 1
  /\ pc' = IF StillWaiting THEN "recv" ELSE "request"

LoopOn ==
  /\ waited' = 0
  /\ \/ StillWaiting /\ UNCHANGED <<pc, attempt>>
     \/ ~StillWaiting /\ pc' = "request" /\ attempt' = attempt + 1

Receive ==
  /\ pc = "recv" /\ rx # <<>>
  /\ rx' = Tail(rx)
  /\ \/ /\ Answers(Head(rx))
        /\ cache' = Insert(Current.dip, MacOf[Head(rx).ip])
        /\ Assign(MacOf[Head(rx).ip])
        /\ UNCHANGED <<attempt, waited>>
     \/ /\ ~Answers(Head(rx))
        /\ LoopOn
        /\ UNCHANGED <<packets, p, cache>>
  /\ UNCHANGED <<optionVars, ifcOpen, elapsed, burst, asked, inTime>>

RecvTimeout ==
  /\ pc = "recv" /\ rx = <<>> /\ waited = Timeout
  /\ LoopOn
  /\ UNCHANGED <<optionVars, packets, ifcOpen, p, cache, elapsed, rx, burst, asked, inTime>>

Over == pc \in {"resolved", "failed", "timeout", "bug"} /\ UNCHANGED vars

Resolving ==
  \/ Open \/ Filter
  \/ EndOfList \/ Skip \/ NotIPv4 \/ FromCache
  \/ OpenSocket \/ Request \/ Unreachable \/ Receive \/ RecvTimeout

Next == Resolving \/ Tick \/ (\E frame \in Frames : Arrive(frame)) \/ Over

(* The program runs and time passes; nothing is assumed of the network but *)
(* that its rate is finite.                                                *)
Spec == Init /\ [][Next]_vars /\ WF_vars(Resolving) /\ WF_vars(Tick)

-----------------------------------------------------------------------------
TypeOK ==
  /\ arp \in BOOLEAN /\ forcedDMAC \in BOOLEAN /\ toFile \in ToFile
  /\ addressed \in Addressed
  /\ \A i \in DOMAIN packets :
       packets[i].type \in Types /\ packets[i].dip \in Ips \cup {Group}
         /\ \A k \in DOMAIN packets[i].dmac : packets[i].dmac[k] \in Macs
  /\ pc \in {"open", "filter", "walk", "request", "recv", "resolved", "failed",
             "timeout", "bug"}
  /\ ifcOpen \in BOOLEAN
  /\ p \in 1 .. Len(packets) + 1
  /\ cache \in [Ips -> Macs]
  /\ attempt \in 0 .. 2
  /\ elapsed \in 0 .. MaxElapsed /\ waited \in 0 .. Timeout
  /\ rx \in Seq(Frames) /\ burst \in 0 .. MaxBurst
  /\ asked \in [Ips -> Nat]
  /\ inTime \in BOOLEAN

(* Once the resolver is through, every Ethernet packet of the list, each   *)
(* fragment included, goes to the host it is meant for, whatever replies   *)
(* of other hosts, duplicates and late answers arrived in between; a MAC   *)
(* address given by the user is kept, unless it is overwritten.            *)
RightDestination ==
  pc = "resolved" =>
    \A i \in DOMAIN packets : \A k \in DOMAIN packets[i].dmac :
      LET mac == packets[i].dmac[k] IN
      IF forcedDMAC THEN mac = Forced
      ELSE mac \in {Given, IF packets[i].dip = Group THEN Multicast
                           ELSE MacOf[packets[i].dip]}

(* The cache: an address that many packets are sent to is asked for twice  *)
(* at most in the whole run.                                               *)
AskedTwiceAtMost == \A ip \in Ips : asked[ip] <= 2

(* A host is reported unreachable only if no answer of it came before the  *)
(* timeout of either request, whatever else arrived before the answer.     *)
AnswerInTimeUsed == pc = "timeout" => ~inTime

(* "dest mac is set automatically, if dest IP is a multicast OR user has   *)
(* NOT provided a dest MAC" (instructionparser.cpp:621), instead of a stop *)
(* of the program in BUG_ON.                                               *)
DestMacAutomatic == pc # "bug"

(* Resolving ends although the network never falls silent.                 *)
ResolutionEnds == <>(pc \in {"resolved", "failed", "timeout", "bug"})
=============================================================================
