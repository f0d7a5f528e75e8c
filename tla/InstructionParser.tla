------------------------- MODULE InstructionParser -------------------------
(***************************************************************************)
(* cInstructionParser: an instruction (a protocol keyword and parameters)  *)
(* is compiled to a packet.  The payload of some protocols may be another  *)
(* instruction: compileEmbedded calls the parser again and changes the MTU *)
(* in the global settings for the time of that call.                       *)
(*                                                                         *)
(* The text has been split into parameters (module ParameterText).  The    *)
(* operators compileXXX give the steps of the functions of the same name;  *)
(* the actions execute these steps, on a stack because of the recursion.   *)
(***************************************************************************)
EXTENDS Syntax, Lldp, EthernetPacket, FiniteSets

CONSTANTS
  Instructions,     \* records [keyword, par]; a keyword is a sequence of parts
  MTU               \* the MTU of the interface, or --mtu

(* execute accepts no MTU below 68.                                        *)
ASSUME ParserAssumption == MTU \in Nat /\ MTU >= 68

VARIABLES
  outcome,   \* idle, parsing, unwinding (a ParseException is on its way),
             \* accepted, rejected, bug
  input,     \* the instruction that was given to parse
  stack,     \* the active calls of parse, the innermost one last
  mtu,       \* cSettings::getMyMTU
  live,      \* the packets that are allocated
  result,    \* the call that returned a packet to the caller of parse
  m_ipOptionalDestMAC  \* option -a: MAC addresses are resolved

vars == <<outcome, input, stack, mtu, live, result, m_ipOptionalDestMAC>>

(* The MTU for embedded packets, "a arbitrary limit".                      *)
EmbeddedMtu == 32 * 1024
MaxDepth == 8
MaxDatagram == 65535

-----------------------------------------------------------------------------
(* compileMacHeader: the source is looked up, the destination is not, may  *)
(* be or must be given.                                                    *)
Destination(par, needed) ==
  LET at == Find(par, 0, NoStop, "dmac")
  IN  <<Step("find", at, needed, "mac", 0)>>
        \o (IF at # 0 THEN Do("dmac", 0, 0) ELSE <<>>)
compileMacHeader(par, destination) ==
  Opt(par, <<"smac">>, "mac") \o Do("smac", 0, 0) \o destination

compileVLANTags(par) ==
  Each(par, 0, "vid", LAMBDA i :
    OptOf(par, i, <<"vtype">>, "int") \o At(i, "int")
      \o OptOf(par, i, <<"prio", "dei">>, "int") \o Do("vlan", i, VlanSize))

compileRAW(par, noEth) ==
  LET Conversion == [byte |-> "int", be16 |-> "int", be32 |-> "int", be64 |-> "int",
                     le16 |-> "int", le32 |-> "int", le64 |-> "int", mac |-> "mac",
                     ip4 |-> "ip4", ip6 |-> "ip6", stream |-> "stream"]
      Width == [byte |-> 1, be16 |-> 2, be32 |-> 4, be64 |-> 8, le16 |-> 2, le32 |-> 4,
                le64 |-> 8, mac |-> 6, ip4 |-> 4, ip6 |-> 16]
      known == SelectSeq([i \in 1 .. Len(par) |-> i],
                         LAMBDA i : par[i].name \in DOMAIN Conversion)
      size  == FoldLeft(LAMBDA sum, i :
                 sum + (IF par[i].name = "stream" THEN StreamLen(par[i]) ELSE Width[par[i].name]),
                 0, known)
  IN  FlattenSeq([k \in 1 .. Len(known) |-> At(known[k], Conversion[par[known[k]].name])])
        \o Do("raw", IF noEth THEN 0 ELSE 1, size)

(* Three bytes of LLC header if the control field is an unnumbered one.    *)
LlcLength(par) ==
  IF ~Has(par, "control") \/ Get(par, "control").len % 4 = 3 THEN 3 ELSE 4

Llc(par) ==
  CASE Has(par, "dsap") ->
         Need(par, <<"dsap", "ssap">>, "int") \o Opt(par, <<"control">>, "int")
           \o Do("llc", 0, LlcLength(par))
    [] ~Has(par, "dsap") /\ Has(par, "oui") ->
         Need(par, <<"oui", "protocol">>, "int") \o Do("snap", 0, 3 + SnapSize)
    [] OTHER -> <<>>

Payload(par, as, must) ==
  <<Step("payload", Find(par, 0, NoStop, "payload"), must, as, Unlimited)>>

(* The payload, and the ethertype or, with an LLC header, the length.      *)
EthPayload(par) ==
  Payload(par, "stream", TRUE) \o Do("setPayload", 0, 0)
    \o (IF Has(par, "dsap") \/ Has(par, "oui") \/ ~Has(par, "ethertype")
        THEN Do("setLength", 0, 0)
        ELSE Need(par, <<"ethertype">>, "int") \o Do("setTypeLength", 0, 0))

TagsAfterLlc(par) ==
  compileMacHeader(par, Destination(par, TRUE)) \o Llc(par) \o compileVLANTags(par)
    \o EthPayload(par)
compileETH(par) ==
  compileMacHeader(par, Destination(par, TRUE)) \o compileVLANTags(par) \o Llc(par)
    \o EthPayload(par)

(* cArpPacket: everything at once; the tags are inserted afterwards.       *)
ArpSetAll == Do("arp", 0, 28)
compileARP(par, isProbe, isGratuitous) ==
  (CASE isProbe      -> Need(par, <<"dip">>, "ip4")
     [] isGratuitous -> Opt(par, <<"dip">>, "ip4")
     [] OTHER        -> Opt(par, <<"dmac">>, "mac") \o Opt(par, <<"op">>, "int")
                          \o Opt(par, <<"smac">>, "mac") \o Opt(par, <<"sip">>, "ip4")
                          \o Need(par, <<"dip">>, "ip4"))
    \o ArpSetAll \o compileVLANTags(par)

-----------------------------------------------------------------------------
parseIPv4Params(par, noDestinationIP) ==
  Opt(par, <<"dscp", "ecn", "ttl", "df">>, "int")
    \o (IF noDestinationIP THEN <<>> ELSE Need(par, <<"dip">>, "ip4"))
    \o Opt(par, <<"sip">>, "ip4") \o Opt(par, <<"id", "hchksum">>, "int")
parseIPv6Params(par) ==
  Opt(par, <<"dscp", "ecn", "ttl">>, "int") \o Need(par, <<"dip">>, "ip6")
    \o Opt(par, <<"sip">>, "ip6") \o Opt(par, <<"fl">>, "int")

DestIsMulticast(par) == Has(par, "dip") /\ IsMulticast(Get(par, "dip"))

(* The beginning of all compile functions for IP: the destination MAC may  *)
(* be left out if it can be found from the IP address.                     *)
IPHead(par, noEth, isIPv6) ==
  (IF isIPv6 THEN parseIPv6Params(par) ELSE parseIPv4Params(par, FALSE))
    \o (IF noEth THEN <<>>
        ELSE compileMacHeader(par, Destination(par, ~(m_ipOptionalDestMAC \/ DestIsMulticast(par))))
               \o compileVLANTags(par))

(* cIPPacket::compile with an IP header of ip bytes, an L4 header of l4    *)
(* bytes and the payload.  A multicast address is translated to a MAC      *)
(* address; v6compile does not do that.                                    *)
Multicast(ip, l4)  == Do("multicast", 0, 0) \o Do("ip", ip, l4)
Unicast(ip, l4)    == Do("ip", ip, l4)
IPCompile(par, isIPv6, l4) ==
  CASE isIPv6                             -> Unicast(40, l4)
    [] ~isIPv6 /\ DestIsMulticast(par)    -> Multicast(20, l4)
    [] ~isIPv6 /\ ~DestIsMulticast(par)   -> Unicast(20, l4)

compileIP(par, noEth, isIPv6) ==
  IPHead(par, noEth, isIPv6) \o Payload(par, "stream", TRUE)
    \o Need(par, <<"protocol">>, "int") \o IPCompile(par, isIPv6, 0)

UdpCompile(par, isIPv6) == IPCompile(par, isIPv6, 8)
compileUDP(par, noEth, isIPv6) ==
  IPHead(par, noEth, isIPv6) \o Need(par, <<"sport", "dport">>, "int")
    \o Payload(par, "embedded", FALSE) \o UdpCompile(par, isIPv6)
    \o Opt(par, <<"chksum">>, "int")

(* The VXLAN header goes into the payload of the UDP packet.               *)
VxlanCompile(par, isIPv6) == IPCompile(par, isIPv6, 8 + 8)
compileVXLAN(par, noEth, isIPv6) ==
  IPHead(par, noEth, isIPv6) \o Need(par, <<"sport">>, "int")
    \o Opt(par, <<"dport", "vni">>, "int") \o Payload(par, "embedded", FALSE)
    \o VxlanCompile(par, isIPv6)

TcpCompile(par, isIPv6) == IPCompile(par, isIPv6, 20)
compileTCP(par, noEth, isIPv6) ==
  IPHead(par, noEth, isIPv6) \o Need(par, <<"sport", "dport", "seq", "ack">>, "int")
    \o Opt(par, <<"win", "urgptr", "FIN", "SYN", "RESET", "PUSH", "ACK", "URGENT", "ECN",
                  "CWR", "NONCE">>, "int")
    \o Payload(par, "embedded", FALSE) \o Opt(par, <<"chksum">>, "int")
    \o TcpCompile(par, isIPv6)

FirstOf(s, n) == SubSeq(s, 1, IF Len(s) < n THEN Len(s) ELSE n)

(* Version 2 has eight bytes more for the authentication.  The destination *)
(* is fixed.  There are up to 255 virtual addresses.                       *)
VrrpCompile(addresses, version) ==
  Do("dmac", 0, 0) \o Unicast(20, 8 + 4 * addresses + (IF version = 2 THEN 8 ELSE 0))
compileVRRP(par, noEth, version) ==
  LET first == Find(par, 0, NoStop, "vrip")
      more  == FirstOf(Occurrences(par, first, "vrip"), 254)
  IN  parseIPv4Params(par, TRUE)
        \o (IF noEth THEN <<>> ELSE compileMacHeader(par, <<>>) \o compileVLANTags(par))
        \o Need(par, <<"vrip">>, "ip4") \o Need(par, <<"vrid">>, "int")
        \o Opt(par, <<"vrprio", "type", "aint", "chksum">>, "int")
        \o (IF first = 0 THEN <<>> ELSE FlattenSeq([k \in 1 .. Len(more) |-> At(more[k], "ip4")]))
        \o VrrpCompile(1 + Len(more), version)

(* A BPDU behind a MAC header with the bridge group address and an LLC     *)
(* header.                                                                 *)
Bpdu(len) == Do("dmac", 0, 0) \o Do("llc", 0, 3) \o Do("setBytes", 0, len) \o Do("setLength", 0, 0)
compileSTP(par, noEth, isRSTP, isTCN) ==
  (IF noEth THEN <<>> ELSE compileMacHeader(par, <<>>) \o compileVLANTags(par))
    \o (IF isTCN THEN Bpdu(4)
        ELSE Opt(par, <<"rbprio", "rbidext">>, "int") \o Opt(par, <<"rbmac">>, "mac")
               \o Opt(par, <<"bprio", "bidext">>, "int") \o Opt(par, <<"bmac">>, "mac")
               \o Opt(par, <<"pprio", "pnum">>, "int")
               \o Opt(par, <<"msgage", "maxage", "hello", "delay">>, "double")
               \o Opt(par, <<"topochange", "topochangeack", "rpathcost">>, "int")
               \o (IF isRSTP
                   THEN Opt(par, <<"portrole", "proposal", "learning", "forwarding",
                                   "agreement">>, "int") \o Bpdu(36)
                   ELSE Bpdu(35)))

(* Queries, reports and leaves go to a multicast address, the group or a   *)
(* fixed one; with -a no destination is looked up either.  The IP header   *)
(* has the router alert option.                                            *)
ToGroup(par, len) ==
  IF Has(par, "group") /\ ~IsMulticast(Get(par, "group")) THEN Unicast(24, len)
  ELSE Multicast(24, len)
compileIGMP(par, noEth, v3, query, report, leave) ==
  LET fixed     == query \/ report \/ leave
      addressed == fixed \/ DestIsMulticast(par) \/ m_ipOptionalDestMAC
      sources   == FirstOf(Occurrences(par, 0, "rsip"), 366)
  IN  parseIPv4Params(par, fixed)
        \o (IF noEth THEN <<>>
            ELSE compileMacHeader(par, IF addressed THEN <<>> ELSE Destination(par, TRUE))
                   \o compileVLANTags(par))
        \o (CASE query /\ v3 ->
                   Opt(par, <<"s", "qrv">>, "int") \o Opt(par, <<"qqic", "time">>, "double")
                     \o FlattenSeq([k \in 1 .. Len(sources) |-> At(sources[k], "ip4")])
                     \o Opt(par, <<"group">>, "ip4")
                     \o ToGroup(par, 12 + (IF Has(par, "group") THEN 4 * Len(sources) ELSE 0))
              [] query /\ ~v3 ->
                   Opt(par, <<"time">>, "double") \o Opt(par, <<"group">>, "ip4")
                     \o ToGroup(par, 8)
              [] report -> Need(par, <<"group">>, "ip4") \o ToGroup(par, 8)
              [] leave  -> Need(par, <<"group">>, "ip4") \o Multicast(24, 8)
              [] OTHER  ->
                   Need(par, <<"group">>, "ip4") \o Need(par, <<"type">>, "int")
                     \o Opt(par, <<"time">>, "int")
                     \o (IF DestIsMulticast(par) THEN Multicast(24, 8) ELSE Unicast(24, 8)))

(* compileRaw insists on a payload: BUG_ON.                                *)
IcmpRaw(par) == Do("bugIfEmpty", 0, 0) \o IPCompile(par, FALSE, 4)
compileICMP(par, noEth) ==
  IPHead(par, noEth, FALSE) \o Need(par, <<"type", "code">>, "int")
    \o Payload(par, "stream", FALSE) \o Opt(par, <<"chksum">>, "int")
    \o IcmpRaw(par)

(* Without payload, an IP and a UDP header are made up: 28 bytes.          *)
InetHeader(par) ==
  Payload(par, "embeddedIP", FALSE)
    \o (IF Has(par, "payload") THEN <<>> ELSE Do("genericHeader", 0, 28))
compileICMPWithEmbedded(par, noEth) ==
  IPHead(par, noEth, FALSE) \o Opt(par, <<"code">>, "int") \o InetHeader(par)
    \o IPCompile(par, FALSE, 8)
compileICMPRedirect(par, noEth) ==
  IPHead(par, noEth, FALSE) \o Opt(par, <<"code">>, "int") \o Need(par, <<"gw">>, "ip4")
    \o InetHeader(par) \o IPCompile(par, FALSE, 8)
compileICMPPing(par, noEth) ==
  IPHead(par, noEth, FALSE) \o Opt(par, <<"id", "seq">>, "int")
    \o Payload(par, "embeddedIP", FALSE) \o IPCompile(par, FALSE, 8)

(* Checksum, key and sequence number make the header longer.               *)
GreCompile(par, isIPv6) ==
  IPCompile(par, isIPv6, 4 + 4 * Cardinality({n \in {"key", "seq", "chksum"} : Has(par, n)}))
compileGRE(par, noEth, isIPv6) ==
  IPHead(par, noEth, isIPv6) \o Need(par, <<"protocol">>, "int")
    \o Opt(par, <<"key", "seq", "chksum">>, "int") \o Payload(par, "embeddedIP", FALSE)
    \o GreCompile(par, isIPv6)

(* cLldpPacket::compile appends the TLVs, the last one is the end.         *)
PortFirst(par, noEth) ==
  (IF noEth THEN <<>>
   ELSE compileMacHeader(par, Destination(par, FALSE)) \o compileVLANTags(par))
    \o portID(par) \o chassisID(par) \o Opt(par, <<"ttl">>, "int") \o addTTL
    \o Do("lldp", 0, 0)
compileLLDP(par, noEth) ==
  (IF noEth THEN <<>>
   ELSE compileMacHeader(par, Destination(par, FALSE)) \o compileVLANTags(par))
    \o chassisID(par) \o portID(par) \o Opt(par, <<"ttl">>, "int") \o addTTL
    \o portDescription(par) \o systemName(par) \o systemDescription(par)
    \o systemCapabilities(par) \o managementAddress(par)
    \o portVID(par) \o portProtocolVID(par) \o vlanName(par) \o protocolIdentity(par)
    \o vidUsageDigest(par) \o managementVID(par) \o linkAggregation(par)
    \o congestionNotification(par) \o etsConfiguration(par) \o etsRecommendation(par)
    \o pfcControlConfig(par) \o applicationPriority(par) \o evb(par) \o cdcb(par)
    \o applicationVLAN(par)
    \o macPhyConfigStatus(par) \o powerViaMDI(par) \o maxFrameSize(par) \o eee(par)
    \o eeeFastWake(par)
    \o pnDelay(par) \o pnPortStatus(par) \o pnAlias(par) \o pnMrpPortState(par)
    \o pnChassisMac(par) \o pnPTCPStatus(par) \o pnMAUTypeExtension(par)
    \o pnMrpIcPortStatus(par)
    \o allRawTLVs(par) \o allOidTLVs(par) \o Do("lldp", 0, 0)

-----------------------------------------------------------------------------
(* The order in which parse compares the keyword with the names.           *)
Chain ==
  <<PR_RAW, PR_ETH, PR_ARP, PR_ARP_PROBE, PR_ARP_ANNOUNCE, PR_IPV4, PR_IPV6, PR_UDP4,
    PR_UDP6, PR_VRRP, PR_VRRP3, PR_STP, PR_STP_TCN, PR_RSTP, PR_IGMP, PR_IGMP_QUERY,
    PR_IGMP3_QUERY, PR_IGMP_REPORT, PR_IGMP_LEAVE, PR_ICMP4, PR_ICMP4_UNREACH,
    PR_ICMP4_SRCQ, PR_ICMP4_TIMEX, PR_ICMP4_REDIR, PR_ICMP4_ECHO, PR_ICMP4_ECHOR,
    PR_TCP4, PR_TCP6, PR_VXLAN4, PR_VXLAN6, PR_GRE4, PR_GRE6, PR_LLDP>>

(* strncmp up to the length of the keyword: the first name that begins     *)
(* with it.  The empty name stands for an unknown protocol.                *)
Names == [i \in 1 .. Len(Chain) |-> Chain[i].syntax]
Unknown == <<>>
LastMatch(keyword) ==
  LET hits == {i \in 1 .. Len(Names) : IsPrefix(keyword, Names[i])}
  IN  IF hits = {} THEN Unknown ELSE Names[Max(hits)]
Selected(keyword) ==
  LET hits == {i \in 1 .. Len(Names) : IsPrefix(keyword, Names[i])}
  IN  IF hits = {} THEN Unknown ELSE Names[Min(hits)]

Compile(name, par, noEth) ==
  CASE name = PR_RAW.syntax          -> compileRAW(par, noEth)
    [] name = PR_ETH.syntax          -> compileETH(par)
    [] name = PR_ARP.syntax          -> compileARP(par, FALSE, FALSE)
    [] name = PR_ARP_PROBE.syntax    -> compileARP(par, TRUE, FALSE)
    [] name = PR_ARP_ANNOUNCE.syntax -> compileARP(par, FALSE, TRUE)
    [] name = PR_IPV4.syntax         -> compileIP(par, noEth, FALSE)
    [] name = PR_IPV6.syntax         -> compileIP(par, noEth, TRUE)
    [] name = PR_UDP4.syntax         -> compileUDP(par, noEth, FALSE)
    [] name = PR_UDP6.syntax         -> compileUDP(par, noEth, TRUE)
    [] name = PR_VRRP.syntax         -> compileVRRP(par, noEth, 2)
    [] name = PR_VRRP3.syntax        -> compileVRRP(par, noEth, 3)
    [] name = PR_STP.syntax          -> compileSTP(par, noEth, FALSE, FALSE)
    [] name = PR_STP_TCN.syntax      -> compileSTP(par, noEth, FALSE, TRUE)
    [] name = PR_RSTP.syntax         -> compileSTP(par, noEth, TRUE, FALSE)
    [] name = PR_IGMP.syntax         -> compileIGMP(par, noEth, FALSE, FALSE, FALSE, FALSE)
    [] name = PR_IGMP_QUERY.syntax   -> compileIGMP(par, noEth, FALSE, TRUE, FALSE, FALSE)
    [] name = PR_IGMP3_QUERY.syntax  -> compileIGMP(par, noEth, TRUE, TRUE, FALSE, FALSE)
    [] name = PR_IGMP_REPORT.syntax  -> compileIGMP(par, noEth, FALSE, FALSE, TRUE, FALSE)
    [] name = PR_IGMP_LEAVE.syntax   -> compileIGMP(par, noEth, FALSE, FALSE, FALSE, TRUE)
    [] name = PR_ICMP4.syntax        -> compileICMP(par, noEth)
    [] name \in {PR_ICMP4_UNREACH.syntax, PR_ICMP4_SRCQ.syntax, PR_ICMP4_TIMEX.syntax}
                                     -> compileICMPWithEmbedded(par, noEth)
    [] name = PR_ICMP4_REDIR.syntax  -> compileICMPRedirect(par, noEth)
    [] name \in {PR_ICMP4_ECHO.syntax, PR_ICMP4_ECHOR.syntax}
                                     -> compileICMPPing(par, noEth)
    [] name = PR_TCP4.syntax         -> compileTCP(par, noEth, FALSE)
    [] name = PR_TCP6.syntax         -> compileTCP(par, noEth, TRUE)
    [] name = PR_VXLAN4.syntax       -> compileVXLAN(par, noEth, FALSE)
    [] name = PR_VXLAN6.syntax       -> compileVXLAN(par, noEth, TRUE)
    [] name = PR_GRE4.syntax         -> compileGRE(par, noEth, FALSE)
    [] name = PR_GRE6.syntax         -> compileGRE(par, noEth, TRUE)
    [] name = PR_LLDP.syntax         -> compileLLDP(par, noEth)

-----------------------------------------------------------------------------
(* A call of parse: the steps still to do, how often each parameter was    *)
(* found, and the packet.  m_mtu is the MTU when the packet was made,      *)
(* payloadOf the packet in whose buffer the payload is (0: the             *)
(* instruction's text), saved the MTU that compileEmbedded keeps.          *)
Call(instruction, noEth, m, packet) ==
  LET name == Selected(instruction.keyword)
  IN  [name |-> name, par |-> instruction.par, noEthHeader |-> noEth,
       todo |-> Compile(name, instruction.par, noEth),
       used |-> [i \in 1 .. Len(instruction.par) |-> 0],
       packet |-> packet, eth |-> NewPacket(MaxLengthFor(m)), m_mtu |-> m, tlvs |-> <<>>,
       len |-> 0, payloadOf |-> 0, saved |-> 0]

NoInstruction == [keyword |-> <<>>, par |-> <<>>]

Init ==
  /\ outcome = "idle"
  /\ input = NoInstruction
  /\ stack = <<>>
  /\ mtu = MTU
  /\ live = {}
  /\ result = <<>>
  /\ m_ipOptionalDestMAC \in BOOLEAN

Top == stack[Len(stack)]
Step1 == Head(Top.todo)
SetTop(call) == stack' = [stack EXCEPT ![Len(stack)] = call]

(* The packet of the innermost call, and the one that the next call makes: *)
(* operator new gives memory that is not allocated.                        *)
Packet == Top.packet
Fresh == CHOOSE p \in 1 .. Cardinality(live) + 1 : p \notin live

-----------------------------------------------------------------------------
(* parse, called from outside.                                             *)
Parse(instruction) ==
  /\ outcome = "idle"
  /\ input' = instruction
  /\ \/ /\ Selected(instruction.keyword) # Unknown
        /\ stack' = <<Call(instruction, FALSE, mtu, Fresh)>>
        /\ live' = live \union {Fresh}
        /\ outcome' = "parsing"
     \/ /\ Selected(instruction.keyword) = Unknown
        /\ outcome' = "rejected"
        /\ UNCHANGED <<stack, live>>
  /\ UNCHANGED <<mtu, result, m_ipOptionalDestMAC>>

Found == Step1.at # 0
Value == Top.par[Step1.at]
IsEmbedded == Step1.as \in {"embedded", "embeddedIP"} /\ Found /\ Value.kind = "emb"
LookupOk == IF Found THEN Converts(Value, Step1.as, Step1.n) ELSE ~Step1.must

(* A parameter is looked up, marked as used and converted.                 *)
Lookup ==
  /\ outcome = "parsing" /\ Top.todo # <<>>
  /\ Step1.op \in {"find", "payload"} /\ LookupOk /\ ~IsEmbedded
  /\ LET found == IF Found THEN [Top EXCEPT !.used[Step1.at] = @ + 1] ELSE Top
         read  == IF Step1.op = "payload" /\ Found
                  THEN [found EXCEPT !.len = StreamLen(Value)] ELSE found
     IN  SetTop([read EXCEPT !.todo = Tail(@)])
  /\ UNCHANGED <<outcome, input, mtu, live, result, m_ipOptionalDestMAC>>

(* compileEmbedded: the MTU is saved and raised, parse is called.          *)
Embed ==
  /\ outcome = "parsing" /\ Top.todo # <<>>
  /\ IsEmbedded
  /\ LET inner == Value.inner[1]
         noEth == Step1.as = "embeddedIP"
         outer == [Top EXCEPT !.used[Step1.at] = @ + 1, !.saved = mtu]
     IN  /\ mtu' = EmbeddedMtu
         /\ \/ /\ Selected(inner.keyword) # Unknown /\ Len(stack) < MaxDepth
               /\ stack' = [stack EXCEPT ![Len(stack)] = outer]
                             \o <<Call(inner, noEth, EmbeddedMtu, Fresh)>>
               /\ live' = live \union {Fresh}
               /\ UNCHANGED outcome
            \/ /\ Selected(inner.keyword) = Unknown \/ Len(stack) >= MaxDepth
               /\ SetTop(outer)
               /\ outcome' = "unwinding"
               /\ UNCHANGED live
  /\ UNCHANGED <<input, result, m_ipOptionalDestMAC>>

(* The first Ethernet packet of an IP packet (see IPFragment).             *)
EightBytes(n) == (n \div 8) * 8
FirstFragment(hdr, n, m) == IF hdr + n <= m THEN hdr + n ELSE hdr + EightBytes(m - hdr)

TlvBytes(tlvs) == FoldLeft(LAMBDA sum, t : sum + 2 + t.len, 0, tlvs)

(* The calls of the packet: how many bytes they add ...                    *)
Added(c, s) ==
  CASE s.op \in {"vlan", "llc", "snap", "setBytes", "arp"} -> s.n
    [] s.op = "setPayload" -> c.len
    [] s.op = "lldp"       -> TlvBytes(c.tlvs) + 2
    [] s.op = "ip"         -> FirstFragment(s.at, s.n + c.len, c.m_mtu)
    [] OTHER               -> 0

(* ... the packet afterwards ...                                           *)
Ethertype(s) == setTypeLength(s, <<"type", 0>>)
LldpCompiled(e, len) ==
  appendPayload(Ethertype(IF e.hasDMAC THEN e ELSE setDestMac(e)), len)
Effect(c, s) ==
  CASE s.op \in {"dmac", "multicast"} -> setDestMac(c.eth)
    [] s.op = "smac"          -> setSrcMac(c.eth)
    [] s.op = "vlan"          -> addVlanTag(c.eth, s.at)
    [] s.op = "llc"           -> addLlcHeader(c.eth, s.n)
    [] s.op = "snap"          -> addSnapHeader(c.eth)
    [] s.op = "setPayload"    -> setPayload(c.eth, c.len)
    [] s.op = "setBytes"      -> setPayload(c.eth, s.n)
    [] s.op = "setLength"     -> setLength(c.eth)
    [] s.op = "setTypeLength" -> Ethertype(c.eth)
    [] s.op = "arp"           -> setPayload(Ethertype(setSrcMac(setDestMac(c.eth))), s.n)
    [] s.op = "ip"            -> setPayload(Ethertype(c.eth), Added(c, s))
    [] s.op = "lldp"          -> LldpCompiled(c.eth, Added(c, s))
    [] s.op = "raw"           -> IF s.at = 0 THEN setPayload(NewPacket(s.n + MacHeaderSize), s.n)
                                 ELSE setRaw(NewPacket(s.n + MacHeaderSize), s.n)
    [] OTHER                  -> c.eth

(* ... a FormatException if it does not fit, and BUG_ON.                   *)
Refused(c, s) ==
  \/ ~Fits(c.eth, Added(c, s))
  \/ s.op = "ip" /\ s.at + s.n + c.len > MaxDatagram
Bug(c, s) ==
  \/ s.op = "bugIfEmpty" /\ c.len = 0
  \/ s.op = "ip" /\ s.at + s.n + c.len <= MaxDatagram
       /\ (s.n + c.len = 0 \/ (s.at = 40 /\ s.at + s.n + c.len > c.m_mtu))

IsCall == outcome = "parsing" /\ Top.todo # <<>> /\ Step1.op \notin {"find", "payload"}

Operate ==
  /\ IsCall
  /\ ~Refused(Top, Step1) /\ ~Bug(Top, Step1)
  /\ SetTop([Top EXCEPT
       !.todo = Tail(@),
       !.eth  = Effect(Top, Step1),
       !.tlvs = IF Step1.op = "tlv" THEN Append(@, [type |-> Step1.at, len |-> Step1.n]) ELSE @,
       !.len  = IF Step1.op = "genericHeader" THEN Step1.n ELSE @])
  /\ UNCHANGED <<outcome, input, mtu, live, result, m_ipOptionalDestMAC>>

Abort ==
  /\ IsCall /\ Bug(Top, Step1)
  /\ outcome' = "bug"
  /\ UNCHANGED <<input, stack, mtu, live, result, m_ipOptionalDestMAC>>

-----------------------------------------------------------------------------
(* The end of a call: all parameters must have been used.                  *)
Complete == outcome = "parsing" /\ Top.todo = <<>> /\ AllUsed(Top.par, Top.used)

Return ==
  /\ Complete /\ Len(stack) = 1
  /\ outcome' = "accepted"
  /\ result' = <<Top>>
  /\ stack' = <<>>
  /\ UNCHANGED <<input, mtu, live, m_ipOptionalDestMAC>>

(* Back in compileEmbedded: the payload of the outer packet is in the      *)
(* buffer of the inner one, which nobody frees.                            *)
InnerFreed(inner) == live' = live \ {inner}
InnerKept(inner)  == UNCHANGED live
ReturnEmbedded ==
  /\ Complete /\ Len(stack) > 1
  /\ LET outer == stack[Len(stack) - 1]
         len   == IF Top.noEthHeader THEN Top.eth.payloadLength ELSE getLength(Top.eth)
     IN  /\ mtu' = outer.saved
         /\ stack' = [Front(stack) EXCEPT ![Len(stack) - 1] =
                        [outer EXCEPT !.len = len, !.payloadOf = Packet, !.todo = Tail(@)]]
  /\ InnerKept(Packet)
  /\ UNCHANGED <<outcome, input, result, m_ipOptionalDestMAC>>

(* A FormatException ends the call: the packet is freed, and it becomes a  *)
(* ParseException for the callers.                                         *)
LookupFails == Top.todo # <<>> /\ Step1.op \in {"find", "payload"} /\ ~LookupOk
CallFails   == IsCall /\ Refused(Top, Step1)
Unused      == Top.todo = <<>> /\ ~AllUsed(Top.par, Top.used)

FormatException ==
  /\ outcome = "parsing"
  /\ LookupFails \/ CallFails \/ Unused
  /\ live' = live \ {Packet}
  /\ stack' = Front(stack)
  /\ outcome' = IF Len(stack) = 1 THEN "rejected" ELSE "unwinding"
  /\ UNCHANGED <<input, mtu, result, m_ipOptionalDestMAC>>

(* It passes compileEmbedded, which restores the MTU, and the compile      *)
(* function, which frees its packet.                                       *)
NotRestored(saved) == UNCHANGED mtu
Restore(saved)     == mtu' = saved
Unwind ==
  /\ outcome = "unwinding"
  /\ Restore(Top.saved)
  /\ live' = live \ {Packet}
  /\ stack' = Front(stack)
  /\ outcome' = IF Len(stack) = 1 THEN "rejected" ELSE "unwinding"
  /\ UNCHANGED <<input, result, m_ipOptionalDestMAC>>

(* The next instruction: the packet belongs to the caller now, embedded    *)
(* ones are lost, and the next call counts anew.  The program ends after   *)
(* an error.                                                               *)
Deliver ==
  /\ outcome = "accepted"
  /\ outcome' = "idle"
  /\ input' = NoInstruction /\ result' = <<>> /\ live' = {}
  /\ UNCHANGED <<stack, mtu, m_ipOptionalDestMAC>>

Next ==
  \/ \E i \in Instructions : Parse(i)
  \/ Lookup \/ Embed \/ Operate \/ Abort
  \/ Return \/ ReturnEmbedded \/ FormatException \/ Unwind
  \/ Deliver

Spec == Init /\ [][Next]_vars

-----------------------------------------------------------------------------
(* Every parameter of an accepted instruction has been used for exactly    *)
(* one thing: with repeated groups (vid, prio, vid, prio) findParameter    *)
(* must not give an attribute to two of them.  The exception is the "id"   *)
(* of an echo, which becomes the identification of the IP header and of    *)
(* the ICMP message.                                                       *)
Pings == {PR_ICMP4_ECHO.syntax, PR_ICMP4_ECHOR.syntax}
UsesOf(c, i) == IF c.par[i].name = "id" /\ c.name \in Pings THEN 2 ELSE 1
Binding ==
  outcome = "accepted" =>
    \A i \in 1 .. Len(result[1].par) : result[1].used[i] = UsesOf(result[1], i)

(* compileEmbedded changes the MTU of the whole program.  However parse    *)
(* ends, an embedded instruction that fails included, the MTU is the one   *)
(* of the interface again; while an embedded packet is made, it is raised. *)
MtuRestored ==
  /\ stack = <<>> => mtu = MTU
  /\ Len(stack) > 1 => mtu = EmbeddedMtu

(* compileEmbedded returns a pointer into the embedded packet: that packet *)
(* exists as long as the outer one may be compiled from it.                *)
PayloadAlive == \A d \in 1 .. Len(stack) : stack[d].payloadOf \in live \union {0}

(* The frame that parse returns: the addresses, the VLAN tags in the order *)
(* of the instruction, ethertype or length, LLC and SNAP header, payload.  *)
(* Tags, headers and payload are inserted in different orders for the      *)
(* different protocols, and each insertion moves what is behind it.  Only  *)
(* with -a, or for an IPv6 multicast, the destination may be missing.      *)
TagBytes(tags) == FlattenSeq([k \in 1 .. Len(tags) |-> Bytes(<<"vlan", tags[k]>>, VlanSize)])
Expected(c) ==
  LET e     == c.eth
      tags  == Occurrences(c.par, 0, "vid")
      rest  == Len(Frame(e)) - MacHeaderSize - VlanSize * Len(tags)
      llc   == CASE c.name = PR_ETH.syntax /\ Has(c.par, "dsap") -> LlcLength(c.par)
                 [] c.name \in {PR_STP.syntax, PR_RSTP.syntax, PR_STP_TCN.syntax} -> 3
                 [] c.name = PR_ETH.syntax /\ Has(c.par, "oui") -> 3
                 [] OTHER -> 0
      snap  == IF c.name = PR_ETH.syntax /\ Has(c.par, "oui") THEN SnapSize ELSE 0
      type  == IF llc > 0 \/ (c.name = PR_ETH.syntax /\ ~Has(c.par, "ethertype"))
               THEN <<"length", rest>> ELSE <<"type", 0>>
  IN  Bytes(<<IF e.hasDMAC THEN "dmac" ELSE "zero", 0>>, MacSize)
        \o Bytes(<<"smac", 0>>, MacSize) \o TagBytes(tags) \o Bytes(type, 2)
        \o Bytes(<<"llc", 0>>, llc) \o Bytes(<<"snap", 0>>, snap)
        \o Bytes(<<"payload", 0>>, rest - llc - snap)
DestinationLeftOut(c) ==
  /\ ~Has(c.par, "dmac")
  /\ m_ipOptionalDestMAC \/ (DestIsMulticast(c.par) /\ Get(c.par, "dip").kind = "mcast6")
FrameLayout ==
  outcome = "accepted" =>
    LET c == result[1]
    IN  IF c.name = PR_RAW.syntax
        THEN \A k \in 1 .. Len(Frame(c.eth)) : Frame(c.eth)[k] = <<"raw", 0>>
        ELSE /\ Frame(c.eth) = Expected(c)
             /\ Len(Frame(c.eth)) <= MTU + MacHeaderSize + VlanSize
             /\ ~c.eth.hasDMAC => DestinationLeftOut(c)
=============================================================================
