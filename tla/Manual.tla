------------------------------ MODULE Manual ------------------------------
(***************************************************************************)
(* Reference for the instruction parser: which instructions the help       *)
(* (Syntax) and the documents in doc/ allow, written as a predicate that   *)
(* knows nothing of how the parser searches (Documented), and apart from   *)
(* it the instructions about which documents and parser are known to       *)
(* disagree (Disagreement).  Where help and documents differ, Documented   *)
(* has what either of them allows.  It covers short values in LLDP, random *)
(* values of payloads, addresses and numbers, and one level of embedding.  *)
(***************************************************************************)
EXTENDS InstructionParser

(* Parameters come in groups: the head makes the others meaningful.  Of a  *)
(* repeated group, the parameters behind a head belong to it.              *)
Group(head, needs, may)     == [head |-> head, needs |-> needs, may |-> may, many |-> FALSE]
ManyGroups(head, needs, may) == [head |-> head, needs |-> needs, may |-> may, many |-> TRUE]

Alone(names) == {Group(n, {}, {}) : n \in names}
PerHeadGroups ==
  {ManyGroups("ppvid", {}, {"PPVID-SUP", "PPVID-EN"}),
   ManyGroups("vlan-name-id", {"vlan-name"}, {}), ManyGroups("proto-id", {}, {}),
   ManyGroups("type", {"value"}, {}), ManyGroups("oui", {"oui-type", "oui-value"}, {})}
OneTlvGroups ==
  {Group("mgt-addr", {}, {"mgt-addr-type", "if-number", "if-number-type", "mgt-oid"}),
   Group("lag-cap", {}, {"lag-status", "lag-port-type", "lag-port-id"}),
   Group("cong-cnpv", {"cong-ready"}, {}),
   Group("ets-cfg-willing", DOMAIN PAR_LLDP_ETS_CFG \ {"ets-cfg-willing"}, {}),
   Group("ets-rec-prio", {"ets-rec-bw", "ets-rec-tsa"}, {}),
   Group("pfc-willing", {"pfc-mbc", "pfc-cap", "pfc-enable"}, {}),
   ManyGroups("appl-prio", {"appl-prio-sel", "appl-prio-proto"}, {}),
   Group("evb-bridge-status", DOMAIN PAR_LLDP_EVB \ {"evb-bridge-status"}, {}),
   Group("cdcp-role", {"cdcp-scomp", "cdcp-ch-cap"}, {}),
   ManyGroups("appl-vlan-vid", {"appl-vlan-sel", "appl-vlan-proto"}, {}),
   Group("mautype", {"autoneg-caps"}, {"autoneg-sup", "autoneg-en"}),
   Group("poe-port-class", DOMAIN PAR_LLDP_POE \ {"poe-port-class"}, {}),
   Group("eee-tx-tw", DOMAIN PAR_LLDP_EEE \ {"eee-tx-tw"}, {}),
   Group("eee-fw-tx", DOMAIN PAR_LLDP_EEE_FW \ {"eee-fw-tx"}, {}),
   Group("pn-port-delay-rx", DOMAIN PAR_LLDP_PN_DELAY \ {"pn-port-delay-rx"}, {}),
   Group("pn-rtc3-state", {}, DOMAIN PAR_LLDP_PN_RTC \ {"pn-rtc3-state"}),
   Group("pn-ptcp-master-mac", {}, DOMAIN PAR_LLDP_PN_PTCP \ {"pn-ptcp-master-mac"}),
   Group("pn-mrp-ic-domain-id", {}, {"pn-mrp-ic-role", "pn-mrp-ic-mic-pos"}),
   ManyGroups("pvid", {}, {})}
  \union Alone({"port-desc", "sys-name", "sys-desc", "vid-usage-digest", "mgt-vid",
                "max-frame-size", "pn-alias", "pn-mrp-domain", "pn-mrp-domain-uuid",
                "pn-chassis-mac", "pn-mautype-ext"})
AttributeGroups ==
  {Group("chassis-id", {}, {"chassis-id-type"}), Group("port-id", {}, {"port-id-type"}),
   ManyGroups("cdcp-scid", {"cdcp-svid"}, {}),
   Group("poe-power-type", DOMAIN PAR_LLDP_POE_DLL \ {"poe-power-type"}, {})}
  \union Alone({"mgt-oui"})

GroupsOf(p) ==
  {ManyGroups("vid", {}, {"vtype", "prio", "dei"})} \union
  CASE p = PR_ETH           -> {Group("dsap", {"ssap"}, {"control"}), Group("oui", {"protocol"}, {})}
    [] p = PR_RAW           -> {ManyGroups(n, {}, {}) : n \in DOMAIN PAR_RAW}
    [] p = PR_IGMP3_QUERY   -> {ManyGroups("rsip", {}, {})}
    [] p \in {PR_VRRP, PR_VRRP3} -> {ManyGroups("vrip", {}, {})}
    [] p = PR_LLDP          -> PerHeadGroups \union OneTlvGroups \union AttributeGroups
    [] OTHER                -> {}

Positions(par, name) == {i \in 1 .. Len(par) : par[i].name = name}
Segment(par, g, h) ==
  IF g.many THEN {i \in h + 1 .. Len(par) : \A j \in h + 1 .. i : par[j].name # g.head}
  ELSE 1 .. Len(par)
WellGrouped(par, g) ==
  LET heads == Positions(par, g.head)
      Count(h, n) == Cardinality(Positions(par, n) \intersect Segment(par, g, h))
  IN  /\ g.many \/ Cardinality(heads) <= 1
      /\ \A h \in heads : /\ \A n \in g.needs : Count(h, n) = 1
                          /\ \A n \in g.may   : Count(h, n) <= 1
      /\ \A n \in g.needs \union g.may : \A i \in Positions(par, n) :
           \E h \in heads : i \in Segment(par, g, h)

(* How a value of a type is written.                                       *)
Uuids == {"pn-mrp-domain-uuid", "pn-ptcp-domain-uuid", "pn-ptcp-irdata-uuid"}
Addresses == {"chassis-id", "port-id", "mgt-addr"}
WellWritten(p, type, isIPv6) ==
  CASE type = "Integer"    -> p.kind \in {"int", "rand"}
    [] type = "Float"      -> p.kind \in {"int", "float"}
    [] type = "Mac"        -> p.kind \in {"mac", "rand"}
    [] type = "IP"         -> p.kind \in (IF isIPv6 THEN {"ip6", "mcast6"}
                                         ELSE {"ip4", "mcast4", "rand"})
    [] type = "Bit"        -> p.kind \in {"flag", "int"}
    [] type = "Bytestream" ->
         CASE p.name \in Uuids                 -> p.kind = "uuid"
           [] p.name \in Addresses             -> p.kind \in {"hex", "str", "mac", "ip4", "ip6"}
           [] p.name \in {"payload", "stream"} -> p.kind \in {"hex", "str", "rand", "emb"}
           [] OTHER                            -> p.kind \in {"hex", "str", "emb"}

(* What only the documents say: further parameters, or other types, ...    *)
DocTypes(p) ==
  CASE p \in {PR_GRE4, PR_GRE6}    -> Of(PAR_GRE, {"protocol"})
    [] p \in {PR_STP, PR_RSTP}     -> Floats({"msgage", "maxage", "hello", "delay"})
    [] p \in {PR_VRRP, PR_VRRP3}   -> PAR_IP4_OPT
    [] p \in {PR_IGMP_QUERY, PR_IGMP3_QUERY, PR_IGMP_REPORT, PR_IGMP_LEAVE} -> smac
    [] p = PR_LLDP                 -> Of(PAR_LLDP_SYSCAP, Unlisted) @@ Bytestreams({"mgt-oui"})
    [] OTHER                       -> None
Listed(p) == DocTypes(p) @@ p.mandatory @@ p.optional

(* ... and parameters that may be left out, mandatory in the help.         *)
DocOptional(p) ==
  CASE p = PR_ARP                   -> {"op"}
    [] p \in {PR_VXLAN4, PR_VXLAN6} -> {"dport", "vni", "payload"}
    [] p = PR_IGMP                  -> {"type"}
    [] OTHER                        -> {}
Required(p) == DOMAIN p.mandatory \ DocOptional(p)

(* "If vid is omitted the tag is not created and any accompanying VLAN     *)
(* parameters are ignored" (ethernet.md).                                  *)
TagOmitted(par) ==
  ~Has(par, "vid") /\ \A n \in DOMAIN PAR_VLAN : Cardinality(Positions(par, n)) <= 1

(* IP packets need a destination MAC unless it can be found.               *)
UsesIP(p) == "dip" \in DOMAIN p.mandatory /\ p \notin {PR_ARP, PR_ARP_PROBE}
DmacFound(par) == m_ipOptionalDestMAC \/ DestIsMulticast(par)

(* An IP packet that carries another one: the documents show the inner one *)
(* without (icmpv4.md) and with (gre.md) parameters of the MAC header.     *)
EthernetNames == {"dmac", "smac"} \union DOMAIN PAR_VLAN
Messages == {PR_ICMP4_UNREACH, PR_ICMP4_SRCQ, PR_ICMP4_TIMEX, PR_ICMP4_REDIR, PR_ICMP4_ECHO,
             PR_ICMP4_ECHOR}
CarriesIP(p) == p \in Messages \union {PR_ICMP4, PR_GRE4, PR_GRE6}
HasOwnMacs(p) == p \in {PR_ETH, PR_ARP, PR_ARP_PROBE, PR_ARP_ANNOUNCE}

(* Sizes that fit: a frame with one VLAN tag may use the whole MTU.  IPv6  *)
(* packets are not fragmented.                                             *)
MaxHeader == 60
PayloadLen(par) ==
  (IF Has(par, "payload") THEN StreamLen(Get(par, "payload")) ELSE 0)
    + 4 * Cardinality(Positions(par, "vrip") \union Positions(par, "rsip"))
Room(p, par, m) ==
  LET payload == PayloadLen(par)
      llc     == IF Has(par, "dsap") THEN LlcLength(par) ELSE IF Has(par, "oui") THEN 8 ELSE 0
      tags    == VlanSize * Cardinality(Positions(par, "vid"))
  IN  CASE p = PR_ETH -> payload + llc + tags <= m + VlanSize
        [] p \in {PR_IPV6, PR_UDP6, PR_TCP6, PR_VXLAN6, PR_GRE6} ->
             payload + MaxHeader <= m /\ (tags <= VlanSize \/ payload + MaxHeader + tags <= m)
        [] OTHER -> /\ payload + MaxHeader <= MaxDatagram
                    /\ tags <= VlanSize \/ payload + MaxHeader + tags <= m

IsIPv6(p) == p \in {PR_IPV6, PR_UDP6, PR_TCP6, PR_VXLAN6, PR_GRE6}

(* The rules of lldp.md beyond the groups.                                 *)
LldpRules(par, names) ==
  /\ ~{"pn-mrp-domain", "pn-mrp-domain-uuid"} \subseteq names
  /\ \A k \in Positions(par, "oui") : StreamLen(par[k]) = 3
  /\ \A k \in 1 .. Len(par) : par[k].len < 32
  /\ "poe-power-type" \in names => "poe-port-class" \in names
  /\ "cdcp-scid" \in names => "cdcp-role" \in names
  /\ "mgt-oui" \in names => "mgt-addr" \in names
  /\ \A k \in Positions(par, "mgt-addr") :
       "mgt-addr-type" \in names <=> par[k].kind \in {"hex", "str"}
  /\ \A g \in {<<"chassis-id", "chassis-id-type">>, <<"port-id", "port-id-type">>} :
       \A k \in Positions(par, g[1]) : g[2] \in names => par[k].kind \in {"hex", "str"}

(* The instruction without what is embedded in it; carried: as the payload *)
(* of an IP packet.                                                        *)
DocumentedAs(p, i, carried, m) ==
  LET par    == i.par
      names  == {par[k].name : k \in 1 .. Len(par)}
      groups == GroupsOf(p)
      Inside(n) == \E g \in groups : n \in {g.head} \union g.needs \union g.may
  IN  /\ i.keyword = p.syntax
      /\ names \subseteq DOMAIN Listed(p)
      /\ Required(p) \subseteq names \union {"dmac"}
      /\ \A k \in 1 .. Len(par) :
           WellWritten(par[k], Listed(p)[par[k].name], IsIPv6(p) \/ par[k].name = "ip6")
      /\ \A g \in groups : WellGrouped(par, g) \/ (g.head = "vid" /\ TagOmitted(par))
      /\ \A n \in names : Inside(n) \/ Cardinality(Positions(par, n)) = 1
      /\ "dmac" \in names \/ (IF UsesIP(p) THEN carried \/ DmacFound(par) ELSE p # PR_ETH)
      /\ Cardinality(Positions(par, "vrip")) <= 366 /\ Cardinality(Positions(par, "rsip")) <= 366
      /\ p = PR_ETH => ~{"dsap", "oui"} \subseteq names
      /\ p = PR_LLDP => LldpRules(par, names)
      /\ Room(p, par, m)

Embedded(par) == {k \in 1 .. Len(par) : par[k].kind = "emb"}
DocumentedIn(p, inner) ==
  /\ Embedded(inner.par) = {}
  /\ \E q \in all_protos : DocumentedAs(q, inner, CarriesIP(p), EmbeddedMtu)
  /\ IsIPv6(p) => PayloadLen(inner.par) + 2 * MaxHeader <= MTU
Documented(i) ==
  \E p \in all_protos :
    /\ DocumentedAs(p, i, FALSE, MTU)
    /\ \A k \in Embedded(i.par) : DocumentedIn(p, i.par[k].inner[1])

-----------------------------------------------------------------------------
(* Documented, and refused by the parser.  Each part names the document.   *)
DisagreementOf(p, par) ==
  LET Given(n) == Has(par, n)
      Holds(n, Bad(_)) == \E k \in Positions(par, n) : Bad(par[k])
      Empty(x) == x.kind # "emb" /\ StreamLen(x) = 0
  IN  \* gre.md:18: optional; the parser needs it
      \/ p \in {PR_GRE4, PR_GRE6} /\ ~Given("protocol")
      \* icmpv4.md:28: optional; BUG_ON without payload
      \/ p = PR_ICMP4 /\ ~Given("payload")
      \* no document forbids it; BUG_ON, or too many fragments
      \/ p \in {PR_IPV4, PR_IPV6, PR_ICMP4} /\ Holds("payload", Empty)
      \* syntax.hpp lists it for the ICMP messages, which do not read it
      \/ p \in Messages /\ Given("chksum")
      \* igmp.md:26: optional; needed.  syntax.hpp: Float; read as integer.
      \* igmp.md:69: "optional if dip is multicast"; must be left out then
      \/ /\ p = PR_IGMP
         /\ \/ ~Given("type")
            \/ Holds("time", LAMBDA x : x.kind = "float")
            \/ Given("dmac") /\ DmacFound(par)
      \* ethernet.md:62: ignored with an LLC header; unused for the parser
      \/ p = PR_ETH /\ Given("ethertype") /\ (Given("dsap") \/ Given("oui"))
      \* ethernet.md:73: ignored without vid; unused for the parser
      \/ "vid" \in DOMAIN Listed(p) /\ ~Given("vid") /\ \E n \in DOMAIN PAR_VLAN : Given(n)
      \* vrrp.md:18: up to 366; the parser reads 255
      \/ p \in {PR_VRRP, PR_VRRP3} /\ Cardinality(Positions(par, "vrip")) > 255
      \* lldp.md:321: may be repeated.  lldp.md:292: called mgt-oid by the parser.
      \* lldp.md:718: no order; the parser finds channels behind the role
      \/ /\ p = PR_LLDP
         /\ \/ Cardinality(Positions(par, "pvid")) > 1
            \/ Given("mgt-oui")
            \/ \E s \in Positions(par, "cdcp-scid") :
                 \A r \in Positions(par, "cdcp-role") : s < r

(* PACKET_REFERENCE.md:27: every byte stream may be an embedded packet;    *)
(* only the payload of some protocols may.  gre.md:100: the inner packet   *)
(* has a destination MAC; that is unused for the parser.                   *)
EmbedsIn(p) ==
  p \in Messages \union {PR_GRE4, PR_GRE6, PR_UDP4, PR_UDP6, PR_TCP4, PR_TCP6, PR_VXLAN4,
                         PR_VXLAN6}
DisagreementIn(p, x) ==
  \/ x.name # "payload" \/ ~EmbedsIn(p)
  \/ \E q \in all_protos :
       /\ q.syntax = x.inner[1].keyword
       /\ \/ DisagreementOf(q, x.inner[1].par)
          \/ CarriesIP(p) /\ ~HasOwnMacs(q) /\ \E n \in EthernetNames : Has(x.inner[1].par, n)
Disagreement(i) ==
  \E p \in all_protos :
    /\ p.syntax = i.keyword
    /\ DisagreementOf(p, i.par) \/ \E k \in Embedded(i.par) : DisagreementIn(p, i.par[k])

-----------------------------------------------------------------------------
(* What help and documents allow is refused only where they are known to   *)
(* disagree with the parser, and there it always is: no other parameter,   *)
(* in any combination, is overlooked (reported as unused), misread, or     *)
(* selects another protocol; no frame of a legal size is refused.  And     *)
(* what is accepted has all parameters that must be given.                 *)
RefusedOnlyAsListed ==
  /\ outcome \in {"rejected", "bug"} /\ Documented(input) => Disagreement(input)
  /\ outcome = "accepted" =>
       /\ Documented(input) => ~Disagreement(input)
       /\ \E p \in all_protos :
            /\ p.syntax = result[1].name
            /\ \A n \in Required(p) :
                 Has(input.par, n) \/ (n = "dmac" /\ DmacFound(input.par))

(* What help and documents allow is accepted: the promise of the manual.   *)
(* The parser breaks it for the instructions of Disagreement.              *)
DocumentedAccepted == outcome \in {"rejected", "bug"} => ~Documented(input)

(* An LLDP frame starts with chassis ID, port ID and time to live, once    *)
(* each, whatever the order of the parameters; each group of parameters    *)
(* adds its TLVs.  The value of a TLV is longer than the nine bits of the  *)
(* length field can say exactly if a table has too many rows, the number   *)
(* of which the parser does not limit.                                     *)
TlvsOf(par) ==
  FoldSet(LAMBDA g, n : n + Cardinality(Positions(par, g.head)), 0, PerHeadGroups)
    + Cardinality({g \in OneTlvGroups : Has(par, g.head)})
    + (IF \E n \in DOMAIN PAR_LLDP_SYSCAP : Has(par, n) THEN 1 ELSE 0)
MaxRows == [n \in {"appl-prio", "cdcp-scid", "appl-vlan-vid"} |->
              CASE n = "appl-prio" -> 168 [] n = "cdcp-scid" -> 167 [] OTHER -> 126]
TooManyRows(par) == \E n \in DOMAIN MaxRows : Cardinality(Positions(par, n)) > MaxRows[n]
IsLldp == outcome = "accepted" /\ result[1].name = PR_LLDP.syntax
LldpConforming ==
  IsLldp =>
    LET tlvs == result[1].tlvs
        par  == result[1].par
    IN  /\ [k \in 1 .. 3 |-> tlvs[k].type] = <<CHASSIS_ID, PORT_ID, TTL>>
        /\ Len(tlvs) = 3 + TlvsOf(par)
        /\ (\E k \in 1 .. Len(tlvs) : tlvs[k].len > MaxTlvLength) <=> TooManyRows(par)
        /\ ~Has(par, "type") => \A k \in 4 .. Len(tlvs) : tlvs[k].type > TTL
=============================================================================
