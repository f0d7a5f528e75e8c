------------------------------- MODULE Syntax -------------------------------
(***************************************************************************)
(* The parameters and protocols as syntax.hpp describes them to the user:  *)
(* cInstructionParser::printProtocolList prints these tables as the help   *)
(* of the command line.  A group of parameters is a function from names to *)
(* types; descriptions are left out.  InstructionParser models what the    *)
(* parser really looks up.                                                 *)
(***************************************************************************)
EXTENDS TLC

Integers(names)    == [n \in names |-> "Integer"]
Floats(names)      == [n \in names |-> "Float"]
Macs(names)        == [n \in names |-> "Mac"]
IPs(names)         == [n \in names |-> "IP"]
Bytestreams(names) == [n \in names |-> "Bytestream"]
Bits(names)        == [n \in names |-> "Bit"]

PAR_RAW ==
  Integers({"byte", "be16", "be32", "be64", "le16", "le32", "le64"}) @@
    Macs({"mac"}) @@ IPs({"ip4", "ip6"}) @@ Bytestreams({"stream"})
PAR_VLAN == Integers({"vid", "vtype", "prio"}) @@ Bits({"dei"})
PAR_ETH ==
  Integers({"dsap", "ssap", "control", "oui", "protocol", "ethertype"}) @@
    Macs({"smac", "dmac"}) @@ Bytestreams({"payload"})
PAR_IP ==
  Integers({"dscp", "ecn", "ttl", "protocol", "id", "hchksum", "fl"}) @@
    IPs({"dip", "sip"}) @@ Bytestreams({"payload"}) @@ Bits({"df"})
PAR_UDP == Integers({"sport", "dport", "chksum"}) @@ Bytestreams({"payload"})
PAR_ARP == Integers({"op"})
PAR_VRRP ==
  Integers({"vrid", "vrprio", "type", "aint", "chksum"}) @@ IPs({"vrip"})
PAR_STP ==
  Integers({"rbprio", "rbidext", "bprio", "bidext", "pprio", "pnum",
    "msgage", "maxage", "hello", "delay", "rpathcost"}) @@ Macs({"rbmac",
    "bmac"}) @@ Bits({"topochange", "topochangeack"})
PAR_RSTP ==
  Integers({"portrole"}) @@ Bits({"proposal", "learning", "forwarding",
    "agreement"})
PAR_IGMP ==
  Integers({"qrv", "type"}) @@ Floats({"qqic", "time"}) @@ IPs({"rsip",
    "group"}) @@ Bits({"s"})
PAR_ICMP4 ==
  Integers({"type", "code", "chksum", "id", "seq"}) @@ IPs({"gw"}) @@
    Bytestreams({"payload"})
PAR_TCP ==
  Integers({"sport", "dport", "seq", "ack", "win", "urgptr", "chksum"}) @@
    Bytestreams({"payload"}) @@ Bits({"FIN", "SYN", "RESET", "PUSH", "ACK",
    "URGENT", "ECN", "CWR", "NONCE"})
PAR_VXLAN == Integers({"vni"}) @@ Bytestreams({"payload"})
PAR_GRE ==
  Integers({"protocol", "key", "seq", "chksum"}) @@
    Bytestreams({"payload"})

(* LLDP: a group for every TLV.                                            *)
PAR_LLDP_CHASSIS_ID ==
  Integers({"chassis-id-type"}) @@ Bytestreams({"chassis-id"})
PAR_LLDP_PORT_ID == Integers({"port-id-type"}) @@ Bytestreams({"port-id"})
PAR_LLDP_TTL == Integers({"ttl"})
PAR_LLDP_DESCRIPTIONS == Bytestreams({"port-desc", "sys-name", "sys-desc"})
PAR_LLDP_SYSCAP ==
  Bits({"cap-other", "cap-repeater", "cap-bridge", "cap-wlan-ap",
    "cap-router", "cap-phone", "cap-docsis", "cap-station", "cap-cvlan",
    "cap-svlan", "cap-tpmr", "encap-other", "encap-repeater",
    "encap-bridge", "encap-wlan-ap", "encap-router", "encap-phone",
    "encap-docsis", "encap-station", "encap-cvlan", "encap-svlan",
    "encap-tpmr"})
PAR_LLDP_MGT ==
  Integers({"mgt-addr-type", "if-number", "if-number-type"}) @@
    Bytestreams({"mgt-addr", "mgt-oid"})
PAR_LLDP_PVID == Integers({"pvid"})
PAR_LLDP_PPVID == Integers({"ppvid"}) @@ Bits({"PPVID-SUP", "PPVID-EN"})
PAR_LLDP_VLAN_NAME == Integers({"vlan-name-id"}) @@ Bytestreams({"vlan-name"})
PAR_LLDP_PROTO_ID == Bytestreams({"proto-id"})
PAR_LLDP_VID == Integers({"vid-usage-digest", "mgt-vid"})
PAR_LLDP_LAG ==
  Integers({"lag-port-type", "lag-port-id"}) @@ Bits({"lag-cap",
    "lag-status"})
PAR_LLDP_CONG_NOTE == Integers({"cong-cnpv", "cong-ready"})
PAR_LLDP_ETS_CFG ==
  Integers({"ets-cfg-max-tc", "ets-cfg-prio", "ets-cfg-bw",
    "ets-cfg-tsa"}) @@ Bits({"ets-cfg-willing", "ets-cfg-cbs"})
PAR_LLDP_ETS_REC == Integers({"ets-rec-prio", "ets-rec-bw", "ets-rec-tsa"})
PAR_LLDP_PFC ==
  Integers({"pfc-cap", "pfc-enable"}) @@ Bits({"pfc-willing", "pfc-mbc"})
PAR_LLDP_APPL == Integers({"appl-prio", "appl-prio-sel", "appl-prio-proto"})
PAR_LLDP_EVB ==
  Integers({"evb-bridge-status", "evb-station-status", "evb-max-retries",
    "evb-rte", "evb-mode", "evb-rwd", "evb-rka"}) @@ Bits({"evb-rol-rwd",
    "evb-rol-rka"})
PAR_LLDP_CDCP ==
  Integers({"cdcp-ch-cap", "cdcp-scid", "cdcp-svid"}) @@
    Bits({"cdcp-role", "cdcp-scomp"})
PAR_LLDP_APPL_VLAN ==
  Integers({"appl-vlan-vid", "appl-vlan-sel", "appl-vlan-proto"})
PAR_LLDP_MACPHY ==
  Integers({"autoneg-caps", "mautype"}) @@ Bits({"autoneg-sup",
    "autoneg-en"})
PAR_LLDP_POE ==
  Integers({"poe-power-pair", "poe-power-class"}) @@
    Bits({"poe-port-class", "poe-power-sup", "poe-power-state",
    "poe-pair-ctrl"})
PAR_LLDP_POE_DLL ==
  Integers({"poe-power-type", "poe-power-src", "poe-power-prio"}) @@
    Floats({"poe-req-power", "poe-alloc-power"}) @@ Bits({"poe-pd-4pid"})
PAR_LLDP_MAX_FRAME_SIZE == Integers({"max-frame-size"})
PAR_LLDP_EEE ==
  Integers({"eee-tx-tw", "eee-rx-tw", "eee-fb-rx-tw", "eee-echo-tx-tw",
    "eee-echo-rx-tw"})
PAR_LLDP_EEE_FW ==
  Integers({"eee-fw-tx", "eee-fw-rx", "eee-fw-echo-tx", "eee-fw-echo-rx"})
PAR_LLDP_PN_DELAY ==
  Integers({"pn-port-delay-rx", "pn-port-delay-rx-rem",
    "pn-port-delay-tx", "pn-port-delay-tx-rem", "pn-cable-delay"})
PAR_LLDP_PN_RTC ==
  Integers({"pn-rtc2-state", "pn-rtc3-state"}) @@ Bits({"pn-rtc3-frag",
    "pn-rtc3-short-preamp", "pn-rtc3-opt"})
PAR_LLDP_PN_ALIAS == Bytestreams({"pn-alias"})
PAR_LLDP_PN_MRP ==
  Integers({"pn-mrp-mrrt-state"}) @@ Bytestreams({"pn-mrp-domain",
    "pn-mrp-domain-uuid"})
PAR_LLDP_PN_CHASSIS_MAC == Macs({"pn-chassis-mac"})
PAR_LLDP_PN_PTCP ==
  Integers({"pn-ptcp-period-len", "pn-ptcp-red-orange", "pn-ptcp-orange",
    "pn-ptcp-green"}) @@ Macs({"pn-ptcp-master-mac"}) @@
    Bytestreams({"pn-ptcp-domain-uuid", "pn-ptcp-irdata-uuid"})
PAR_LLDP_PN_MAU_TYPE_EXT == Integers({"pn-mautype-ext"})
PAR_LLDP_PN_MRP_IC ==
  Integers({"pn-mrp-ic-domain-id", "pn-mrp-ic-role", "pn-mrp-ic-mic-pos"})
PAR_LLDP_TLV == Integers({"type"}) @@ Bytestreams({"value"})
PAR_LLDP_OUI_TLV ==
  Integers({"oui-type"}) @@ Bytestreams({"oui", "oui-value"})

-----------------------------------------------------------------------------
Of(group, names) == [n \in names |-> group[n]]
None == [n \in {} |-> ""]

(* The name of a protocol is a sequence of parts, so that a keyword that   *)
(* only spells the beginning of a name can be told apart.                  *)
Protocol(syntax, mandatory, optional) ==
  [syntax |-> syntax, mandatory |-> mandatory, optional |-> optional]

smac == Of(PAR_ETH, {"smac"})
dmac == Of(PAR_ETH, {"dmac"})
dip  == Of(PAR_IP, {"dip"})
sip  == Of(PAR_IP, {"sip"})
PAR_IP4_OPT == Of(PAR_IP, {"dscp", "ecn", "ttl", "df", "sip", "id", "hchksum"})
PAR_IP6_OPT == Of(PAR_IP, {"dscp", "ecn", "ttl", "sip", "fl"})

PR_RAW == Protocol(<<"raw">>, None, PAR_RAW)
PR_ETH ==
  LET mandatory == Of(PAR_ETH, {"dmac", "payload"})
  IN  Protocol(<<"eth">>, mandatory,
               Of(PAR_ETH, DOMAIN PAR_ETH \ DOMAIN mandatory) @@ PAR_VLAN)

IPProtocol(syntax, options) ==
  Protocol(syntax, Of(PAR_IP, {"dip", "protocol", "payload"}),
           smac @@ dmac @@ options @@ PAR_VLAN)
PR_IPV4 == IPProtocol(<<"ip", "v4">>, PAR_IP4_OPT)
PR_IPV6 == IPProtocol(<<"ip", "v6">>, PAR_IP6_OPT)

UDPProtocol(syntax, options) ==
  Protocol(syntax, dip @@ Of(PAR_UDP, {"sport", "dport"}),
           smac @@ dmac @@ options @@ PAR_VLAN @@ Of(PAR_UDP, {"payload", "chksum"}))
PR_UDP4 == UDPProtocol(<<"udp">>, PAR_IP4_OPT)
PR_UDP6 == UDPProtocol(<<"udp", "6">>, PAR_IP6_OPT)

PR_ARP == Protocol(<<"arp">>, PAR_ARP @@ dip, smac @@ dmac @@ sip @@ PAR_VLAN)
PR_ARP_PROBE == Protocol(<<"arp", "-probe">>, dip, PAR_VLAN)
PR_ARP_ANNOUNCE == Protocol(<<"arp", "-announce">>, None, dip @@ PAR_VLAN)

VRRPProtocol(syntax) ==
  Protocol(syntax, Of(PAR_VRRP, {"vrip", "vrid"}),
           smac @@ sip @@ Of(PAR_VRRP, {"vrprio", "type", "aint", "chksum"}) @@ PAR_VLAN)
PR_VRRP  == VRRPProtocol(<<"vrrp">>)
PR_VRRP3 == VRRPProtocol(<<"vrrp", "3">>)

PR_STP  == Protocol(<<"stp">>, None, smac @@ PAR_STP @@ PAR_VLAN)
PR_RSTP == Protocol(<<"rstp">>, None, smac @@ PAR_STP @@ PAR_RSTP @@ PAR_VLAN)
PR_STP_TCN == Protocol(<<"stp", "-tcn">>, None, None)

PR_IGMP ==
  Protocol(<<"igmp">>, dmac @@ dip @@ Of(PAR_IGMP, {"group", "type"}),
           Of(PAR_IGMP, {"time"}) @@ smac @@ PAR_IP4_OPT @@ PAR_VLAN)
PR_IGMP_QUERY ==
  Protocol(<<"igmp", "-query">>, None,
           Of(PAR_IGMP, {"time", "group"}) @@ PAR_IP4_OPT @@ PAR_VLAN)
PR_IGMP3_QUERY ==
  Protocol(<<"igmp", "3-query">>, None,
           Of(PAR_IGMP, {"time", "group", "s", "qrv", "qqic", "rsip"})
             @@ PAR_IP4_OPT @@ PAR_VLAN)
PR_IGMP_REPORT ==
  Protocol(<<"igmp", "-report">>, Of(PAR_IGMP, {"group"}), PAR_IP4_OPT @@ PAR_VLAN)
PR_IGMP_LEAVE ==
  Protocol(<<"igmp", "-leave">>, Of(PAR_IGMP, {"group"}), PAR_IP4_OPT @@ PAR_VLAN)

ICMPProtocol(syntax, mandatory, optional) ==
  Protocol(syntax, dmac @@ dip @@ Of(PAR_ICMP4, mandatory),
           Of(PAR_ICMP4, optional) @@ smac @@ PAR_IP4_OPT @@ PAR_VLAN)
PR_ICMP4 == ICMPProtocol(<<"icmp">>, {"type", "code"}, {"payload", "chksum"})
PR_ICMP4_UNREACH ==
  ICMPProtocol(<<"icmp", "-unreachable">>, {}, {"code", "payload", "chksum"})
PR_ICMP4_SRCQ ==
  ICMPProtocol(<<"icmp", "-src-quench">>, {}, {"code", "payload", "chksum"})
PR_ICMP4_TIMEX ==
  ICMPProtocol(<<"icmp", "-time-exceeded">>, {}, {"code", "payload", "chksum"})
PR_ICMP4_REDIR ==
  ICMPProtocol(<<"icmp", "-redirect">>, {"gw"}, {"code", "payload", "chksum"})
PR_ICMP4_ECHO ==
  ICMPProtocol(<<"icmp", "-echo">>, {}, {"id", "seq", "payload", "chksum"})
PR_ICMP4_ECHOR ==
  ICMPProtocol(<<"icmp", "-echo", "-reply">>, {}, {"id", "seq", "payload", "chksum"})

TCPProtocol(syntax, options) ==
  LET mandatory == {"sport", "dport", "seq", "ack"}
  IN  Protocol(syntax, dmac @@ dip @@ Of(PAR_TCP, mandatory),
               smac @@ options @@ Of(PAR_TCP, DOMAIN PAR_TCP \ mandatory) @@ PAR_VLAN)
PR_TCP4 == TCPProtocol(<<"tcp">>, PAR_IP4_OPT)
PR_TCP6 == TCPProtocol(<<"tcp", "6">>, PAR_IP6_OPT)

VXLANProtocol(syntax, options) ==
  Protocol(syntax, dmac @@ dip @@ Of(PAR_UDP, {"sport", "dport"}) @@ PAR_VXLAN,
           smac @@ options @@ PAR_VLAN)
PR_VXLAN4 == VXLANProtocol(<<"vxlan">>, PAR_IP4_OPT)
PR_VXLAN6 == VXLANProtocol(<<"vxlan", "6">>, PAR_IP6_OPT)

(* The parameter "protocol", which compileGRE requires, is in neither list. *)
GREProtocol(syntax, options) ==
  Protocol(syntax, dmac @@ dip,
           smac @@ options @@ Of(PAR_GRE, {"key", "seq", "chksum", "payload"}) @@ PAR_VLAN)
PR_GRE4 == GREProtocol(<<"gre">>, PAR_IP4_OPT)
PR_GRE6 == GREProtocol(<<"gre", "6">>, PAR_IP6_OPT)

(* Six capabilities that cLldpParser looks up are declared and not listed. *)
Unlisted == {"cap-cvlan", "cap-svlan", "cap-tpmr",
             "encap-cvlan", "encap-svlan", "encap-tpmr"}
PR_LLDP ==
  Protocol(<<"lldp">>, None,
    smac @@ dmac @@ PAR_VLAN @@ PAR_LLDP_CHASSIS_ID @@
    PAR_LLDP_PORT_ID @@ PAR_LLDP_TTL @@ PAR_LLDP_DESCRIPTIONS @@
    Of(PAR_LLDP_SYSCAP, DOMAIN PAR_LLDP_SYSCAP \ Unlisted) @@
    PAR_LLDP_MGT @@ PAR_LLDP_PVID @@ PAR_LLDP_PPVID @@
    PAR_LLDP_VLAN_NAME @@ PAR_LLDP_PROTO_ID @@ PAR_LLDP_VID @@
    PAR_LLDP_LAG @@ PAR_LLDP_CONG_NOTE @@ PAR_LLDP_ETS_CFG @@
    PAR_LLDP_ETS_REC @@ PAR_LLDP_PFC @@ PAR_LLDP_APPL @@ PAR_LLDP_EVB
    @@ PAR_LLDP_CDCP @@ PAR_LLDP_APPL_VLAN @@ PAR_LLDP_MACPHY @@
    PAR_LLDP_POE @@ PAR_LLDP_POE_DLL @@ PAR_LLDP_MAX_FRAME_SIZE @@
    PAR_LLDP_EEE @@ PAR_LLDP_EEE_FW @@ PAR_LLDP_PN_DELAY @@
    PAR_LLDP_PN_RTC @@ PAR_LLDP_PN_ALIAS @@ PAR_LLDP_PN_MRP @@
    PAR_LLDP_PN_CHASSIS_MAC @@ PAR_LLDP_PN_PTCP @@
    PAR_LLDP_PN_MAU_TYPE_EXT @@ PAR_LLDP_PN_MRP_IC @@ PAR_LLDP_TLV @@
    PAR_LLDP_OUI_TLV)

all_protos ==
  {PR_RAW, PR_ETH, PR_ARP, PR_ARP_PROBE, PR_ARP_ANNOUNCE, PR_IPV4, PR_IPV6,
   PR_UDP4, PR_UDP6, PR_VRRP, PR_VRRP3, PR_STP, PR_RSTP, PR_STP_TCN, PR_IGMP,
   PR_IGMP_QUERY, PR_IGMP3_QUERY, PR_IGMP_REPORT, PR_IGMP_LEAVE, PR_ICMP4,
   PR_ICMP4_UNREACH, PR_ICMP4_SRCQ, PR_ICMP4_TIMEX, PR_ICMP4_REDIR,
   PR_ICMP4_ECHO, PR_ICMP4_ECHOR, PR_TCP4, PR_TCP6, PR_VXLAN4, PR_VXLAN6,
   PR_GRE4, PR_GRE6, PR_LLDP}
=============================================================================
