------------------------ MODULE MCInstructionParser ------------------------
(***************************************************************************)
(* Instructions for TLC, made from the tables of Syntax: for every         *)
(* protocol the mandatory parameters alone, with each group and each       *)
(* single option, with all of them, and with one of them missing; for some *)
(* of them sizes at the limits, values of a wrong kind and embedded        *)
(* packets.                                                                *)
(***************************************************************************)
EXTENDS Manual

InSomeOrder(set) == FoldSet(LAMBDA x, seq : Append(seq, x), <<>>, set)

KindFor(p, n) ==
  LET type == Listed(p)[n]
  IN  CASE type = "Integer"    -> "int"
        [] type = "Float"      -> "float"
        [] type = "Mac"        -> "mac"
        [] type = "Bit"        -> "flag"
        [] type = "Bytestream" -> IF n \in Uuids THEN "uuid" ELSE "hex"
        [] type = "IP"         -> IF IsIPv6(p) \/ n = "ip6" THEN "ip6"
                                  ELSE IF n = "group" THEN "mcast4" ELSE "ip4"
LenFor(n) == IF n = "oui" THEN 3 ELSE IF n = "type" THEN 9 ELSE 4

Pars(p, names) ==
  [k \in 1 .. Len(names) |-> Parameter(names[k], KindFor(p, names[k]), LenFor(names[k]))]
Instr(p, names) == [keyword |-> p.syntax, par |-> Pars(p, names)]

(* What the parser needs: also parameters that the documents call optional.*)
AlsoNeeded(p) ==
  CASE p \in {PR_GRE4, PR_GRE6}         -> {"protocol", "dmac"}
    [] p = PR_ICMP4                     -> {"payload", "dmac"}
    [] UsesIP(p) \/ p = PR_ETH          -> {"dmac"}
    [] OTHER                            -> {}
MandatoryNames(p) == InSomeOrder(DOMAIN p.mandatory \union AlsoNeeded(p))
MemberNames(g) == InSomeOrder(g.needs) \o InSomeOrder(g.may)
Whole(g)  == <<g.head>> \o MemberNames(g)
Second(g) == <<g.head>> \o Whole(g)
Twice(g)  == Whole(g) \o <<g.head>> \o Reverse(MemberNames(g))

(* The groups of a protocol that can stand alone, and the options outside  *)
(* of any group.                                                           *)
Inside(p) == {"cdcp-scid", "poe-power-type", "mgt-oui"}
Optional(p) == {g \in GroupsOf(p) : g.head \in DOMAIN p.optional /\ g.head \notin Inside(p)}
Grouped(p)  == UNION {{g.head} \union g.needs \union g.may : g \in GroupsOf(p)}
Singles(p)  == {n \in DOMAIN Listed(p) \ DOMAIN p.mandatory :
                  n \notin Grouped(p) \union AlsoNeeded(p) \union {"dmac", "ethertype"}}
Cdcp == <<"cdcp-role", "cdcp-ch-cap", "cdcp-scomp", "cdcp-scid", "cdcp-svid", "cdcp-scid",
          "cdcp-svid">>
Poe  == InSomeOrder(DOMAIN PAR_LLDP_POE \union DOMAIN PAR_LLDP_POE_DLL)

(* All groups of a protocol, as far as they go together.                   *)
Exclusive == {"pn-mrp-domain-uuid", "oui", "cdcp-role", "poe-port-class"}
Together(p) == Singles(p) \ (CASE p \in Messages -> {"chksum"} [] p = PR_IGMP -> {"time"} [] OTHER -> {})
Everything(p) ==
  LET groups == InSomeOrder({g \in Optional(p) : g.head \notin Exclusive})
  IN  FlattenSeq([k \in 1 .. Len(groups) |-> Whole(groups[k])])
        \o InSomeOrder(Together(p)) \o (IF p = PR_LLDP THEN Cdcp \o Poe ELSE <<>>)

Tables ==
  UNION {{Instr(p, MandatoryNames(p)),
          Instr(p, Everything(p) \o MandatoryNames(p))}
         \union {Instr(p, MandatoryNames(p) \o Whole(g)) : g \in Optional(p)}
         \union {Instr(p, Twice(g) \o MandatoryNames(p)) : g \in {h \in Optional(p) : h.many}}
         \union {Instr(p, Second(g) \o MandatoryNames(p)) : g \in {h \in Optional(p) : h.many}}
         \union {Instr(p, MandatoryNames(p) \o <<n>>) : n \in Singles(p)}
         \union {Instr(p, SelectSeq(MandatoryNames(p), LAMBDA m : m # n)) :
                   n \in {MandatoryNames(p)[k] : k \in 1 .. Len(MandatoryNames(p))}}
        : p \in all_protos}
    \union {Instr(PR_LLDP, Cdcp), Instr(PR_LLDP, Poe),
            Instr(PR_LLDP, <<"pn-mrp-domain-uuid">>), Instr(PR_ETH, <<"dmac", "payload", "ethertype">>)}
    \union {[keyword |-> PR_LLDP.syntax, par |-> <<Parameter(n, k, 0)>>] :
               n \in Addresses, k \in {"mac", "ip4", "ip6"}}

-----------------------------------------------------------------------------
(* Single parameters replaced, or put in front.                            *)
With(i, n, kind, len) ==
  [i EXCEPT !.par = [k \in 1 .. Len(@) |-> IF @[k].name = n THEN Parameter(n, kind, len) ELSE @[k]]]
Plus(i, pars) == [i EXCEPT !.par = pars \o @]

Eth   == Instr(PR_ETH, <<"dmac", "payload">>)
Tag   == Pars(PR_ETH, <<"vid", "prio">>)
Udp   == Instr(PR_UDP4, <<"dip", "dmac", "sport", "dport", "payload">>)
Udp6  == Instr(PR_UDP6, <<"dip", "dmac", "sport", "dport", "payload">>)
Inner == Instr(PR_UDP4, <<"dip", "sport", "dport", "payload">>)
Bad   == Instr(PR_UDP4, <<"dip", "sport", "payload">>)

(* Sizes at and beyond the MTU, without, with one and with two tags.       *)
Sizes ==
  {Plus(With(Eth, "payload", "hex", n), tags) :
     n \in {MTU - VlanSize, MTU, MTU + 1, MTU + VlanSize + 1}, tags \in {<<>>, Tag, Tag \o Tag}}
  \union {Plus(With(Eth, "payload", "hex", MTU - 4),
               Pars(PR_ETH, <<"dsap", "ssap">>) \o <<Parameter("control", "int", c)>>) : c \in {0, 3}}
  \union {With(Udp, "payload", "hex", n) : n \in {0, MTU - 28, MTU - 27, 65535 - 28, 65535}}
  \union {With(Udp6, "payload", "hex", n) : n \in {MTU - 48, MTU - 47}}

(* Values of other kinds, unknown keywords and prefixes of keywords.       *)
Oddities ==
  {With(Udp, "dip", k, 0) : k \in {"mcast4", "ip6", "rand"}}
  \union {With(Udp6, "dip", k, 0) : k \in {"mcast6", "ip4"}}
  \union {With(Instr(PR_UDP4, <<"dip", "sport", "dport">>), "dip", "mcast4", 0),
          With(Instr(PR_UDP6, <<"dip", "sport", "dport">>), "dip", "mcast6", 0),
          Instr(PR_IPV4, <<"dmac", "dip", "protocol">>),
          [keyword |-> <<"ip">>, par |-> Pars(PR_IPV4, MandatoryNames(PR_IPV4))],
          [keyword |-> <<"icmp", "-echo">>, par |-> Pars(PR_ICMP4_ECHO, <<"dip", "dmac", "id">>)],
          [keyword |-> <<"http">>, par |-> <<>>]}
  \union {Instr(PR_RAW, <<"mac", "mac", "be16", "stream", "le64", "byte">>),
          Instr(PR_ETH, <<"prio", "vid", "dmac", "payload">>),
          Instr(PR_LLDP, <<"ets-cfg-prio">>)}

Emb(n, i) == [name |-> n, kind |-> "emb", len |-> 0, inner |-> <<i>>]
HoldingIn(p, names, n, i) == [keyword |-> p.syntax, par |-> Append(Pars(p, names), Emb(n, i))]
Holding(p, names, i) == HoldingIn(p, names, "payload", i)
Embeddings ==
  LET inEth == {Eth, Udp, With(Eth, "payload", "hex", 2 * MTU), Bad,
                Instr(PR_RAW, <<"stream">>), [keyword |-> <<"http">>, par |-> <<>>]}
      inIP  == {Inner, Udp, Bad, Instr(PR_RAW, <<"stream">>), Instr(PR_LLDP, <<>>)}
  IN  {Holding(PR_UDP4, <<"dip", "dmac", "sport", "dport">>, i) : i \in inEth}
      \union {Holding(PR_VXLAN6, <<"dip", "dmac", "sport", "dport", "vni">>, i) : i \in inEth}
      \union {Holding(PR_GRE4, <<"dip", "dmac", "protocol">>, i) : i \in inIP}
      \union {Holding(PR_ICMP4_ECHO, <<"dip", "dmac">>, i) : i \in inIP}

(* What the documents allow and the parser refuses, beyond the tables.     *)
Igmp == Instr(PR_IGMP, <<"dip", "group", "type">>)
GreWithoutProtocol == Instr(PR_GRE4, <<"dip", "dmac">>)
GreWithInnerMac    == Holding(PR_GRE4, <<"dip", "dmac", "protocol">>, Udp)
IcmpWithoutPayload == Instr(PR_ICMP4, <<"dip", "dmac", "type", "code">>)
EthWithEmbedded    == Holding(PR_ETH, <<"dmac">>, Eth)
TwoPvids           == Instr(PR_LLDP, <<"pvid", "pvid">>)
(* Instructions of the manual, for the run that shows the disagreement.    *)
FromTheManual ==
  {GreWithoutProtocol, GreWithInnerMac, IcmpWithoutPayload, EthWithEmbedded, TwoPvids}

Disputed ==
  FromTheManual
  \union {With(Instr(p, MandatoryNames(p)), "payload", "str", 0) :
            p \in {PR_IPV4, PR_IPV6, PR_ICMP4}}
  \union {With(With(Plus(Igmp, pars), "dip", k, 0), "time", "int", 1) :
            k \in {"ip4", "mcast4"}, pars \in {<<>>, Pars(PR_IGMP, <<"dmac", "time">>)}}
  \union {Plus(Eth, Pars(PR_ETH, Append(names, "ethertype"))) :
            names \in {<<"dsap", "ssap">>, <<"oui", "protocol">>}}
  \union {Plus(Udp, Pars(PR_UDP4, <<"prio">>)), Instr(PR_LLDP, <<"vtype", "dei">>)}
  \union {Instr(PR_VRRP, [k \in 1 .. n + 1 |-> IF k = 1 THEN "vrid" ELSE "vrip"]) :
            n \in {255, 256}}
  \union {With(Instr(PR_LLDP, <<"mgt-oui", "mgt-addr">>), "mgt-addr", "ip4", 0),
          Instr(PR_LLDP, Reverse(<<"cdcp-role", "cdcp-ch-cap", "cdcp-scomp", "cdcp-svid",
                                   "cdcp-scid">>))}
  \union {Holding(p, <<"dip", "dmac", "protocol">>, Udp) : p \in {PR_IPV4, PR_IPV6}}
  \union {Holding(PR_ICMP4, <<"dip", "dmac", "type", "code">>, Inner),
          HoldingIn(PR_RAW, <<>>, "stream", Eth), HoldingIn(PR_LLDP, <<>>, "port-desc", Eth)}

(* TLVs at the limits of their length, and one byte or row beyond them.    *)
Rows(group, n) == [k \in 1 .. n * Len(group) |-> group[1 + ((k - 1) % Len(group))]]
ApplPrio == <<"appl-prio", "appl-prio-sel", "appl-prio-proto">>
ApplVlan == <<"appl-vlan-vid", "appl-vlan-sel", "appl-vlan-proto">>
LongTlvs ==
  {Instr(PR_LLDP, Rows(ApplPrio, n)) : n \in {168, 169}}
  \union {Instr(PR_LLDP, Rows(ApplVlan, n)) : n \in {126, 127}}
  \union {Instr(PR_LLDP, <<"cdcp-role", "cdcp-ch-cap", "cdcp-scomp">>
                          \o Rows(<<"cdcp-scid", "cdcp-svid">>, n)) : n \in {167, 168}}
  \union {With(Instr(PR_LLDP, <<"type", "value">>), "value", "hex", n) : n \in {511, 512}}
  \union {With(Instr(PR_LLDP, <<"oui", "oui-type", "oui-value">>), "oui-value", "hex", n) :
            n \in {507, 508}}

AllInstructions == Tables \union Sizes \union Oddities \union Embeddings \union Disputed
                     \union LongTlvs
=============================================================================
