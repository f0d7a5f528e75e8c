-------------------------------- MODULE Lldp --------------------------------
(***************************************************************************)
(* cLldpParser and cLldpPacket.  The first half gives the TLV that every   *)
(* add function appends to the packet: its type and the number of bytes of *)
(* its value.  The second half gives, for every function of cLldpParser,   *)
(* the parameters it looks up and the TLVs it adds for them.               *)
(***************************************************************************)
EXTENDS ParameterList

CHASSIS_ID == 1
PORT_ID    == 2
TTL        == 3
PORT_DESCR == 4
SYSNAME    == 5
SYSDESC    == 6
SYSCAP     == 7
MGT_ADDR   == 8
OUI        == 127

(* The length field of a TLV has nine bits.                                *)
MaxTlvLength == 511

Tlv(type, len) == Do("tlv", type, len)
(* Organisationally specific: three bytes OUI and the subtype go first.    *)
OuiTlv(len) == Tlv(OUI, 3 + 1 + len)

(* The address as bytes: the family of an IP address is put in front.      *)
MacLen == 6
FamilyAddressLen(p) ==
  IF asIPv4(p) THEN 1 + 4 ELSE IF asIPv6(p) THEN 1 + 16 ELSE MacLen
AddressLen(p) == IF asIPv4(p) THEN 4 ELSE IF asIPv6(p) THEN 16 ELSE MacLen

addChassisID(len)             == Tlv(CHASSIS_ID, 1 + len)
addChassisIDAddress(p)        == addChassisID(FamilyAddressLen(p))
addPortID(len)                == Tlv(PORT_ID, 1 + len)
addPortIDAddress(p)           == addPortID(FamilyAddressLen(p))
addTTL                        == Tlv(TTL, 2)
addPortDescription(len)       == Tlv(PORT_DESCR, len)
addSystemName(len)            == Tlv(SYSNAME, len)
addSystemDescription(len)     == Tlv(SYSDESC, len)
addSystemCapabilities         == Tlv(SYSCAP, 2 * 2)
addManagementAddress(len, oidLen) == Tlv(MGT_ADDR, 1 + 1 + len + 1 + 4 + 1 + oidLen)
addPortVID                    == OuiTlv(2)
addProtocolVID                == OuiTlv(1 + 2)
addVlanName(len)              == OuiTlv(2 + 1 + len)
addProtocolIdentity(len)      == OuiTlv(1 + len)
addVIDUsageDigest             == OuiTlv(4)
addManagementVID              == OuiTlv(2)
addLinkAggregation            == OuiTlv(1 + 4)
addCongestionNotification     == OuiTlv(1 + 1)
addETSConfig                  == OuiTlv(1 + 4 + 8 + 8)
addETSRecommendation          == OuiTlv(1 + 4 + 8 + 8)
addPFCCtrlConfig              == OuiTlv(1 + 1)
addApplicationPriority(n)     == OuiTlv(1 + 3 * n)
addEVB                        == OuiTlv(5)
addCDCP(n)                    == OuiTlv(4 + 3 * n)
addApplicationVLAN(n)         == OuiTlv(4 * n)
addMacPhyStatus               == OuiTlv(1 + 2 + 2)
addBasicPowerViaMDI           == OuiTlv(3)
addDllExtPowerViaMDI          == OuiTlv(3 + 5)
addMaxFrameSize               == OuiTlv(2)
addEEE                        == OuiTlv(5 * 2)
addEEEFastWake                == OuiTlv(4)
addPnDelay                    == OuiTlv(5 * 4)
addPnPortStatus               == OuiTlv(2 + 2)
addPnAlias(len)               == OuiTlv(len)
addPnMrpPortStatus            == OuiTlv(16 + 2)
addPnChassisMac               == OuiTlv(MacLen)
addPnPtcpStatus               == OuiTlv(MacLen + 2 * 16 + 4 * 4)
addPnMauTypeExtension         == OuiTlv(2)
addPnMrpInterconnectPortStatus == OuiTlv(3 * 2)
addRawTLV(type, len)          == Tlv(type, len)
addOuiTLV(len)                == OuiTlv(len)

-----------------------------------------------------------------------------
(* The user gives the subtype and the bytes, or an address or bytes whose  *)
(* type is found out, or nothing: then it is the MAC address of the host.  *)
Identifier(par, subtype, name, Add(_), AddAddress(_)) ==
  CASE Has(par, subtype) ->
         NeedStream(par, name, 255) \o Need(par, <<subtype>>, "int")
           \o (IF Has(par, name) THEN Add(StreamLen(Get(par, name))) ELSE <<>>)
    [] ~Has(par, subtype) /\ Has(par, name) ->
         LET p == Get(par, name)
         IN  Lookups(par, <<name>>, TRUE, "id", 255)
               \o (IF Converts(p, "address", 0) THEN AddAddress(p) ELSE Add(StreamLen(p)))
    [] OTHER -> Add(MacLen)

chassisID(par) ==
  Identifier(par, "chassis-id-type", "chassis-id", addChassisID, addChassisIDAddress)
portID(par) ==
  Identifier(par, "port-id-type", "port-id", addPortID, addPortIDAddress)

(* A parameter that makes a TLV by its presence, with further ones that it *)
(* needs or for which there is a default.                                  *)
IfGiven(par, name, steps) == IF Has(par, name) THEN steps ELSE <<>>

Text(par, name, max, Add(_)) ==
  IfGiven(par, name,
    NeedStream(par, name, max) \o Add(StreamLen(Get(par, name))))

portDescription(par)   == Text(par, "port-desc", 255, addPortDescription)
systemName(par)        == Text(par, "sys-name", 255, addSystemName)
systemDescription(par) == Text(par, "sys-desc", 255, addSystemDescription)

Capabilities ==
  <<"cap-other", "cap-repeater", "cap-bridge", "cap-wlan-ap", "cap-router", "cap-phone",
    "cap-docsis", "cap-station", "cap-cvlan", "cap-svlan", "cap-tpmr">>
EnabledCapabilities ==
  <<"encap-other", "encap-repeater", "encap-bridge", "encap-wlan-ap", "encap-router",
    "encap-phone", "encap-docsis", "encap-station", "encap-cvlan", "encap-svlan",
    "encap-tpmr">>
systemCapabilities(par) ==
  LET names == Capabilities \o EnabledCapabilities
  IN  Opt(par, names, "int")
        \o (IF \E i \in 1 .. Len(names) : Has(par, names[i]) THEN addSystemCapabilities ELSE <<>>)

(* Interface number and OID are looked up even if there is no address; no  *)
(* TLV is made of them then.                                               *)
managementAddress(par) ==
  LET oidLen == IF Has(par, "mgt-oid") THEN StreamLen(Get(par, "mgt-oid")) ELSE 0
  IN  Opt(par, <<"if-number-type", "if-number">>, "int")
        \o Lookups(par, <<"mgt-oid">>, FALSE, "stream", 128)
        \o (CASE Has(par, "mgt-addr-type") ->
                   NeedStream(par, "mgt-addr", 31) \o Need(par, <<"mgt-addr-type">>, "int")
                     \o IfGiven(par, "mgt-addr",
                          addManagementAddress(StreamLen(Get(par, "mgt-addr")), oidLen))
              [] ~Has(par, "mgt-addr-type") /\ Has(par, "mgt-addr") ->
                   Need(par, <<"mgt-addr">>, "address")
                     \o addManagementAddress(AddressLen(Get(par, "mgt-addr")), oidLen)
              [] OTHER -> <<>>)

portVID(par) == IfGiven(par, "pvid", Need(par, <<"pvid">>, "int") \o addPortVID)
portProtocolVID(par) ==
  Each(par, 0, "ppvid", LAMBDA i :
    At(i, "int") \o OptOf(par, i, <<"PPVID-SUP", "PPVID-EN">>, "int") \o addProtocolVID)

(* The length of an attribute of the parameter at i, 0 if it is missing.   *)
LenOf(par, i, name) ==
  LET at == Find(par, i, par[i].name, name)
  IN  IF at = 0 THEN 0 ELSE StreamLen(par[at])

vlanName(par) ==
  Each(par, 0, "vlan-name-id", LAMBDA i :
    At(i, "int") \o LookupsOf(par, i, <<"vlan-name">>, TRUE, "stream", 32)
      \o addVlanName(LenOf(par, i, "vlan-name")))
protocolIdentity(par) ==
  Each(par, 0, "proto-id", LAMBDA i :
    <<Step("find", i, TRUE, "stream", 255)>> \o addProtocolIdentity(StreamLen(par[i])))
vidUsageDigest(par) ==
  IfGiven(par, "vid-usage-digest",
    Need(par, <<"vid-usage-digest">>, "int") \o addVIDUsageDigest)
managementVID(par) ==
  IfGiven(par, "mgt-vid", Need(par, <<"mgt-vid">>, "int") \o addManagementVID)
linkAggregation(par) ==
  IfGiven(par, "lag-cap",
    Need(par, <<"lag-cap">>, "int")
      \o Opt(par, <<"lag-status", "lag-port-type", "lag-port-id">>, "int")
      \o addLinkAggregation)
congestionNotification(par) ==
  IfGiven(par, "cong-cnpv",
    Need(par, <<"cong-cnpv", "cong-ready">>, "int") \o addCongestionNotification)
etsConfiguration(par) ==
  IfGiven(par, "ets-cfg-willing",
    Need(par, <<"ets-cfg-willing", "ets-cfg-cbs", "ets-cfg-max-tc", "ets-cfg-prio",
                "ets-cfg-bw", "ets-cfg-tsa">>, "int") \o addETSConfig)
etsRecommendation(par) ==
  IfGiven(par, "ets-rec-prio",
    Need(par, <<"ets-rec-prio", "ets-rec-bw", "ets-rec-tsa">>, "int")
      \o addETSRecommendation)
pfcControlConfig(par) ==
  IfGiven(par, "pfc-willing",
    Need(par, <<"pfc-willing", "pfc-mbc", "pfc-cap", "pfc-enable">>, "int")
      \o addPFCCtrlConfig)

(* All tuples make one TLV.                                                *)
Table(par, name, attributes, Add(_)) ==
  Each(par, 0, name, LAMBDA i : At(i, "int") \o NeedOf(par, i, attributes, "int"))
    \o IfGiven(par, name, Add(Len(Occurrences(par, 0, name))))
applicationPriority(par) ==
  Table(par, "appl-prio", <<"appl-prio-sel", "appl-prio-proto">>, addApplicationPriority)
applicationVLAN(par) ==
  Table(par, "appl-vlan-vid", <<"appl-vlan-sel", "appl-vlan-proto">>, addApplicationVLAN)

evb(par) ==
  IfGiven(par, "evb-bridge-status",
    Need(par, <<"evb-bridge-status", "evb-station-status", "evb-max-retries", "evb-rte",
                "evb-mode", "evb-rol-rwd", "evb-rwd", "evb-rol-rka", "evb-rka">>, "int")
      \o addEVB)

(* The channels are searched behind the role.                              *)
cdcb(par) ==
  LET role == Find(par, 0, NoStop, "cdcp-role")
  IN  IfGiven(par, "cdcp-role",
        Need(par, <<"cdcp-role", "cdcp-scomp", "cdcp-ch-cap">>, "int")
          \o Each(par, role, "cdcp-scid", LAMBDA i :
               At(i, "int") \o NeedOf(par, i, <<"cdcp-svid">>, "int"))
          \o addCDCP(Len(Occurrences(par, role, "cdcp-scid"))))

macPhyConfigStatus(par) ==
  IfGiven(par, "mautype",
    Opt(par, <<"autoneg-sup", "autoneg-en">>, "int")
      \o Need(par, <<"autoneg-caps", "mautype">>, "int") \o addMacPhyStatus)
powerViaMDI(par) ==
  IfGiven(par, "poe-port-class",
    Need(par, <<"poe-port-class", "poe-power-sup", "poe-power-state", "poe-pair-ctrl",
                "poe-power-pair", "poe-power-class">>, "int")
      \o (IF Has(par, "poe-power-type")
          THEN Need(par, <<"poe-power-type", "poe-power-src", "poe-pd-4pid",
                           "poe-power-prio">>, "int")
                 \o Need(par, <<"poe-req-power", "poe-alloc-power">>, "double")
                 \o addDllExtPowerViaMDI
          ELSE addBasicPowerViaMDI))

(* No TLV for a size of 0, the default.                                    *)
maxFrameSize(par) ==
  Opt(par, <<"max-frame-size">>, "int")
    \o (IF Has(par, "max-frame-size") /\ Get(par, "max-frame-size").len # 0
        THEN addMaxFrameSize ELSE <<>>)
eee(par) ==
  IfGiven(par, "eee-tx-tw",
    Need(par, <<"eee-tx-tw", "eee-rx-tw", "eee-fb-rx-tw", "eee-echo-tx-tw",
                "eee-echo-rx-tw">>, "int") \o addEEE)
eeeFastWake(par) ==
  IfGiven(par, "eee-fw-tx",
    Need(par, <<"eee-fw-tx", "eee-fw-rx", "eee-fw-echo-tx", "eee-fw-echo-rx">>, "int")
      \o addEEEFastWake)

pnDelay(par) ==
  IfGiven(par, "pn-port-delay-rx",
    Need(par, <<"pn-port-delay-rx", "pn-port-delay-rx-rem", "pn-port-delay-tx",
                "pn-port-delay-tx-rem", "pn-cable-delay">>, "int") \o addPnDelay)
pnPortStatus(par) ==
  IfGiven(par, "pn-rtc3-state",
    Need(par, <<"pn-rtc3-state">>, "int")
      \o Opt(par, <<"pn-rtc3-frag", "pn-rtc3-short-preamp", "pn-rtc3-opt",
                    "pn-rtc2-state">>, "int") \o addPnPortStatus)
pnAlias(par) == Text(par, "pn-alias", 14 + 1 + 240, addPnAlias)

(* The UUID is calculated from the domain; it is only looked up if there   *)
(* is no domain.                                                           *)
pnMrpPortState(par) ==
  Opt(par, <<"pn-mrp-mrrt-state">>, "int")
    \o (CASE Has(par, "pn-mrp-domain") ->
               Need(par, <<"pn-mrp-domain">>, "stream") \o addPnMrpPortStatus
          [] ~Has(par, "pn-mrp-domain") /\ Has(par, "pn-mrp-domain-uuid") ->
               Need(par, <<"pn-mrp-domain-uuid">>, "uuid") \o addPnMrpPortStatus
          [] OTHER -> <<>>)
pnChassisMac(par) ==
  IfGiven(par, "pn-chassis-mac",
    Need(par, <<"pn-chassis-mac">>, "mac") \o addPnChassisMac)
pnPTCPStatus(par) ==
  IfGiven(par, "pn-ptcp-master-mac",
    Need(par, <<"pn-ptcp-master-mac">>, "mac")
      \o Opt(par, <<"pn-ptcp-domain-uuid", "pn-ptcp-irdata-uuid">>, "uuid")
      \o Opt(par, <<"pn-ptcp-period-len", "pn-ptcp-red-orange", "pn-ptcp-orange",
                    "pn-ptcp-green">>, "int") \o addPnPtcpStatus)
pnMAUTypeExtension(par) ==
  IfGiven(par, "pn-mautype-ext",
    Need(par, <<"pn-mautype-ext">>, "int") \o addPnMauTypeExtension)
pnMrpIcPortStatus(par) ==
  IfGiven(par, "pn-mrp-ic-domain-id",
    Need(par, <<"pn-mrp-ic-domain-id">>, "int")
      \o Opt(par, <<"pn-mrp-ic-role", "pn-mrp-ic-mic-pos">>, "int")
      \o addPnMrpInterconnectPortStatus)

(* TLVs that the user puts together.                                       *)
allRawTLVs(par) ==
  Each(par, 0, "type", LAMBDA i :
    At(i, "int") \o LookupsOf(par, i, <<"value">>, TRUE, "stream", MaxTlvLength)
      \o addRawTLV(par[i].len, LenOf(par, i, "value")))
allOidTLVs(par) ==
  Each(par, 0, "oui", LAMBDA i :
    <<Step("find", i, TRUE, "exactly", 3)>>
      \o NeedOf(par, i, <<"oui-type">>, "int")
      \o LookupsOf(par, i, <<"oui-value">>, TRUE, "stream", MaxTlvLength - 4)
      \o addOuiTLV(LenOf(par, i, "oui-value")))
=============================================================================
