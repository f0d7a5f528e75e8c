SPECIFICATION Spec
CONSTANTS
  hostA = hostA
  hostB = hostB
  macA = macA
  macB = macB
  Ips = {hostA, hostB}
  Group = Group
  MacOf <- MacTable
  NoMac = NoMac
  Given = Given
  Multicast = Multicast
  Forced = Forced
  Types = {"ip6"}
  ToFile = {FALSE}
  Addressed = {TRUE}
  Timeout = 2
  MaxPackets = 2
  MaxBurst = 2
INVARIANTS
  DestMacAutomatic
