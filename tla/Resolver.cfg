SPECIFICATION Spec
CONSTANTS
  hostA = hostA
  hostB = hostB
  macA = macA
  macB = macB
  Ips = {hostA, hostB}
  Group = Group
  MacOf <- MacTable
  NoMac = NoMac
  Given = Given
  Multicast = Multicast
  Forced = Forced
  Types = {"eth", "ip4", "ip6"}
  ToFile = {TRUE, FALSE}
  Addressed = {TRUE, FALSE}
  Timeout = 2
  MaxPackets = 3
  MaxBurst = 2
INVARIANTS
  TypeOK
  RightDestination
  AskedTwiceAtMost
  AnswerInTimeUsed
PROPERTIES
  ResolutionEnds
