SPECIFICATION Spec
CONSTANTS
  Modes = {"PACKET", "SCRIPT", "PCAP"}
  Times <- Stamped
  defaultDelayScale = 2
  DefaultDelays = {0, 1}
  PcapScales = {0, 2}
  Word = 1000
  MaxFiles = 2
  MaxPackets = 4
INVARIANTS
  TypeOK
  AbsoluteTimesKept
  RealtimeIfTimed
  RealTimeReplay
  OnlyEmbeddedLeaked
