SPECIFICATION Spec
CONSTANTS
  Modes = {"PACKET", "SCRIPT"}
  Times <- Stamped
  defaultDelayScale = 2
  DefaultDelays = {0, 1}
  PcapScales = {1}
  Word = 1000
  MaxFiles = 1
  MaxPackets = 2
INVARIANTS
  FreedOnce
