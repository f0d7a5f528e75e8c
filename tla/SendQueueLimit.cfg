SPECIFICATION Spec
CONSTANTS
  Lengths <- PassEqual
  Heads <- Single
  Repeat = 2
  MaxPasses = 0
  pcapMaxQueueSize = 13
  sizeofPcapPkthdr = 1
  MAX_DOUBLE_TAGGED_PACKET = 3
  MaxSigint = 0
INVARIANTS
  SlotEmpty
