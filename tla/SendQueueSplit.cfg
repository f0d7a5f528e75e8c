SPECIFICATION Spec
CONSTANTS
  Lengths <- PassMixed
  Heads <- OneFragmented
  Repeat = 2
  MaxPasses = 0
  pcapMaxQueueSize = 8
  sizeofPcapPkthdr = 1
  MAX_DOUBLE_TAGGED_PACKET = 3
  MaxSigint = 1
INVARIANTS
  SlotFull
