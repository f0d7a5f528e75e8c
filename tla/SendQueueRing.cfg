SPECIFICATION FairSpec
CONSTANTS
  Lengths <- PassMixed
  Heads <- Single
  Repeat = 2
  MaxPasses = 0
  pcapMaxQueueSize = 8
  sizeofPcapPkthdr = 1
  MAX_DOUBLE_TAGGED_PACKET = 3
  MaxSigint = 2
INVARIANTS
  TypeOK
  SlotEmpty
  SlotFull
  RingInv
  PacketStatistic
  WorkerStopped
PROPERTIES
  CtrlCEndsJob
  JobEnds
  ImplementsTransmission
