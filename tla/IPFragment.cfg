SPECIFICATION Spec
CONSTANTS
  Mtus = {68, 71, 72}
  HeaderLens = {20, 24, 40}
  L4HeaderLens = {0, 8, 20}
  PayloadLens <- Payloads
  UserIds = {2}
  VlanTags = {0, 2}
  MaxLength = 190
  IdWord = 3
  MaxPackets = 4
INVARIANTS
  TypeOK
  LoopInv
  Contiguous
  Complete
  DistinctIds
