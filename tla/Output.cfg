SPECIFICATION Spec
CONSTANTS
  Lengths <- FourPackets
  Heads <- ThreeElements
  Delays <- SomeDelays
  Repeat = 2
  MaxPasses = 2
  realtimeMode = TRUE
  Resolutions = {1, 2, 3}
  Jitter = 1
  MaxSigint = 2
INVARIANTS
  TypeOK
  Punctual
  NoBug
  StopsAfterElement
PROPERTIES
  CtrlCEndsWalk
  ImplementsTransmission
