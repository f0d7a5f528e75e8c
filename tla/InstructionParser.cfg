SPECIFICATION Spec
CONSTANTS
  MTU = 700
  Instructions <- AllInstructions
INVARIANTS
  RefusedOnlyAsListed
  Binding
  MtuRestored
  PayloadAlive
  FrameLayout
  LldpConforming
CHECK_DEADLOCK FALSE
