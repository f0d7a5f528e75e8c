SPECIFICATION Spec
CONSTANTS
  MTU = 1500
  Instructions <- FromTheManual
INVARIANT
  DocumentedAccepted
CHECK_DEADLOCK FALSE
