CONSTANTS
  None = None
  Sources <- OddTarget
  Bases <- AlignedBases
  Pins <- NoPin
SPECIFICATION Spec
CHECK_DEADLOCK FALSE
INVARIANTS
  EveryTargetResolves
