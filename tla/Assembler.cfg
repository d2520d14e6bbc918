CONSTANTS
  None = None
  Sources <- AsmSources
  Bases <- AlignedBases
  Pins <- FreeOrPinned
SPECIFICATION Spec
CHECK_DEADLOCK FALSE
INVARIANTS
  AsmTypeOK
  LayoutPassAgrees
  ReservedIsFilled
  TargetsResolve
  ConstantsLoad
PROPERTIES
  NothingOverwritten
