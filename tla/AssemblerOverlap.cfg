CONSTANTS
  None = None
  Sources <- AlignFirst
  Bases <- OneBase
  Pins <- NoPin
SPECIFICATION Spec
CHECK_DEADLOCK FALSE
PROPERTIES
  NothingOverwritten
