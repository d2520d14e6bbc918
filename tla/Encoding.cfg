SPECIFICATION SweepSpec
CONSTANTS
  Windows <- MCWindows
  WIDTH = 95
CHECK_DEADLOCK FALSE
INVARIANTS
  ImmediatesSurvive
  FieldsSurvive
  ImmGenAgrees
  SplitAddsUp
