CONSTANTS
  None = None
  Packages <- MCPackages
  Classes <- MCClasses
  Params <- MCParams
  ENUM_MAPPINGS <- MCMappings
  LOCALPARAMS <- MCLocalparams
SPECIFICATION Spec
CHECK_DEADLOCK FALSE
INVARIANT
  VerdictIsRight
