SPECIFICATION RSpec
CONSTANTS
  BYTE = 2
  NREGS = 3
  IMEM_WORDS = 1
  DMEM_WORDS = 1
  Word <- RtlWord
  Zero = 0
  InstOf <- MCInstOf
  MAX_STEPS = 10
  Names = {1, 2, 3, 4, 5}
  Ignored = {1}
  KNOWN_SKIPS = {4}
  Elves <- MCElves
  Filters <- MCFilters
  NoFilter = NoFilter
  PAGE = 16
CHECK_DEADLOCK FALSE
INVARIANTS
  SameFileSameVerdict
  EveryElfLoads
  GreenIsEarned
PROPERTIES
  TraceTellsAll
  RunnerReturns
