SPECIFICATION AluSpec
CONSTANTS
  BYTE = 2
  NREGS = 3
  IMEM_WORDS = 1
  DMEM_WORDS = 1
  Word <- RtlWord
  Zero = 0
CHECK_DEADLOCK FALSE
INVARIANTS
  AluAgrees
  BranchesAgree
  LanesAgree
