SPECIFICATION LSpec
CONSTANTS
  BYTE = 2
  NREGS = 3
  IMEM_WORDS = 4
  DMEM_WORDS = 8
  Word <- RtlWord
  Zero = 0
  Alu <- RtlAlu
  Cmp <- RtlCmp
  Plus4 <- RtlPlus4
  ClearBit0 <- RtlClearBit0
  Unaligned <- RtlUnaligned
  ReadExt <- RtlReadExt
  MergeWord <- RtlMergeWord
  ImemIdx <- RtlImemIdx
  DmemIdx <- RtlDmemIdx
  ByteOff <- RtlByteOff
  IMemIdx <- MCImem
  DMemIdx <- MCDmem
  Programs = {}
  DataImages = {}
  PC_RESET = 0
  TOHOST_ADDR = 64
  UART_ADDR = 68
  InstOf <- MCInstOf
  MAX_STEPS = 5
  MEM_WORDS = 12
  Images <- MCImageSet
CHECK_DEADLOCK FALSE
INVARIANTS
  EmuTypeOK
  OracleAgrees
