SPECIFICATION RunSpec
CONSTANTS
  BYTE = 2
  NREGS = 3
  IMEM_WORDS = 8
  DMEM_WORDS = 2
  Word <- RtlWord
  Zero = 0
  Alu <- RtlAlu
  Cmp <- RtlCmp
  Plus4 <- RtlPlus4
  ClearBit0 <- RtlClearBit0
  Unaligned <- RtlUnaligned
  ReadExt <- RtlReadExt
  MergeWord <- RtlMergeWord
  ImemIdx <- RtlImemIdx
  DmemIdx <- RtlDmemIdx
  ByteOff <- RtlByteOff
  IMemIdx <- MCImem
  DMemIdx <- MCDmem
  Programs <- BranchPrograms
  DataImages <- MCDataImages
  PC_RESET = 0
  TOHOST_ADDR = 16
  UART_ADDR = 20
  NoPc = NoPc
PROPERTIES
  KeepsCompleting
