-------------------------------- MODULE Units -------------------------------
(***************************************************************************)
(* The combinational units that the single-cycle core (rtl/top.sv) and the *)
(* pipeline (rtl/top_pipeline.sv) both instantiate: operand muxes, branch  *)
(* decision, register-file read, data memory, writeback mux.               *)
(*                                                                         *)
(* What the arithmetic does to the bits of a word is a parameter: the      *)
(* constants Alu, Cmp, ... are operators over Word, so what is proved      *)
(* holds for every ALU.  Module Datapath defines the ones of the RTL, and  *)
(* the models give those to TLC.                                           *)
(***************************************************************************)
EXTENDS Decoder

CONSTANTS
  Alu(_, _, _),          \* alu.sv: (operation, a, b) -> y
  Cmp(_, _, _),          \* branch_unit.sv: the six conditions (kind, rs1, rs2)
  Plus4(_),              \* pc + 32'd4
  ClearBit0(_),          \* w & ~32'h1
  ImemIdx(_),            \* instr_memory.sv: word index of a fetch address
  DmemIdx(_),            \* data_memory.sv: word index of a data address
  ByteOff(_),            \* addr[1:0]
  Unaligned(_, _),       \* (size, byte offset) is misaligned
  ReadExt(_, _, _, _),   \* (size, unsigned, offset, word) -> extended value
  MergeWord(_, _, _, _), \* (size, offset, word, store data) -> next word
  IMemIdx, DMemIdx,      \* the word indices of the two memories
  Programs,              \* what +imem_hex may load into the instruction memory
  DataImages,            \* what +dmem_hex may load into the data memory
  PC_RESET,              \* parameter PC_RESET
  TOHOST_ADDR,           \* parameter TOHOST_ADDR
  UART_ADDR              \* parameter UART_ADDR

ASSUME AluAssumption ==
  /\ \A op \in AluOp, a \in Word, b \in Word : Alu(op, a, b) \in Word
  /\ \A a \in Word, b \in Word : Alu("ALU_PASS_B", a, b) = b

ASSUME AddressAssumption ==
  /\ \A w \in Word : /\ Plus4(w) \in Word
                     /\ ClearBit0(w) \in Word
                     /\ ImemIdx(w) \in IMemIdx
                     /\ DmemIdx(w) \in DMemIdx
                     /\ ByteOff(w) \in 0 .. 3
  /\ PC_RESET \in Word

ASSUME ImageAssumption ==
  /\ Programs \subseteq [IMemIdx -> Inst]
  /\ DataImages \subseteq [DMemIdx -> Word]

ASSUME MemoryAssumption ==
  \A sz \in MemSize, off \in 0 .. 3, w \in Word :
    /\ \A u \in BOOLEAN : ReadExt(sz, u, off, w) \in Word
    /\ \A d \in Word : MergeWord(sz, off, w, d) \in Word

(***************************************************************************)
(* Execute.                                                                *)
(***************************************************************************)
AluY(c, at, imm, a, b) ==
  Alu(c.alu_op, IF c.alu_src_a = "ALU_A_PC"  THEN at ELSE a,
                IF c.alu_src_b = "ALU_B_IMM" THEN imm ELSE b)

Taken(kind, a, b) ==
  \/ kind = "BR_JUMP"
  \/ kind \in CondOp /\ Cmp(kind, a, b)

(* Where a taken branch or jump goes.                                      *)
Target(c, at, imm, a) ==
  IF c.jalr THEN ClearBit0(Alu("ALU_ADD", a, imm)) ELSE Alu("ALU_ADD", at, imm)

NextPc(c, at, imm, a, b) ==
  IF Taken(c.branch_op, a, b) THEN Target(c, at, imm, a) ELSE Plus4(at)

(***************************************************************************)
(* Register file: x0 reads as zero and is never written.                   *)
(***************************************************************************)
RegRead(x, r) == IF r = 0 THEN Zero ELSE x[r]

(* Mutant of RegWrite: the write port also accepts x0.                     *)
RegWriteAnyReg(x, we, rd, v) ==
  [r \in XReg \cup (IF we THEN {rd} ELSE {}) |-> IF we /\ rd = r THEN v ELSE x[r]]

RegWrite(x, we, rd, v) == [r \in XReg |-> IF we /\ rd = r THEN v ELSE x[r]]

(***************************************************************************)
(* Data memory.  MMIO stores raise a strobe and never touch the array;     *)
(* MMIO loads return zero; a misaligned store does not commit.             *)
(***************************************************************************)
IsTohost(addr) == addr = TOHOST_ADDR
IsMmio(addr) == addr \in {TOHOST_ADDR, UART_ADDR}

Misaligned(read, write, sz, addr) ==
  (read \/ write) /\ ~IsMmio(addr) /\ Unaligned(sz, ByteOff(addr))

MemRead(m, c, addr) ==
  IF c.mem_read /\ ~IsMmio(addr)
  THEN ReadExt(c.mem_size, c.mem_unsigned, ByteOff(addr), m[DmemIdx(addr)])
  ELSE Zero

MemWrite(m, write, sz, addr, d) ==
  IF write /\ ~IsMmio(addr) /\ ~Unaligned(sz, ByteOff(addr))
  THEN [m EXCEPT ![DmemIdx(addr)] = MergeWord(sz, ByteOff(addr), m[DmemIdx(addr)], d)]
  ELSE m

(***************************************************************************)
(* Writeback mux.                                                          *)
(***************************************************************************)
WbData(src, alu_y, rdata, pc4) ==
  CASE src = "WB_MEM" -> rdata
    [] src = "WB_PC4" -> pc4
    [] OTHER          -> alu_y
=============================================================================
