----------------------------- MODULE UnitsProofs ----------------------------
(***************************************************************************)
(* What the cores rely on the decoder and the combinational units for,     *)
(* proved for every instruction word and every word width.                 *)
(***************************************************************************)
EXTENDS Units, TLAPS

(* The decoder (decoder.sv:89-250) drives a well-formed bundle for every   *)
(* instruction word, and the cause detected in ID is a cause code.         *)
LEMMA DecodeType ==
  ASSUME NEW i \in Inst
  PROVE  Decode(i) \in Control /\ IdHc(i) \in HaltCause
<1>1. IsLoad(i) \in BOOLEAN /\ IsStore(i) \in BOOLEAN /\ IsIllegal(i) \in BOOLEAN
  BY DEF IsLoad, IsStore, IsIllegal
<1>2. BranchKind(i) \in BranchOp
  BY DEF BranchKind, BranchOp, CondOp
<1>3. AccessSize(i) \in MemSize
  BY DEF AccessSize, MemSize
<1>4. ArithOp(i) \in AluOp
  BY DEF ArithOp, AluOp, Inst, Funct3, F3_ADD_SUB, F3_SLL, F3_SLT, F3_SLTU, F3_XOR,
         F3_SR, F3_OR
<1>5. Decode(i) \in Control
  BY <1>1, <1>2, <1>3, <1>4 DEF Decode, Control, WbSrc, AluOp, AluSrcA, AluSrcB
<1>6. IdHc(i) \in HaltCause
  BY DEF IdHc, HaltCause
<1>7. QED
  BY <1>5, <1>6

(* A load is the only instruction that writes back memory data, and it     *)
(* always writes back: this is why a load in MEM is the only producer      *)
(* whose EX-to-EX forward would be wrong (top_pipeline.sv:297-308).        *)
LEMMA LoadWritesBack ==
  ASSUME NEW i \in Inst
  PROVE  /\ Decode(i).mem_read => Decode(i).reg_write
         /\ Decode(i).reg_write /\ Decode(i).wb_src = "WB_MEM" => Decode(i).mem_read
  BY DEF Decode, IsLoad

(* ecall, ebreak and illegal instructions commit nothing                   *)
(* (top_pipeline.sv:30-35).                                                *)
LEMMA HaltingIsInert ==
  ASSUME NEW i \in Inst, IdHc(i) # "HC_NONE"
  PROVE  /\ ~Decode(i).reg_write /\ ~Decode(i).mem_read /\ ~Decode(i).mem_write
         /\ Decode(i).branch_op = "BR_NONE"
  BY DEF Decode, IdHc, IsSystem, IsLoad, IsStore, IsIllegal, BranchKind, BranchF3

(* The hazard unit's table covers every register an instruction uses: as   *)
(* an ALU operand of a result that is written back or addresses memory, as *)
(* store data, or in the branch comparator (hazard_unit.sv:42-53).         *)
LEMMA ReadsCoverUses ==
  ASSUME NEW i \in Inst
  PROVE  LET c == Decode(i) IN
         /\ (c.reg_write \/ c.mem_read \/ c.mem_write) =>
              /\ c.alu_src_a = "ALU_A_RS1" => ReadsRs1(i.op) \/ c.alu_op = "ALU_PASS_B"
              /\ c.alu_src_b = "ALU_B_RS2" => ReadsRs2(i.op)
         /\ c.mem_write => ReadsRs2(i.op)
         /\ c.branch_op \in CondOp =>
              i.op = "OP_BRANCH" /\ ReadsRs1(i.op) /\ ReadsRs2(i.op)
         /\ c.jalr => i.op = "OP_JALR" /\ ReadsRs1(i.op) /\ c.branch_op = "BR_JUMP"
         /\ c.branch_op \in BranchOp
<1>1. Decode(i).branch_op \in CondOp => i.op = "OP_BRANCH"
  BY DEF Decode, BranchKind, CondOp
<1>2. Decode(i).branch_op \in BranchOp
  BY DEF Decode, BranchKind, BranchOp, CondOp
<1>3. Decode(i).jalr => i.op = "OP_JALR" /\ Decode(i).branch_op = "BR_JUMP"
  BY DEF Decode, BranchKind
<1>4. QED
  BY <1>1, <1>2, <1>3 DEF Decode, ReadsRs1, ReadsRs2, IsLoad, IsStore, Inst, Opcode

(* For branches and jumps the ALU computes the target: PC + imm, or        *)
(* rs1 + imm under JALR (decoder.sv:110-160, top.sv:27-35).  This is why   *)
(* the single-cycle core needs no target adder of its own.                 *)
LEMMA AluComputesTargets ==
  ASSUME NEW i \in Inst, NEW p, NEW imm, NEW a, NEW b,
         Decode(i).branch_op # "BR_NONE"
  PROVE  LET y == AluY(Decode(i), p, imm, a, b)
         IN  Target(Decode(i), p, imm, a) = IF Decode(i).jalr THEN ClearBit0(y) ELSE y
<1>1. i.op \in {"OP_JAL", "OP_JALR", "OP_BRANCH"}
  BY DEF Decode, BranchKind
<1>2. /\ Decode(i).alu_op = "ALU_ADD" /\ Decode(i).alu_src_b = "ALU_B_IMM"
      /\ Decode(i).alu_src_a = IF Decode(i).jalr THEN "ALU_A_RS1" ELSE "ALU_A_PC"
  BY <1>1 DEF Decode
<1>3. QED
  BY <1>2 DEF AluY, Target

(* The slots that flushes leave behind do nothing: a flushed IF/ID decodes *)
(* to a write of x0, a flushed ID/EX to the zero bundle.                   *)
LEMMA BubblesAreInert ==
  /\ NOP_INST \in Inst
  /\ Bubble \in Control
  /\ NOP_INST.rd = 0 /\ NOP_INST.rs1 = 0 /\ NOP_INST.rs2 = 0
  /\ IdHc(NOP_INST) = "HC_NONE"
  /\ \A c \in {Bubble, Decode(NOP_INST)} :
       ~c.mem_read /\ ~c.mem_write /\ c.branch_op = "BR_NONE" /\ ~c.jalr
<1>1. NOP_INST \in Inst
  BY ZeroAssumption, NregsAssumption
     DEF NOP_INST, Inst, Opcode, Funct3, Funct7, Funct12, Reg, F3_ADD_SUB
<1>2. Bubble \in Control
  BY DEF Bubble, Control, WbSrc, MemSize, AluOp, AluSrcA, AluSrcB, BranchOp
<1>3. IdHc(NOP_INST) = "HC_NONE"
  BY DEF IdHc, Decode, IsIllegal, IsSystem, NOP_INST
<1>4. /\ ~Bubble.mem_read /\ ~Bubble.mem_write /\ ~Bubble.jalr
      /\ Bubble.branch_op = "BR_NONE"
  BY DEF Bubble
<1>5. NOP_INST.op = "OP_IMM" /\ NOP_INST.rd = 0 /\ NOP_INST.rs1 = 0 /\ NOP_INST.rs2 = 0
  BY DEF NOP_INST
<1>6. /\ ~Decode(NOP_INST).mem_read /\ ~Decode(NOP_INST).mem_write
      /\ ~Decode(NOP_INST).jalr /\ Decode(NOP_INST).branch_op = "BR_NONE"
  BY <1>5 DEF Decode, BranchKind, IsLoad, IsStore
<1>7. QED
  BY <1>1, <1>2, <1>3, <1>4, <1>5, <1>6

(***************************************************************************)
(* Types of the combinational units.                                       *)
(***************************************************************************)

(* The ALU behind its operand muxes yields a word.                         *)
LEMMA AluYType ==
  ASSUME NEW c \in Control, NEW p \in Word, NEW imm \in Word,
         NEW a \in Word, NEW b \in Word
  PROVE  AluY(c, p, imm, a, b) \in Word
  BY AluAssumption DEF AluY, Control

(* Branch targets and the next PC are words.                               *)
LEMMA NextPcType ==
  ASSUME NEW c \in Control, NEW p \in Word, NEW imm \in Word,
         NEW a \in Word, NEW b \in Word
  PROVE  Target(c, p, imm, a) \in Word /\ NextPc(c, p, imm, a, b) \in Word
<1>1. Alu("ALU_ADD", a, imm) \in Word /\ Alu("ALU_ADD", p, imm) \in Word
  BY AluAssumption DEF AluOp
<1>2. Target(c, p, imm, a) \in Word
  BY <1>1, AddressAssumption DEF Target
<1>3. QED
  BY <1>2, AddressAssumption DEF NextPc

(* A register file keeps its type under a read and under a write.          *)
LEMMA RegFileType ==
  ASSUME NEW x \in [XReg -> Word]
  PROVE  /\ \A r \in Reg : RegRead(x, r) \in Word
         /\ \A we, rd : \A v \in Word : RegWrite(x, we, rd, v) \in [XReg -> Word]
  BY ZeroAssumption DEF RegRead, RegWrite, XReg

(* A data memory keeps its type under a read and under a write.            *)
LEMMA MemoryType ==
  ASSUME NEW m \in [DMemIdx -> Word], NEW c \in Control, NEW addr \in Word
  PROVE  /\ MemRead(m, c, addr) \in Word
         /\ \A write : \A d \in Word :
              MemWrite(m, write, c.mem_size, addr, d) \in [DMemIdx -> Word]
<1>1. DmemIdx(addr) \in DMemIdx /\ ByteOff(addr) \in 0 .. 3 /\ c.mem_size \in MemSize
      /\ c.mem_unsigned \in BOOLEAN /\ m[DmemIdx(addr)] \in Word
  BY AddressAssumption DEF Control
<1>2. MemRead(m, c, addr) \in Word
  BY <1>1, ZeroAssumption, MemoryAssumption DEF MemRead
<1>3. ASSUME NEW write, NEW d \in Word
      PROVE  MemWrite(m, write, c.mem_size, addr, d) \in [DMemIdx -> Word]
  <2>1. MergeWord(c.mem_size, ByteOff(addr), m[DmemIdx(addr)], d) \in Word
    BY <1>1, MemoryAssumption
  <2>2. QED
    BY <1>1, <2>1 DEF MemWrite
<1>4. QED
  BY <1>2, <1>3

(* The writeback mux yields a word.                                        *)
LEMMA WbDataType ==
  ASSUME NEW src, NEW y \in Word, NEW rdata \in Word, NEW pc4 \in Word
  PROVE  WbData(src, y, rdata, pc4) \in Word
  BY DEF WbData
=============================================================================
