------------------------------ MODULE MCImages ------------------------------
(***************************************************************************)
(* The program and data images of the TLC models, for both cores: every    *)
(* program of a few instructions over an alphabet, followed by zeroed      *)
(* memory (which decodes as illegal), on the registers x0, x1, x2.         *)
(***************************************************************************)
EXTENDS Units, Datapath

MCImem == 0 .. (IMEM_WORDS - 1)
MCDmem == 0 .. (DMEM_WORDS - 1)

ZERO_INST == [NOP_INST EXCEPT !.op = "OP_OTHER"]

ProgramsOver(alphabet, len) ==
  {[k \in MCImem |-> IF k < len THEN s[k + 1] ELSE ZERO_INST] :
     s \in [1 .. len -> alphabet]}

MCDataImages == {[k \in MCDmem |-> IF k = 0 THEN 4 ELSE 145]}

I(op, f3, rd, rs1, rs2, imm) ==
  [NOP_INST EXCEPT !.op = op, !.f3 = f3, !.rd = rd, !.rs1 = rs1, !.rs2 = rs2,
                   !.imm = Wrap(imm)]

addi(rd, rs1, imm) == I("OP_IMM", F3_ADD_SUB, rd, rs1, 0, imm)
add(rd, rs1, rs2)  == I("OP_REG", F3_ADD_SUB, rd, rs1, rs2, 0)
lw(rd, rs1, imm)   == I("OP_LOAD", 2, rd, rs1, 0, imm)
lb(rd, rs1, imm)   == I("OP_LOAD", 0, rd, rs1, 0, imm)
sw(rs2, rs1, imm)  == I("OP_STORE", 2, 0, rs1, rs2, imm)
sh(rs2, rs1, imm)  == I("OP_STORE", 1, 0, rs1, rs2, imm)
beq(rs1, rs2, imm) == I("OP_BRANCH", 0, 0, rs1, rs2, imm)
bne(rs1, rs2, imm) == I("OP_BRANCH", 1, 0, rs1, rs2, imm)
jal(rd, imm)       == I("OP_JAL", 0, rd, 0, 0, imm)
jalr(rd, rs1, imm) == I("OP_JALR", 0, rd, rs1, 0, imm)
lui(rd, imm)       == I("OP_LUI", 0, rd, 0, 0, imm)
ecall  == I("OP_SYSTEM", 0, 0, 0, 0, 0)
ebreak == [ecall EXCEPT !.f12 = "F12_EBREAK"]

(* Producers and consumers at every distance, through ALU, load and store; *)
(* an instruction whose rs1 field is immediate bits.                       *)
HazardAlphabet ==
  {addi(1, 1, 4), add(2, 1, 2), add(1, 2, 1), lw(1, 1, 0), lw(2, 0, 4),
   sw(1, 0, 0), addi(0, 1, 4), [lui(1, 16) EXCEPT !.rs1 = 1]}

(* Branches and jumps fed by ALU results, loads and links; the offset -8   *)
(* also jumps below address zero.                                          *)
BranchAlphabet ==
  {addi(1, 1, 4), lw(1, 0, 0), beq(1, 2, 8), bne(1, 0, -8),
   [jal(1, 8) EXCEPT !.rs1 = 1], jalr(2, 1, 4), add(2, 1, 0)}

(* Every halt cause next to instructions whose effects must not leak, and  *)
(* branches on fresh results.  The illegal instruction is a branch with an *)
(* undefined funct3, which the hazard unit can stall in ID.                *)
HaltAlphabet ==
  {addi(1, 1, 5), sw(1, 0, 4), lw(1, 1, 0), sw(1, 0, TOHOST_ADDR),
   sh(1, 0, UART_ADDR), ecall, ebreak, bne(1, 0, 8),
   [beq(1, 0, 8) EXCEPT !.f3 = 2]}

(* One instruction of every kind, with sub-word accesses at odd addresses  *)
(* and odd jump targets, for short programs.                               *)
MixedAlphabet ==
  HaltAlphabet \cup
  {lb(1, 1, 1), lw(2, 0, 0), [lw(2, 0, 0) EXCEPT !.f3 = 5, !.imm = 2],
   [sw(1, 0, 1) EXCEPT !.f3 = 0], jal(0, 8), jalr(2, 1, 4), beq(1, 2, 8),
   lui(1, 144), [lui(2, 8) EXCEPT !.op = "OP_AUIPC"],
   [add(1, 0, 1) EXCEPT !.f7 = "F7_ALT"],
   [addi(2, 1, 1) EXCEPT !.f3 = F3_SR, !.f7 = "F7_ALT"],
   [addi(0, 0, 0) EXCEPT !.op = "OP_FENCE"]}
=============================================================================
