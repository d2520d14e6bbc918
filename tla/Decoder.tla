------------------------------- MODULE Decoder ------------------------------
(***************************************************************************)
(* The instruction decoder (rtl/decoder.sv), the per-opcode register-read  *)
(* table of the hazard unit (rtl/hazard_unit.sv) and the detection of the  *)
(* instructions that halt by themselves, which both top levels share.      *)
(*                                                                         *)
(* The decoder lists, per opcode, the fields it moves off the do-nothing   *)
(* bundle.  Here the table is read by column: for each field, which        *)
(* instructions move it.                                                   *)
(***************************************************************************)
EXTENDS RiscvPkg

(* funct3 values with a meaning under the opcodes that do not use all 8.   *)
BranchF3 == {0, 1, 4, 5, 6, 7}    \* BEQ BNE BLT BGE BLTU BGEU
LoadF3   == {0, 1, 2, 4, 5}       \* LB LH LW LBU LHU
StoreF3  == {0, 1, 2}             \* SB SH SW

IsLoad(i)  == i.op = "OP_LOAD" /\ i.f3 \in LoadF3
IsStore(i) == i.op = "OP_STORE" /\ i.f3 \in StoreF3

(* Encodings the decoder does not recognise.  No field looks at funct7     *)
(* beyond "is it F7_ALT", nor at funct12.                                  *)
IsIllegal(i) ==
  \/ i.op = "OP_BRANCH" /\ i.f3 \notin BranchF3
  \/ i.op = "OP_LOAD" /\ i.f3 \notin LoadF3
  \/ i.op = "OP_STORE" /\ i.f3 \notin StoreF3
  \/ i.op = "OP_SYSTEM" /\ i.f3 # 0
  \/ i.op = "OP_OTHER"

BranchKind(i) ==
  CASE i.op \in {"OP_JAL", "OP_JALR"}       -> "BR_JUMP"
    [] i.op = "OP_BRANCH" /\ i.f3 = 0       -> "BR_EQ"
    [] i.op = "OP_BRANCH" /\ i.f3 = 1       -> "BR_NE"
    [] i.op = "OP_BRANCH" /\ i.f3 = 4       -> "BR_LT"
    [] i.op = "OP_BRANCH" /\ i.f3 = 5       -> "BR_GE"
    [] i.op = "OP_BRANCH" /\ i.f3 = 6       -> "BR_LTU"
    [] i.op = "OP_BRANCH" /\ i.f3 = 7       -> "BR_GEU"
    [] OTHER                                -> "BR_NONE"

AccessSize(i) ==
  CASE (IsLoad(i) \/ IsStore(i)) /\ i.f3 \in {0, 4} -> "MEM_B"
    [] (IsLoad(i) \/ IsStore(i)) /\ i.f3 \in {1, 5} -> "MEM_H"
    [] OTHER                                        -> "MEM_W"

(* The operation; only the register form has SUB.                          *)
ArithOp(i) ==
  CASE i.f3 = F3_ADD_SUB ->
         IF i.op = "OP_REG" /\ i.f7 = "F7_ALT" THEN "ALU_SUB" ELSE "ALU_ADD"
    [] i.f3 = F3_SLL  -> "ALU_SLL"
    [] i.f3 = F3_SLT  -> "ALU_SLT"
    [] i.f3 = F3_SLTU -> "ALU_SLTU"
    [] i.f3 = F3_XOR  -> "ALU_XOR"
    [] i.f3 = F3_SR   -> IF i.f7 = "F7_ALT" THEN "ALU_SRA" ELSE "ALU_SRL"
    [] i.f3 = F3_OR   -> "ALU_OR"
    [] OTHER          -> "ALU_AND"    \* F3_AND, the only value left

Decode(i) ==
  [reg_write    |-> IsLoad(i) \/ i.op \in {"OP_LUI", "OP_AUIPC", "OP_JAL",
                                           "OP_JALR", "OP_IMM", "OP_REG"},
   wb_src       |-> IF i.op = "OP_LOAD" THEN "WB_MEM"
                    ELSE IF i.op \in {"OP_JAL", "OP_JALR"} THEN "WB_PC4"
                    ELSE "WB_ALU",
   mem_read     |-> IsLoad(i),
   mem_write    |-> IsStore(i),
   mem_size     |-> AccessSize(i),
   mem_unsigned |-> i.op = "OP_LOAD" /\ i.f3 \in {4, 5},
   alu_op       |-> IF i.op = "OP_LUI" THEN "ALU_PASS_B"
                    ELSE IF i.op \in {"OP_IMM", "OP_REG"} THEN ArithOp(i)
                    ELSE "ALU_ADD",
   alu_src_a    |-> IF i.op \in {"OP_AUIPC", "OP_JAL", "OP_BRANCH"}
                    THEN "ALU_A_PC" ELSE "ALU_A_RS1",
   alu_src_b    |-> IF i.op \in {"OP_LUI", "OP_AUIPC", "OP_JAL", "OP_JALR",
                                 "OP_BRANCH", "OP_LOAD", "OP_STORE", "OP_IMM"}
                    THEN "ALU_B_IMM" ELSE "ALU_B_RS2",
   branch_op    |-> BranchKind(i),
   jalr         |-> i.op = "OP_JALR",
   illegal      |-> IsIllegal(i)]

(* Which source registers each opcode reads (the hazard unit's table).     *)
ReadsRs1(op) ==
  op \in {"OP_REG", "OP_STORE", "OP_BRANCH", "OP_IMM", "OP_LOAD", "OP_JALR"}
ReadsRs2(op) == op \in {"OP_REG", "OP_STORE", "OP_BRANCH"}

(* The cause an instruction carries from ID: illegal, ecall, ebreak.       *)
IsSystem(i) == i.op = "OP_SYSTEM" /\ i.f3 = 0
IdHc(i) ==
  IF Decode(i).illegal THEN "HC_ILLEGAL"
  ELSE IF IsSystem(i) /\ i.f12 = "F12_ECALL" THEN "HC_ECALL"
  ELSE IF IsSystem(i) /\ i.f12 = "F12_EBREAK" THEN "HC_EBREAK"
  ELSE "HC_NONE"
=============================================================================
