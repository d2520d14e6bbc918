------------------------------ MODULE RiscvPkg ------------------------------
(***************************************************************************)
(* The shared types of the core (rtl/pkg/riscv_pkg.sv): opcodes and        *)
(* function fields, the selectors the decoder drives, the control bundle   *)
(* that every pipeline register threads, and the halt causes of the two    *)
(* top levels.                                                             *)
(*                                                                         *)
(* A machine word is a member of the constant set Word: the modules never  *)
(* look inside one, they only hand it to the operators of module Units.    *)
(* An instruction word is the record of the slices the RTL takes from it   *)
(* (opcode, funct3, funct7, funct12, rd, rs1, rs2) with the immediate that *)
(* imm_gen selects for its opcode.  The slices are independent here, so    *)
(* every 32-bit encoding is represented, and some records that no encoding *)
(* has are checked as well.                                                *)
(***************************************************************************)
EXTENDS Naturals

CONSTANTS
  Word,    \* machine words (logic [31:0])
  Zero,    \* the all-zero word
  NREGS    \* number of architectural registers, x0 included (32)

ASSUME ZeroAssumption == Zero \in Word
ASSUME NregsAssumption == NREGS \in Nat \ {0}

Reg == 0 .. (NREGS - 1)    \* a 5-bit register index
XReg == Reg \ {0}          \* the registers that hold state: xregs [1:31]

Opcode == {"OP_LUI", "OP_AUIPC", "OP_JAL", "OP_JALR", "OP_BRANCH", "OP_LOAD",
           "OP_STORE", "OP_IMM", "OP_REG", "OP_FENCE", "OP_SYSTEM", "OP_OTHER"}

(* funct3 by its value; the names depend on the opcode.                    *)
Funct3 == 0 .. 7
F3_ADD_SUB == 0
F3_SLL     == 1
F3_SLT     == 2
F3_SLTU    == 3
F3_XOR     == 4
F3_SR      == 5
F3_OR      == 6

(* The RTL tells only ECALL and EBREAK apart; the emulator also knows MRET  *)
(* and WFI, and reads the same field as the address of a CSR.              *)
Funct7  == {"F7_DEFAULT", "F7_ALT", "F7_OTHER"}
Funct12 == {"F12_ECALL", "F12_EBREAK", "F12_MRET", "F12_WFI",
            "F12_MTVEC", "F12_MEPC", "F12_MCAUSE", "F12_OTHER"}

Inst == [op: Opcode, f3: Funct3, f7: Funct7, f12: Funct12,
         rd: Reg, rs1: Reg, rs2: Reg, imm: Word]

(* addi x0, x0, 0: what a flushed IF/ID register holds.                    *)
NOP_INST == [op |-> "OP_IMM", f3 |-> F3_ADD_SUB, f7 |-> "F7_DEFAULT",
             f12 |-> "F12_ECALL", rd |-> 0, rs1 |-> 0, rs2 |-> 0, imm |-> Zero]

(* The selectors of the control bundle.                                    *)
AluOp    == {"ALU_ADD", "ALU_SUB", "ALU_AND", "ALU_OR", "ALU_XOR", "ALU_SLL",
             "ALU_SRL", "ALU_SRA", "ALU_SLT", "ALU_SLTU", "ALU_PASS_B"}
AluSrcA  == {"ALU_A_RS1", "ALU_A_PC"}
AluSrcB  == {"ALU_B_RS2", "ALU_B_IMM"}
WbSrc    == {"WB_ALU", "WB_MEM", "WB_PC4"}
CondOp   == {"BR_EQ", "BR_NE", "BR_LT", "BR_GE", "BR_LTU", "BR_GEU"}
BranchOp == CondOp \cup {"BR_NONE", "BR_JUMP"}
MemSize  == {"MEM_B", "MEM_H", "MEM_W"}

Control == [reg_write: BOOLEAN, wb_src: WbSrc,
            mem_read: BOOLEAN, mem_write: BOOLEAN,
            mem_size: MemSize, mem_unsigned: BOOLEAN,
            alu_op: AluOp, alu_src_a: AluSrcA, alu_src_b: AluSrcB,
            branch_op: BranchOp, jalr: BOOLEAN, illegal: BOOLEAN]

(* The all-zero bundle that reset and flush put into a pipeline register.  *)
Bubble == [reg_write |-> FALSE, wb_src |-> "WB_ALU",
           mem_read |-> FALSE, mem_write |-> FALSE,
           mem_size |-> "MEM_B", mem_unsigned |-> FALSE,
           alu_op |-> "ALU_ADD", alu_src_a |-> "ALU_A_RS1",
           alu_src_b |-> "ALU_B_RS2",
           branch_op |-> "BR_NONE", jalr |-> FALSE, illegal |-> FALSE]

HaltCause == {"HC_NONE", "HC_ECALL", "HC_EBREAK", "HC_ILLEGAL",
              "HC_MISALIGNED", "HC_TOHOST"}
=============================================================================
