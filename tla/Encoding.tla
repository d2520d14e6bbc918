------------------------------ MODULE Encoding ------------------------------
(***************************************************************************)
(* The formats of a 32-bit instruction word, three times over: the packers *)
(* and range checks of the assembler (tools/assembler/assemble.py), the    *)
(* immediate decoders of the emulator (tools/refmodel/rv32i_emu.py) and    *)
(* the immediate generator of the RTL (rtl/imm_gen.sv), with the numbers   *)
(* of tools/refmodel/encoding.py.                                          *)
(*                                                                         *)
(* A word is the record of the finest slices that the formats cut it into, *)
(* so that every shift-and-or is an assignment of slices.  A 32-bit value  *)
(* is the pair of its upper 20 and its lower 12 bits.                      *)
(***************************************************************************)
EXTENDS Integers

Slices == [b31: 0 .. 1, b30_25: 0 .. 63, b24_21: 0 .. 15, b20: 0 .. 1,
           b19_15: 0 .. 31, b14_12: 0 .. 7, b11_8: 0 .. 15, b7: 0 .. 1,
           opcode: 0 .. 127]

Pair == [hi: {n \in Nat : n < 1048576}, lo: {n \in Nat : n < 4096}]

(* v & 0xFFFFFFFF                                                          *)
Word32(v) == [hi |-> (v \div 4096) % 1048576, lo |-> v % 4096]

(***************************************************************************)
(* encoding.py: the opcodes and the function fields, by value.             *)
(***************************************************************************)
OPC == [LUI |-> 55, AUIPC |-> 23, JAL |-> 111, JALR |-> 103, BRANCH |-> 99,
        LOAD |-> 3, STORE |-> 35, IMM |-> 19, REG |-> 51, FENCE |-> 15,
        SYSTEM |-> 115]

F3Op     == [ADD_SUB |-> 0, SLL |-> 1, SLT |-> 2, SLTU |-> 3, XOR |-> 4,
             SR |-> 5, OR |-> 6, AND |-> 7]
F3Branch == [BEQ |-> 0, BNE |-> 1, BLT |-> 4, BGE |-> 5, BLTU |-> 6, BGEU |-> 7]
F3Load   == [LB |-> 0, LH |-> 1, LW |-> 2, LBU |-> 4, LHU |-> 5]
F3Store  == [SB |-> 0, SH |-> 1, SW |-> 2]

F7_DEFAULT == 0
F7_ALT     == 32
F12_ECALL  == 0
F12_EBREAK == 1

(***************************************************************************)
(* assemble.py: an immediate of n bits is checked against half = 2^(n-1)   *)
(* and turned into its bit pattern, then packed.                           *)
(***************************************************************************)
FitsSigned(v, half) == -half <= v /\ v < half
fit_signed(v, half) == v % (2 * half)

r_type(opcode, rd, f3, rs1, rs2, f7) ==
  [b31 |-> (f7 \div 64) % 2, b30_25 |-> f7 % 64,
   b24_21 |-> (rs2 \div 2) % 16, b20 |-> rs2 % 2,
   b19_15 |-> rs1 % 32, b14_12 |-> f3 % 8,
   b11_8 |-> (rd \div 2) % 16, b7 |-> rd % 2, opcode |-> opcode % 128]

i_type(opcode, rd, f3, rs1, imm12) ==
  [b31 |-> (imm12 \div 2048) % 2, b30_25 |-> (imm12 \div 32) % 64,
   b24_21 |-> (imm12 \div 2) % 16, b20 |-> imm12 % 2,
   b19_15 |-> rs1 % 32, b14_12 |-> f3 % 8,
   b11_8 |-> (rd \div 2) % 16, b7 |-> rd % 2, opcode |-> opcode % 128]

(* Mutant of s_type: the two source registers are swapped.                 *)
s_type_swapped(opcode, f3, rs1, rs2, imm12) ==
  [b31 |-> (imm12 \div 2048) % 2, b30_25 |-> (imm12 \div 32) % 64,
   b24_21 |-> (rs1 \div 2) % 16, b20 |-> rs1 % 2,
   b19_15 |-> rs2 % 32, b14_12 |-> f3 % 8,
   b11_8 |-> (imm12 \div 2) % 16, b7 |-> imm12 % 2, opcode |-> opcode % 128]

s_type(opcode, f3, rs1, rs2, imm12) ==
  [b31 |-> (imm12 \div 2048) % 2, b30_25 |-> (imm12 \div 32) % 64,
   b24_21 |-> (rs2 \div 2) % 16, b20 |-> rs2 % 2,
   b19_15 |-> rs1 % 32, b14_12 |-> f3 % 8,
   b11_8 |-> (imm12 \div 2) % 16, b7 |-> imm12 % 2, opcode |-> opcode % 128]

(* Mutant of b_type: imm[12] also lands in inst[7].                        *)
b_type_no_b11(opcode, f3, rs1, rs2, imm13) ==
  [b31 |-> (imm13 \div 4096) % 2, b30_25 |-> (imm13 \div 32) % 64,
   b24_21 |-> (rs2 \div 2) % 16, b20 |-> rs2 % 2,
   b19_15 |-> rs1 % 32, b14_12 |-> f3 % 8,
   b11_8 |-> (imm13 \div 2) % 16, b7 |-> (imm13 \div 4096) % 2,
   opcode |-> opcode % 128]

b_type(opcode, f3, rs1, rs2, imm13) ==
  [b31 |-> (imm13 \div 4096) % 2, b30_25 |-> (imm13 \div 32) % 64,
   b24_21 |-> (rs2 \div 2) % 16, b20 |-> rs2 % 2,
   b19_15 |-> rs1 % 32, b14_12 |-> f3 % 8,
   b11_8 |-> (imm13 \div 2) % 16, b7 |-> (imm13 \div 2048) % 2,
   opcode |-> opcode % 128]

u_type(opcode, rd, imm20) ==
  [b31 |-> (imm20 \div 524288) % 2, b30_25 |-> (imm20 \div 8192) % 64,
   b24_21 |-> (imm20 \div 512) % 16, b20 |-> (imm20 \div 256) % 2,
   b19_15 |-> (imm20 \div 8) % 32, b14_12 |-> imm20 % 8,
   b11_8 |-> (rd \div 2) % 16, b7 |-> rd % 2, opcode |-> opcode % 128]

j_type(opcode, rd, imm21) ==
  [b31 |-> (imm21 \div 1048576) % 2, b30_25 |-> (imm21 \div 32) % 64,
   b24_21 |-> (imm21 \div 2) % 16, b20 |-> (imm21 \div 2048) % 2,
   b19_15 |-> (imm21 \div 32768) % 32, b14_12 |-> (imm21 \div 4096) % 8,
   b11_8 |-> (rd \div 2) % 16, b7 |-> rd % 2, opcode |-> opcode % 128]

(***************************************************************************)
(* How li, la and call cut a 32-bit value in two: the lower part is added  *)
(* with its sign, so the upper one is bumped when bit 11 is set.           *)
(***************************************************************************)
(* Mutant of HiPart: the sign of the lower part is forgotten.              *)
HiPartPlain(p) == p.hi

HiPart(p) == IF p.lo >= 2048 THEN (p.hi + 1) % 1048576 ELSE p.hi
LoPart(p) == p.lo

(***************************************************************************)
(* rv32i_emu.py: the register fields and the immediates of a word.         *)
(***************************************************************************)
rd_of(w)     == w.b11_8 * 2 + w.b7
rs1_of(w)    == w.b19_15
rs2_of(w)    == w.b24_21 * 2 + w.b20
funct3_of(w) == w.b14_12
funct7_of(w) == w.b31 * 64 + w.b30_25

(* sext to n bits, again with half = 2^(n-1).                              *)
Sext(raw, half) ==
  LET bits == raw % (2 * half)
  IN  IF bits >= half THEN bits - 2 * half ELSE bits

imm_i(w) == Sext(w.b31 * 2048 + w.b30_25 * 32 + w.b24_21 * 2 + w.b20, 2048)
imm_s(w) == Sext(w.b31 * 2048 + w.b30_25 * 32 + w.b11_8 * 2 + w.b7, 2048)
imm_b(w) == Sext(w.b31 * 4096 + w.b30_25 * 32 + w.b11_8 * 2 + w.b7 * 2048, 4096)
imm_u(w) == [hi |-> w.b31 * 524288 + w.b30_25 * 8192 + w.b24_21 * 512
                    + w.b20 * 256 + w.b19_15 * 8 + w.b14_12,
             lo |-> 0]
imm_j(w) == Sext(w.b31 * 1048576 + w.b30_25 * 32 + w.b24_21 * 2
                 + w.b20 * 2048 + w.b19_15 * 32768 + w.b14_12 * 4096, 1048576)

(* x + y on 32-bit words, y a signed 12-bit number (AUIPC or LUI, then     *)
(* ADDI or JALR).                                                          *)
Plus12(p, y) == [hi |-> (p.hi + ((p.lo + y) \div 4096)) % 1048576,
                 lo |-> (p.lo + y) % 4096]

(***************************************************************************)
(* imm_gen.sv: the concatenations, with their replicated sign bits.        *)
(***************************************************************************)
gen_i(w) == [hi |-> w.b31 * 1048575,
             lo |-> w.b31 * 2048 + w.b30_25 * 32 + w.b24_21 * 2 + w.b20]
gen_s(w) == [hi |-> w.b31 * 1048575,
             lo |-> w.b31 * 2048 + w.b30_25 * 32 + w.b11_8 * 2 + w.b7]
gen_b(w) == [hi |-> w.b31 * 1048575,
             lo |-> w.b7 * 2048 + w.b30_25 * 32 + w.b11_8 * 2]
gen_u(w) == [hi |-> w.b31 * 524288 + w.b30_25 * 8192 + w.b24_21 * 512
                    + w.b20 * 256 + w.b19_15 * 8 + w.b14_12,
             lo |-> 0]

(* Mutant of gen_j: the sign fills from bit 19.                            *)
gen_j_short(w) == [hi |-> w.b31 * 1047552 + w.b19_15 * 8 + w.b14_12,
                   lo |-> w.b20 * 2048 + w.b30_25 * 32 + w.b24_21 * 2]

gen_j(w) == [hi |-> w.b31 * 1048320 + w.b19_15 * 8 + w.b14_12,
             lo |-> w.b20 * 2048 + w.b30_25 * 32 + w.b24_21 * 2]

imm_gen(w) ==
  CASE w.opcode \in {OPC.LOAD, OPC.IMM, OPC.JALR, OPC.SYSTEM, OPC.FENCE} -> gen_i(w)
    [] w.opcode = OPC.STORE            -> gen_s(w)
    [] w.opcode = OPC.BRANCH           -> gen_b(w)
    [] w.opcode \in {OPC.LUI, OPC.AUIPC} -> gen_u(w)
    [] w.opcode = OPC.JAL              -> gen_j(w)
    [] OTHER                           -> [hi |-> 0, lo |-> 0]

(* The immediate that step() uses for an opcode, as a 32-bit word.         *)
step_imm(w) ==
  CASE w.opcode \in {OPC.LOAD, OPC.IMM, OPC.JALR} -> Word32(imm_i(w))
    [] w.opcode = OPC.STORE            -> Word32(imm_s(w))
    [] w.opcode = OPC.BRANCH           -> Word32(imm_b(w))
    [] w.opcode \in {OPC.LUI, OPC.AUIPC} -> imm_u(w)
    [] w.opcode = OPC.JAL              -> Word32(imm_j(w))

UsesImm == {OPC.LOAD, OPC.IMM, OPC.JALR, OPC.STORE, OPC.BRANCH, OPC.LUI,
            OPC.AUIPC, OPC.JAL}
=============================================================================
