------------------------------ MODULE EmuArith ------------------------------
(***************************************************************************)
(* The arithmetic of the reference emulator (tools/refmodel/rv32i_emu.py): *)
(* masking Python integers to words, the operations of OP and OP-IMM, the  *)
(* branch conditions, and the little-endian accesses to its byte array.    *)
(* Written from the Python, independently of module Datapath, which is the *)
(* arithmetic of the RTL; only the notion of a word, of bit i of a number  *)
(* and of a bitwise operation are shared.                                  *)
(*                                                                         *)
(* A register holds a word, 0 .. 2^XLEN - 1.  An immediate is a signed     *)
(* integer, as imm_i and its sisters return it.                            *)
(***************************************************************************)
EXTENDS RiscvPkg, Datapath

u32(x) == x % 2^XLEN

s32(x) == IF u32(x) >= 2^(XLEN - 1) THEN u32(x) - 2^XLEN ELSE u32(x)

sext(value, bits) ==
  LET v == value % 2^bits IN IF v >= 2^(bits - 1) THEN v - 2^bits ELSE v

(* &, | and ^ of Python integers, after the mask that follows them.        *)
PyAnd(a, b) == BitwiseOp(And1, u32(a), u32(b))
PyOr(a, b)  == BitwiseOp(Or1, u32(a), u32(b))
PyXor(a, b) == BitwiseOp(Xor1, u32(a), u32(b))

(* Mutant of ShiftMask: the amount is not masked.                          *)
ShiftUnmasked(x) == IF x < 0 THEN 0 ELSE IF x > XLEN THEN XLEN ELSE x

(* x & 0x1F: the shift amounts of the word.                                *)
ShiftMask(x) == x % XLEN

(* The funct3 classes of encoding.py that do not use all eight values.     *)
F3Branch == {0, 1, 4, 5, 6, 7}
F3Load   == {0, 1, 2, 4, 5}
F3Store  == {0, 1, 2}

(***************************************************************************)
(* _alu_imm and _alu_reg.  Both raise "illegal" for the funct7 values that *)
(* a discriminating funct3 does not define.                                *)
(***************************************************************************)
AluImmIllegal(f3, f7) == f3 = F3_SR /\ f7 = "F7_OTHER"

_alu_imm(f3, f7, a, imm) ==
  CASE f3 = F3_ADD_SUB -> u32(a + imm)
    [] f3 = F3_SLT     -> Flag(s32(a) < s32(imm))
    [] f3 = F3_SLTU    -> Flag(u32(a) < u32(imm))
    [] f3 = F3_XOR     -> PyXor(a, imm)
    [] f3 = F3_OR      -> PyOr(a, imm)
    [] f3 = F3_SLL     -> u32(a * 2^ShiftMask(imm))
    [] f3 = F3_SR /\ f7 = "F7_DEFAULT" -> u32(a) \div 2^ShiftMask(imm)
    [] f3 = F3_SR /\ f7 = "F7_ALT"     -> u32(s32(a) \div 2^ShiftMask(imm))
    [] OTHER           -> PyAnd(a, imm)

AluRegIllegal(f3, f7) == f3 \in {F3_ADD_SUB, F3_SR} /\ f7 = "F7_OTHER"

_alu_reg(f3, f7, a, b) ==
  CASE f3 = F3_ADD_SUB /\ f7 = "F7_DEFAULT" -> u32(a + b)
    [] f3 = F3_ADD_SUB /\ f7 = "F7_ALT"     -> u32(a - b)
    [] f3 = F3_SLL  -> u32(a * 2^ShiftMask(b))
    [] f3 = F3_SLT  -> Flag(s32(a) < s32(b))
    [] f3 = F3_SLTU -> Flag(u32(a) < u32(b))
    [] f3 = F3_XOR  -> PyXor(a, b)
    [] f3 = F3_SR /\ f7 = "F7_DEFAULT" -> u32(a) \div 2^ShiftMask(b)
    [] f3 = F3_SR /\ f7 = "F7_ALT"     -> u32(s32(a) \div 2^ShiftMask(b))
    [] f3 = F3_OR   -> PyOr(a, b)
    [] OTHER        -> PyAnd(a, b)

(* Mutant of BranchTaken: BGE and BGEU are strict.                         *)
BranchTakenStrict(f3, a, b) ==
  CASE f3 = 0 -> a = b
    [] f3 = 1 -> a # b
    [] f3 = 4 -> s32(a) < s32(b)
    [] f3 = 5 -> s32(a) > s32(b)
    [] f3 = 6 -> u32(a) < u32(b)
    [] f3 = 7 -> u32(a) > u32(b)

BranchTaken(f3, a, b) ==
  CASE f3 = 0 -> a = b
    [] f3 = 1 -> a # b
    [] f3 = 4 -> s32(a) < s32(b)
    [] f3 = 5 -> s32(a) >= s32(b)
    [] f3 = 6 -> u32(a) < u32(b)
    [] f3 = 7 -> u32(a) >= u32(b)

(***************************************************************************)
(* The byte array.  m maps addresses to bytes, least significant first.    *)
(***************************************************************************)
LoadBytes(m, addr, size) ==
  LET byte(k) == m[addr + k] * 2^(BYTE * k)
  IN  CASE size = 1 -> byte(0)
        [] size = 2 -> byte(0) + byte(1)
        [] size = 4 -> byte(0) + byte(1) + byte(2) + byte(3)

(* Mutant of LoadValue: a signed load is not extended.                     *)
LoadValueZeroExt(m, addr, size, signed) == LoadBytes(m, addr, size)

LoadValue(m, addr, size, signed) ==
  LET v == LoadBytes(m, addr, size)
  IN  IF signed THEN u32(sext(v, BYTE * size)) ELSE v

(* Mutant of StoreBytes: every store writes a whole word.                  *)
StoreBytesWhole(m, addr, value, size) ==
  [a \in DOMAIN m |-> IF a \in addr .. (addr + 3)
                      THEN (value \div 2^(BYTE * (a - addr))) % 2^BYTE
                      ELSE m[a]]

StoreBytes(m, addr, value, size) ==
  [a \in DOMAIN m |-> IF a \in addr .. (addr + size - 1)
                      THEN (value \div 2^(BYTE * (a - addr))) % 2^BYTE
                      ELSE m[a]]

(* addr & (size - 1), tested for half-words and words only.                *)
SizeMisaligned(addr, size) == size \in {2, 4} /\ addr % size # 0
=============================================================================
