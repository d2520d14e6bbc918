------------------------------ MODULE Datapath ------------------------------
(***************************************************************************)
(* The arithmetic of the RTL on the bits of a word: rtl/alu.sv, the        *)
(* comparisons of rtl/branch_unit.sv, the lane selection and               *)
(* read-modify-write of rtl/data_memory.sv and the address slices of both  *)
(* memories.  These are the values the models give to the operator         *)
(* constants of module Units.                                              *)
(*                                                                         *)
(* A word is four bytes of BYTE bits, as a natural number.  BYTE = 8 is    *)
(* the core; BYTE = 2 keeps every lane, sign and overflow case in an 8-bit *)
(* word.                                                                   *)
(***************************************************************************)
EXTENDS Integers

CONSTANTS BYTE,                   \* bits in a byte
          IMEM_WORDS, DMEM_WORDS  \* memory depths, powers of two

ASSUME ByteAssumption == BYTE \in Nat \ {0}
ASSUME DepthAssumption ==
  \E i \in 0 .. 30, d \in 0 .. 30 : IMEM_WORDS = 2^i /\ DMEM_WORDS = 2^d

XLEN == 4 * BYTE
RtlWord == 0 .. (2^XLEN - 1)

(* Arithmetic that the proofs have to be told: a power of two is positive  *)
(* and the next one is its double.                                         *)
ASSUME PowersOfTwo ==
  /\ 2^0 = 1
  /\ \A n \in 0 .. XLEN : 2^n \in Nat \ {0}
  /\ \A n \in 0 .. (XLEN - 1) : 2^(n + 1) = 2 * 2^n

Wrap(n) == n % 2^XLEN
Signed(a) == IF a >= 2^(XLEN - 1) THEN a - 2^XLEN ELSE a
Bit(a, i) == (a \div 2^i) % 2
Flag(b) == IF b THEN 1 ELSE 0

(* The word with the bits h, and the word whose bit i is f of the bits i   *)
(* of a and b.                                                             *)
FromBits(h) ==
  LET sum[n \in 0 .. XLEN] ==
        IF n = 0 THEN 0 ELSE sum[n - 1] + h[n - 1] * 2^(n - 1)
  IN  sum[XLEN]
BitwiseOp(f(_, _), a, b) ==
  FromBits([i \in 0 .. (XLEN - 1) |-> f(Bit(a, i), Bit(b, i))])
And1(x, y) == x * y
Or1(x, y)  == x + y - x * y
Xor1(x, y) == (x + y) % 2

(* Only the low bits of b count for a shift: b[4:0] in a 32-bit word.      *)
Shamt(b) == b % XLEN

RtlAlu(op, a, b) ==
  CASE op = "ALU_ADD"    -> Wrap(a + b)
    [] op = "ALU_SUB"    -> Wrap(a - b)
    [] op = "ALU_AND"    -> BitwiseOp(And1, a, b)
    [] op = "ALU_OR"     -> BitwiseOp(Or1, a, b)
    [] op = "ALU_XOR"    -> BitwiseOp(Xor1, a, b)
    [] op = "ALU_SLL"    -> Wrap(a * 2^Shamt(b))
    [] op = "ALU_SRL"    -> a \div 2^Shamt(b)
    [] op = "ALU_SRA"    -> Wrap(Signed(a) \div 2^Shamt(b))
    [] op = "ALU_SLT"    -> Flag(Signed(a) < Signed(b))
    [] op = "ALU_SLTU"   -> Flag(a < b)
    [] op = "ALU_PASS_B" -> b

RtlCmp(kind, a, b) ==
  CASE kind = "BR_EQ"  -> a = b
    [] kind = "BR_NE"  -> a # b
    [] kind = "BR_LT"  -> Signed(a) < Signed(b)
    [] kind = "BR_GE"  -> Signed(a) >= Signed(b)
    [] kind = "BR_LTU" -> a < b
    [] kind = "BR_GEU" -> a >= b

RtlPlus4(a) == Wrap(a + 4)
RtlClearBit0(a) == a - (a % 2)

(***************************************************************************)
(* Memory.                                                                 *)
(***************************************************************************)
RtlImemIdx(addr) == (addr \div 4) % IMEM_WORDS
RtlDmemIdx(addr) == (addr \div 4) % DMEM_WORDS
RtlByteOff(addr) == addr % 4

RtlUnaligned(sz, off) ==
  \/ sz = "MEM_H" /\ off % 2 # 0
  \/ sz = "MEM_W" /\ off # 0

(* The lane an access selects: its lowest bit and its width in bits.       *)
Lane(sz, off) ==
  CASE sz = "MEM_B" -> [lo |-> BYTE * off, width |-> BYTE]
    [] sz = "MEM_H" -> [lo |-> 2 * BYTE * (off \div 2), width |-> 2 * BYTE]
    [] sz = "MEM_W" -> [lo |-> 0, width |-> XLEN]

LaneBits(l, w) == (w \div 2^l.lo) % 2^l.width

RtlReadExt(sz, unsigned, off, w) ==
  LET l == Lane(sz, off)
      v == LaneBits(l, w)
  IN  IF ~unsigned /\ v >= 2^(l.width - 1) THEN v + 2^XLEN - 2^l.width ELSE v

RtlMergeWord(sz, off, w, d) ==
  LET l == Lane(sz, off)
  IN  w + ((d % 2^l.width) - LaneBits(l, w)) * 2^l.lo
=============================================================================
