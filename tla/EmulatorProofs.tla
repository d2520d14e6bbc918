--------------------------- MODULE EmulatorProofs ---------------------------
(***************************************************************************)
(* The reference emulator, for every byte width, instruction table and     *)
(* memory: a step keeps registers, CSRs and memory in their types, and its *)
(* trace tells a reader everything that it changed; and its arithmetic and *)
(* its accesses to memory are those of the RTL.  The theorems about runs   *)
(* are in the modules that say how a run begins.                           *)
(***************************************************************************)
EXTENDS Emulator, AluRef, WellFoundedInduction, TLAPS

(***************************************************************************)
(* Induction: a nonempty set of natural numbers has a least element.       *)
(***************************************************************************)
LEMMA Least ==
  ASSUME NEW S \in SUBSET Nat, S # {}
  PROVE  \E x \in S : \A y \in S : x <= y
<1>1. PICK R : /\ IsWellFoundedOn(R, Nat)
               /\ \A x, y \in Nat : x < y => <<x, y>> \in R
  <2>1. IsWellFoundedOn(OpToRel(<, Nat), Nat)
    BY NatLessThanWellFounded
  <2>2. \A x, y \in Nat : x < y => <<x, y>> \in OpToRel(<, Nat)
    BY DEF OpToRel
  <2>3. QED
    BY <2>1, <2>2
<1>2. PICK x \in S : \A y \in S : ~(<<y, x>> \in R)
  <2>1. IsWellFoundedOn(R, Nat)
    BY <1>1, Zenon
  <2>2. S \subseteq Nat
    OBVIOUS
  <2>3. QED
    BY <2>1, <2>2, WFMin, Zenon
<1>3. \A z, y \in Nat : z < y => <<z, y>> \in R
  BY <1>1, Zenon
<1>4. \A y \in S : ~(y < x)
  BY <1>2, <1>3, Zenon
<1>5. QED
  BY <1>4, SMT

(***************************************************************************)
(* Arithmetic of words.                                                    *)
(***************************************************************************)
LEMMA ModBound ==
  ASSUME NEW x \in Int, NEW n \in Nat \ {0}
  PROVE  x % n \in 0 .. (n - 1)
OBVIOUS

(* The word has at least four bits, and every lane ends inside it.         *)
LEMMA Widths ==
  /\ BYTE \in Nat \ {0} /\ XLEN \in Nat /\ XLEN >= 4 /\ XLEN - 1 \in 0 .. XLEN
  /\ \A i \in 0 .. 4 : BYTE * i \in 0 .. XLEN
BY ByteAssumption DEF XLEN

(* Powers of two are ordered like their exponents.                         *)
LEMMA PowersGrow ==
  ASSUME NEW m \in 0 .. XLEN, NEW n \in 0 .. XLEN, m <= n
  PROVE  2^m <= 2^n
<1> DEFINE S == {i \in m .. XLEN : ~(2^m <= 2^i)}
<1>1. SUFFICES ASSUME S # {} PROVE FALSE
  <2>1. n \in m .. XLEN
    OBVIOUS
  <2>2. QED
    BY <2>1
<1>2. S \in SUBSET Nat
  BY Widths
<1>3. PICK i \in S : \A y \in S : i <= y
  BY <1>1, <1>2, Least
<1>4. i # m
  BY PowersOfTwo
<1>5. i - 1 \in m .. XLEN /\ i - 1 \notin S
  BY <1>2, <1>3, <1>4, Widths
<1>6. 2^i = 2 * 2^(i - 1) /\ 2^(i - 1) \in Nat
  BY <1>5, PowersOfTwo, Widths
<1>7. QED
  BY <1>3, <1>5, <1>6, PowersOfTwo

LEMMA WordSizes ==
  /\ 2^XLEN \in Nat \ {0} /\ 2^XLEN >= 16
  /\ 2^(XLEN - 1) \in Nat \ {0} /\ 2^XLEN = 2 * 2^(XLEN - 1)
  /\ 2^BYTE \in Nat \ {0}
  /\ \A i \in 0 .. 4 : 2^(BYTE * i) \in Nat \ {0}
<1>1. 2^4 <= 2^XLEN
  <2>1. 4 \in 0 .. XLEN /\ XLEN \in 0 .. XLEN /\ 4 <= XLEN
    BY Widths
  <2>2. QED
    BY <2>1, PowersGrow, Zenon
<1>2. 2^4 = 16
  OBVIOUS
<1>3. XLEN = (XLEN - 1) + 1 /\ BYTE * 1 = BYTE
  BY Widths
<1>4. QED
  BY <1>1, <1>2, <1>3, PowersOfTwo, Widths

(* Masking gives a word and leaves a word alone; s32 gives an integer.     *)
LEMMA Masks ==
  /\ \A x \in Int : u32(x) \in RtlWord /\ s32(x) \in Int
  /\ \A x \in RtlWord : u32(x) = x /\ x \in Int
BY WordSizes DEF u32, s32, RtlWord

(* g holds the partial sums of FromBits(h), the last one below 2^m.        *)
PartialSums(g, h, m) ==
  /\ g \in [0 .. m -> Nat] /\ g[0] = 0
  /\ \A n \in 1 .. m : g[n] = g[n - 1] + h[n - 1] * 2^(n - 1) /\ g[n] < 2^n

LEMMA SumsExist ==
  ASSUME NEW h \in [0 .. (XLEN - 1) -> 0 .. 1]
  PROVE  \E g : PartialSums(g, h, XLEN)
<1> DEFINE S == {n \in 0 .. XLEN : ~\E g : PartialSums(g, h, n)}
<1>1. SUFFICES ASSUME S # {} PROVE FALSE
  <2>1. XLEN \in 0 .. XLEN
    BY Widths
  <2>2. QED
    BY <2>1
<1>2. S \in SUBSET Nat
  OBVIOUS
<1>3. PICK m \in S : \A y \in S : m <= y
  BY <1>1, <1>2, Least
<1>4. m # 0
  <2>1. PartialSums([n \in 0 .. 0 |-> 0], h, 0)
    BY DEF PartialSums
  <2>2. QED
    BY <2>1
<1>5. m - 1 \in 0 .. XLEN /\ m - 1 \notin S /\ m \in 1 .. XLEN /\ m - 1 \in 0 .. (XLEN - 1)
  BY <1>3, <1>4, Widths
<1>6. PICK g : PartialSums(g, h, m - 1)
  BY <1>5
<1> DEFINE top == g[m - 1] + h[m - 1] * 2^(m - 1)
           gm == [n \in 0 .. m |-> IF n = m THEN top ELSE g[n]]
<1> HIDE DEF S
<1>7. PartialSums(gm, h, m)
  <2>1. 2^(m - 1) \in Nat /\ 2^m = 2 * 2^(m - 1) /\ h[m - 1] \in 0 .. 1
    BY <1>5, PowersOfTwo
  <2>2. g[m - 1] \in Nat /\ g[m - 1] < 2^(m - 1)
    BY <1>5, <1>6, PowersOfTwo DEF PartialSums
  <2>3. h[m - 1] * 2^(m - 1) = IF h[m - 1] = 0 THEN 0 ELSE 2^(m - 1)
    BY <2>1
  <2>4. top \in Nat /\ top < 2^m
    BY <2>1, <2>2, <2>3
  <2>5. gm \in [0 .. m -> Nat] /\ gm[0] = 0
    BY <1>5, <1>6, <2>4 DEF PartialSums
  <2>6. ASSUME NEW n \in 1 .. m
        PROVE  gm[n] = gm[n - 1] + h[n - 1] * 2^(n - 1) /\ gm[n] < 2^n
    <3>1. CASE n = m
      BY <3>1, <2>4, <1>5
    <3>2. CASE n # m
      BY <3>2, <1>6, <1>5 DEF PartialSums
    <3>3. QED
      BY <3>1, <3>2
  <2>7. QED
    BY <2>5, <2>6 DEF PartialSums
<1>8. QED
  BY <1>7, <1>3 DEF S

(* The number with the bits h is a word.                                   *)
LEMMA FromBitsType ==
  ASSUME NEW h \in [0 .. (XLEN - 1) -> 0 .. 1]
  PROVE  FromBits(h) \in RtlWord
<1> DEFINE F(s) == [n \in 0 .. XLEN |->
                      IF n = 0 THEN 0 ELSE s[n - 1] + h[n - 1] * 2^(n - 1)]
           sum == CHOOSE s : s = F(s)
<1>1. PICK g : PartialSums(g, h, XLEN)
  BY SumsExist
<1>2. g = F(g)
  BY <1>1 DEF PartialSums
<1>3. sum = F(sum)
  BY <1>2
<1>4. FromBits(h) = sum[XLEN]
  BY DEF FromBits
<1> HIDE DEF sum
<1>5. sum[XLEN] = g[XLEN]
  <2> DEFINE S == {n \in 0 .. XLEN : sum[n] # g[n]}
  <2>1. SUFFICES ASSUME S # {} PROVE FALSE
    BY Widths
  <2>2. S \in SUBSET Nat
    OBVIOUS
  <2>3. PICK m \in S : \A y \in S : m <= y
    BY <2>1, <2>2, Least
  <2>4. m # 0
    BY <1>2, <1>3
  <2>5. m - 1 \in 0 .. XLEN /\ m - 1 \notin S
    BY <2>2, <2>3, <2>4, Widths
  <2>6. QED
    BY <1>2, <1>3, <2>4, <2>5
<1>6. g[XLEN] \in Nat /\ g[XLEN] < 2^XLEN
  BY <1>1, Widths DEF PartialSums
<1>7. QED
  BY <1>4, <1>5, <1>6, WordSizes DEF RtlWord

(* &, | and ^ of integers are words.                                       *)
LEMMA BitwiseType ==
  ASSUME NEW x \in Int, NEW y \in Int
  PROVE  PyAnd(x, y) \in RtlWord /\ PyOr(x, y) \in RtlWord /\ PyXor(x, y) \in RtlWord
<1> DEFINE bx(i) == Bit(u32(x), i)
           by(i) == Bit(u32(y), i)
<1>1. ASSUME NEW i \in 0 .. (XLEN - 1) PROVE bx(i) \in 0 .. 1 /\ by(i) \in 0 .. 1
  <2>1. 2^i \in Nat \ {0} /\ u32(x) \in Int /\ u32(y) \in Int
    BY PowersOfTwo, Masks, Widths
  <2>2. QED
    BY <2>1 DEF Bit
<1> HIDE DEF bx, by
<1>2. \A i \in 0 .. (XLEN - 1) : /\ bx(i) * by(i) \in 0 .. 1
                                 /\ bx(i) + by(i) - bx(i) * by(i) \in 0 .. 1
                                 /\ (bx(i) + by(i)) % 2 \in 0 .. 1
  <2>1. SUFFICES ASSUME NEW p \in 0 .. 1, NEW q \in 0 .. 1
                 PROVE  p * q \in 0 .. 1 /\ p + q - p * q \in 0 .. 1 /\ (p + q) % 2 \in 0 .. 1
    BY <1>1
  <2>2. QED
    BY (p = 0 \/ p = 1) /\ (q = 0 \/ q = 1)
<1>3. /\ [i \in 0 .. (XLEN - 1) |-> bx(i) * by(i)] \in [0 .. (XLEN - 1) -> 0 .. 1]
      /\ [i \in 0 .. (XLEN - 1) |-> bx(i) + by(i) - bx(i) * by(i)]
           \in [0 .. (XLEN - 1) -> 0 .. 1]
      /\ [i \in 0 .. (XLEN - 1) |-> (bx(i) + by(i)) % 2] \in [0 .. (XLEN - 1) -> 0 .. 1]
  BY <1>2
<1>4. /\ PyAnd(x, y) = FromBits([i \in 0 .. (XLEN - 1) |-> bx(i) * by(i)])
      /\ PyOr(x, y) = FromBits([i \in 0 .. (XLEN - 1) |-> bx(i) + by(i) - bx(i) * by(i)])
      /\ PyXor(x, y) = FromBits([i \in 0 .. (XLEN - 1) |-> (bx(i) + by(i)) % 2])
  BY DEF PyAnd, PyOr, PyXor, BitwiseOp, And1, Or1, Xor1, bx, by
<1>5. QED
  BY <1>3, <1>4, FromBitsType

(* The results of the emulator's ALU are integers.                         *)
LEMMA AluTypes ==
  ASSUME NEW f3, NEW f7, NEW x \in RtlWord, NEW y \in Int
  PROVE  _alu_imm(f3, f7, x, y) \in Int /\ _alu_reg(f3, f7, x, y) \in Int
<1> DEFINE p == 2^ShiftMask(y)
<1>1. p \in Nat \ {0}
  <2>1. ShiftMask(y) \in 0 .. XLEN
    BY Widths DEF ShiftMask
  <2>2. QED
    BY <2>1, PowersOfTwo
<1> HIDE DEF p
<1>2. x \in Int /\ u32(x) \in Int /\ s32(x) \in Int
  BY Masks
<1>3. /\ u32(x + y) \in Int /\ u32(x - y) \in Int
      /\ PyAnd(x, y) \in Int /\ PyOr(x, y) \in Int /\ PyXor(x, y) \in Int
  <2>1. x + y \in Int /\ x - y \in Int
    BY <1>2
  <2>2. PyAnd(x, y) \in RtlWord /\ PyOr(x, y) \in RtlWord /\ PyXor(x, y) \in RtlWord
    BY <1>2, BitwiseType
  <2>3. QED
    BY <2>1, <2>2, Masks
<1>4. x * p \in Int /\ u32(x) \div p \in Int /\ s32(x) \div p \in Int
  BY <1>1, <1>2
<1>5. u32(x * p) \in Int /\ u32(s32(x) \div p) \in Int
  BY <1>4, Masks
<1>6. /\ Flag(s32(x) < s32(y)) \in Int /\ Flag(u32(x) < u32(y)) \in Int
  BY DEF Flag
<1>7. _alu_imm(f3, f7, x, y) \in Int
  BY <1>3, <1>4, <1>5, <1>6 DEF _alu_imm, p
<1>8. _alu_reg(f3, f7, x, y) \in Int
  BY <1>3, <1>4, <1>5, <1>6 DEF _alu_reg, p
<1>9. QED
  BY <1>7, <1>8

(***************************************************************************)
(* The byte array.                                                         *)
(***************************************************************************)
Bytes == 0 .. (2^BYTE - 1)
Sizes == {1, 2, 4}

(* Memory is one interval of bytes.                                        *)
MemOK(m) == \E lo, hi \in Int : m \in [lo .. hi -> Bytes]

(* Two bytes of memory enclose only bytes of memory.                       *)
LEMMA InRangeBytes ==
  ASSUME MemOK(mem), NEW at \in Int, NEW sz \in Sizes, InRange(at, sz)
  PROVE  \A j \in 0 .. (sz - 1) : at + j \in DOMAIN mem /\ mem[at + j] \in Bytes
BY DEF MemOK, InRange, Sizes

(* 2^BYTE = B, and a word is four digits to the base B.                    *)
LEMMA ByteSizes ==
  /\ 2^(BYTE * 0) = 1 /\ 2^(BYTE * 1) = 2^BYTE
  /\ 2^(BYTE * 2) = 2^BYTE * 2^BYTE
  /\ 2^(BYTE * 3) = 2^BYTE * 2^(BYTE * 2)
  /\ 2^XLEN = 2^BYTE * 2^(BYTE * 3)
<1>1. ASSUME NEW m \in 0 .. XLEN, NEW n \in 0 .. XLEN, m + n \in 0 .. XLEN
      PROVE  2^(m + n) = 2^m * 2^n
  <2> DEFINE S == {i \in 0 .. n : 2^(m + i) # 2^m * 2^i}
  <2>1. SUFFICES ASSUME S # {} PROVE FALSE
    <3>1. n \in 0 .. n
      BY <1>1
    <3>2. QED
      BY <3>1
  <2>2. S \in SUBSET Nat
    OBVIOUS
  <2>3. PICK i \in S : \A y \in S : i <= y
    BY <2>1, <2>2, Least
  <2>4. i # 0
    <3>1. 2^m \in Int /\ m + 0 = m /\ 2^0 = 1
      BY PowersOfTwo
    <3>2. 2^(m + 0) = 2^m * 2^0
      BY <3>1
    <3>3. QED
      BY <2>3, <3>2
  <2>5. i - 1 \in 0 .. n /\ i - 1 \notin S
    BY <2>2, <2>3, <2>4
  <2>6. 2^(m + (i - 1)) = 2^m * 2^(i - 1)
    BY <2>5
  <2>7. 2^(m + i) = 2 * 2^(m + (i - 1)) /\ 2^i = 2 * 2^(i - 1)
    <3>1. m + (i - 1) \in 0 .. (XLEN - 1) /\ i - 1 \in 0 .. (XLEN - 1)
      BY <2>5, <1>1, Widths
    <3>2. m + i = (m + (i - 1)) + 1 /\ i = (i - 1) + 1
      BY <2>5
    <3>3. QED
      BY <3>1, <3>2, PowersOfTwo
  <2>8. 2^m \in Int /\ 2^(i - 1) \in Int
    BY <2>5, PowersOfTwo
  <2>9. 2^(m + i) = 2^m * 2^i
    BY <2>6, <2>7, <2>8
  <2>10. QED
    BY <2>3, <2>9
<1>2. /\ BYTE * 0 = 0 /\ BYTE * 1 = BYTE /\ BYTE * 2 = BYTE + BYTE
      /\ BYTE * 3 = BYTE + BYTE * 2 /\ XLEN = BYTE + BYTE * 3
      /\ BYTE \in 0 .. XLEN /\ BYTE * 2 \in 0 .. XLEN /\ BYTE * 3 \in 0 .. XLEN
      /\ XLEN \in 0 .. XLEN
  BY ByteAssumption DEF XLEN
<1>3. QED
  BY <1>1, <1>2, PowersOfTwo

(* Bytes make up a number of their size.                                   *)
LEMMA LoadBytesType ==
  ASSUME NEW m, NEW at \in Int, NEW sz \in Sizes,
         \A j \in 0 .. (sz - 1) : m[at + j] \in Bytes
  PROVE  LoadBytes(m, at, sz) \in RtlWord
<1> DEFINE B == 2^BYTE
<1>1. B \in Nat \ {0} /\ 2^(BYTE * 0) = 1 /\ 2^(BYTE * 1) = B /\ 2^(BYTE * 2) = B * B
      /\ 2^(BYTE * 3) = B * (B * B) /\ 2^XLEN = B * (B * (B * B))
  BY ByteSizes, WordSizes
<1> HIDE DEF B
<1>2. \A j \in 0 .. (sz - 1) : m[at + j] \in 0 .. (B - 1)
  BY DEF Bytes, B
<1>3. CASE sz = 1
  <2>1. m[at + 0] \in 0 .. (B - 1)
    BY <1>2, <1>3
  <2>2. LoadBytes(m, at, sz) = m[at + 0] * 1
    BY <1>1, <1>3 DEF LoadBytes
  <2>3. B <= B * (B * (B * B))
    BY <1>1
  <2>4. QED
    BY <1>1, <2>1, <2>2, <2>3 DEF RtlWord
<1>4. CASE sz = 2
  <2>1. m[at + 0] \in 0 .. (B - 1) /\ m[at + 1] \in 0 .. (B - 1)
    BY <1>2, <1>4
  <2>2. LoadBytes(m, at, sz) = m[at + 0] * 1 + m[at + 1] * B
    BY <1>1, <1>4 DEF LoadBytes
  <2>3. B * B <= B * (B * (B * B))
    BY <1>1
  <2>4. m[at + 1] * B <= (B - 1) * B /\ m[at + 1] * B >= 0 /\ m[at + 1] * B \in Int
    BY <1>1, <2>1
  <2>5. QED
    BY <1>1, <2>1, <2>2, <2>3, <2>4 DEF RtlWord
<1>5. CASE sz = 4
  <2>1. /\ m[at + 0] \in 0 .. (B - 1) /\ m[at + 1] \in 0 .. (B - 1)
        /\ m[at + 2] \in 0 .. (B - 1) /\ m[at + 3] \in 0 .. (B - 1)
    BY <1>2, <1>5
  <2>2. LoadBytes(m, at, sz)
          = m[at + 0] * 1 + m[at + 1] * B + m[at + 2] * (B * B) + m[at + 3] * (B * (B * B))
    BY <1>1, <1>5 DEF LoadBytes
  <2>3. m[at + 1] * B <= (B - 1) * B /\ m[at + 1] * B >= 0 /\ m[at + 1] * B \in Int
    BY <1>1, <2>1
  <2>4. /\ m[at + 2] * (B * B) <= (B - 1) * (B * B)
        /\ m[at + 2] * (B * B) >= 0 /\ m[at + 2] * (B * B) \in Int
    BY <1>1, <2>1
  <2>5. /\ m[at + 3] * (B * (B * B)) <= (B - 1) * (B * (B * B))
        /\ m[at + 3] * (B * (B * B)) >= 0 /\ m[at + 3] * (B * (B * B)) \in Int
    <3>1. B * (B * B) \in Nat
      BY <1>1
    <3>2. QED
      BY <1>1, <2>1, <3>1
  <2>6. QED
    BY <1>1, <2>1, <2>2, <2>3, <2>4, <2>5 DEF RtlWord
<1>6. QED
  BY <1>3, <1>4, <1>5 DEF Sizes

(* A load yields an integer.                                               *)
LEMMA LoadValueType ==
  ASSUME MemOK(mem), NEW at \in Int, NEW sz \in Sizes, InRange(at, sz), NEW signed
  PROVE  LoadValue(mem, at, sz, signed) \in Int
<1>1. LoadBytes(mem, at, sz) \in RtlWord
  BY InRangeBytes, LoadBytesType
<1>2. LoadBytes(mem, at, sz) \in Int
  BY <1>1, Masks
<1>3. /\ 2^(BYTE * sz) \in Nat \ {0} /\ 2^(BYTE * sz - 1) \in Int
  <2>1. BYTE * sz \in 0 .. XLEN /\ BYTE * sz - 1 \in 0 .. XLEN
    BY ByteAssumption DEF XLEN, Sizes
  <2>2. QED
    BY <2>1, PowersOfTwo
<1>4. sext(LoadBytes(mem, at, sz), BYTE * sz) \in Int
  BY <1>2, <1>3 DEF sext
<1>5. QED
  BY <1>2, <1>4, Masks DEF LoadValue

(* A store leaves one interval of bytes.                                   *)
LEMMA StoreBytesType ==
  ASSUME NEW m, MemOK(m), NEW at \in Int, NEW val \in Int, NEW sz \in Sizes
  PROVE  MemOK(StoreBytes(m, at, val, sz))
<1>1. PICK lo \in Int, hi \in Int : m \in [lo .. hi -> Bytes]
  BY DEF MemOK
<1>2. ASSUME NEW x \in lo .. hi, x \in at .. (at + sz - 1)
      PROVE  (val \div 2^(BYTE * (x - at))) % 2^BYTE \in Bytes
  <2>1. x - at \in 0 .. 4
    BY <1>2 DEF Sizes
  <2>2. 2^(BYTE * (x - at)) \in Nat \ {0} /\ 2^BYTE \in Nat \ {0}
    BY <2>1, WordSizes
  <2>3. val \div 2^(BYTE * (x - at)) \in Int
    BY <2>2
  <2>4. QED
    BY <2>2, <2>3, ModBound DEF Bytes
<1>3. StoreBytes(m, at, val, sz) \in [lo .. hi -> Bytes]
  BY <1>1, <1>2 DEF StoreBytes
<1>4. QED
  BY <1>3 DEF MemOK

(***************************************************************************)
(* One step.  Besides its type an emulator keeps its memory in one piece   *)
(* and publishes nothing before it halts.                                  *)
(***************************************************************************)
EmuInv ==
  /\ EmuTypeOK
  /\ MemOK(mem)
  /\ ~halted => tohost_value = NoWrite

(* What step() reads once the fetch succeeded.                             *)
LEMMA FieldTypes ==
  ASSUME EmuInv, FetchTrap = "none"
  PROVE  /\ inst.f3 \in Funct3 /\ inst.f12 \in Funct12 /\ inst.rd \in Reg
         /\ inst.rs1 \in Reg /\ inst.rs2 \in Reg
         /\ rs1_val \in RtlWord /\ rs2_val \in RtlWord /\ imm \in Int
         /\ data_addr \in RtlWord /\ data_size \in Sizes
         /\ link \in RtlWord /\ target \in RtlWord
<1>1. pc \in RtlWord /\ pc \in Int /\ regs \in [Reg -> RtlWord]
  BY Masks DEF EmuInv, EmuTypeOK
<1>2. LoadBytes(mem, pc, 4) \in RtlWord
  <2>1. InRange(pc, 4) /\ 4 \in Sizes
    BY DEF FetchTrap, Sizes
  <2>2. QED
    BY <1>1, <2>1, InRangeBytes, LoadBytesType DEF EmuInv
<1>3. inst \in [op: Opcode, f3: Funct3, f7: Funct7, f12: Funct12,
                rd: Reg, rs1: Reg, rs2: Reg, imm: RtlWord]
  BY <1>2, FieldsAssumption DEF inst
<1>4. /\ inst.f3 \in Funct3 /\ inst.f12 \in Funct12 /\ inst.rd \in Reg
      /\ inst.rs1 \in Reg /\ inst.rs2 \in Reg /\ inst.imm \in RtlWord
  BY <1>3
<1>5. 0 \in RtlWord
  BY WordSizes DEF RtlWord
<1>6. rs1_val \in RtlWord /\ rs2_val \in RtlWord
  BY <1>1, <1>4, <1>5 DEF rs1_val, rs2_val, r
<1>7. imm \in Int
  BY <1>4, Masks DEF imm
<1>8. rs1_val \in Int /\ rs1_val + imm \in Int /\ pc + imm \in Int /\ pc + 4 \in Int
      /\ (rs1_val + imm) - ((rs1_val + imm) % 2) \in Int
  BY <1>1, <1>6, <1>7, Masks
<1>9. data_addr \in RtlWord /\ link \in RtlWord /\ target \in RtlWord
  BY <1>8, Masks DEF data_addr, link, target
<1>10. data_size \in Sizes
  BY DEF data_size, Sizes
<1>11. QED
  BY <1>4, <1>6, <1>7, <1>9, <1>10

(* A register write keeps the register file in its type.                   *)
LEMMA WrType ==
  ASSUME regs \in [Reg -> RtlWord], NEW idx \in Reg, NEW val \in Int
  PROVE  wr(idx, val) \in [Reg -> RtlWord]
BY Masks DEF wr

(* The ends of a step: its own clauses of EmuInv.                          *)
LEMMA RetireType ==
  ASSUME EmuInv, Running, NEW np \in RtlWord, NEW mw, Retire(np, mw)
  PROVE  /\ pc' \in RtlWord /\ steps' \in 0 .. MAX_STEPS
         /\ trap' = trap /\ trap_on_ecall' = trap_on_ecall
BY StepsAssumption DEF Retire, Running, EmuInv, EmuTypeOK

(* An instruction that computes an integer keeps the invariant.            *)
LEMMA ComputesKeeps ==
  ASSUME EmuInv, NEW op, NEW val, NEW np, Computes(op, val, np),
         val \in Int, np \in RtlWord
  PROVE  EmuInv'
<1>1. FetchTrap = "none" /\ Running /\ Retire(np, NoWrite) /\ regs' = wr(inst.rd, val)
      /\ UNCHANGED <<mem, csrs, halted, halt_reason, tohost_value>>
  BY DEF Computes, Executes, KeepsRunning
<1>2. regs' \in [Reg -> RtlWord]
  BY <1>1, FieldTypes, WrType DEF EmuInv, EmuTypeOK
<1>3. QED
  BY <1>1, <1>2, RetireType DEF EmuInv, EmuTypeOK, MemOK

(* So does one that leaves the registers alone and goes to a word.         *)
LEMMA QuietKeeps ==
  ASSUME EmuInv, NEW op, Executes(op), NEW np, NEW mw, Retire(np, mw), np \in RtlWord,
         UNCHANGED regs, csrs' \in [Funct12 -> RtlWord], MemOK(mem)',
         \A x \in DOMAIN mem' : mem'[x] \in 0 .. (2^BYTE - 1),
         KeepsRunning
  PROVE  EmuInv'
BY RetireType DEF EmuInv, EmuTypeOK, Executes, KeepsRunning

(* Memory in one piece holds bytes.                                        *)
LEMMA MemOKBytes ==
  ASSUME NEW m, MemOK(m)
  PROVE  \A x \in DOMAIN m : m[x] \in 0 .. (2^BYTE - 1)
BY DEF MemOK, Bytes

(* The Trap of a step is one of the five kinds.                            *)
LEMMA RaisedType ==
  Raised \in {"none", "illegal", "mem-range", "misaligned-fetch",
              "misaligned-load", "misaligned-store"}
BY DEF Raised, FetchTrap, TargetTrap, LoadTrap, StoreTrap, IllegalIf

(* Every step of the emulator keeps its invariant.                         *)
LEMMA StepKeeps ==
  ASSUME EmuInv, Step
  PROVE  EmuInv'
<1> USE FieldTypes
<1>1. CASE Lui \/ Auipc \/ Jal \/ Jalr \/ Load \/ AluI \/ AluR
  <2>1. PICK op, val, np : Computes(op, val, np) /\ val \in Int /\ np \in RtlWord
    <3>1. FetchTrap = "none" /\ Raised = "none"
      BY <1>1 DEF Lui, Auipc, Jal, Jalr, Load, AluI, AluR, Computes, Executes
    <3>2. imm \in Int /\ pc \in Int /\ pc + imm \in Int /\ link \in Int /\ rs2_val \in Int
      BY <3>1, Masks DEF EmuInv, EmuTypeOK
    <3>3. CASE Load
      <4>1. InRange(data_addr, data_size)
        BY <3>1, <3>3 DEF Load, Computes, Executes, Raised, LoadTrap
      <4>2. data_addr \in Int
        BY <3>1, Masks
      <4>3. LoadValue(mem, data_addr, data_size, inst.f3 \in {0, 1}) \in Int
        BY <3>1, <4>1, <4>2, LoadValueType DEF EmuInv
      <4>4. QED
        BY <3>1, <3>3, <4>3 DEF Load
    <3>4. CASE AluI \/ AluR
      BY <3>1, <3>2, <3>4, AluTypes DEF AluI, AluR
    <3>5. CASE Lui \/ Auipc \/ Jal \/ Jalr
      BY <3>1, <3>2, <3>5 DEF Lui, Auipc, Jal, Jalr
    <3>6. QED
      BY <1>1, <3>3, <3>4, <3>5
  <2>2. QED
    BY <2>1, ComputesKeeps
<1>2. CASE Branch \/ Fence \/ Mret \/ Wfi
  <2>1. FetchTrap = "none" /\ UNCHANGED <<regs, mem, csrs>> /\ KeepsRunning
    BY <1>2 DEF Branch, Fence, Mret, Wfi, Priv, Executes
  <2>2. PICK op, np : Executes(op) /\ Retire(np, NoWrite) /\ np \in RtlWord
    <3>1. csrs["F12_MEPC"] \in Int
      BY Masks DEF EmuInv, EmuTypeOK, Funct12
    <3>2. u32(csrs["F12_MEPC"]) \in RtlWord
      BY <3>1, Masks
    <3>3. QED
      BY <1>2, <2>1, <3>2 DEF Branch, Fence, Mret, Wfi, Priv
  <2>3. csrs' \in [Funct12 -> RtlWord] /\ MemOK(mem)'
    BY <2>1 DEF EmuInv, EmuTypeOK, MemOK
  <2>4. QED
    BY <2>1, <2>2, <2>3, QuietKeeps, MemOKBytes
<1>3. CASE Store
  <2>1. FetchTrap = "none" /\ Executes("OP_STORE") /\ UNCHANGED <<regs, csrs>>
        /\ KeepsRunning /\ mem' = StoreBytes(mem, data_addr, rs2_val, data_size)
        /\ Retire(link, <<data_addr, rs2_val, data_size>>)
    BY <1>3 DEF Store, Executes
  <2>2. data_addr \in Int /\ rs2_val \in Int
    BY <2>1, Masks
  <2>3. MemOK(StoreBytes(mem, data_addr, rs2_val, data_size))
    BY <2>1, <2>2, StoreBytesType DEF EmuInv
  <2>4. MemOK(mem)' /\ \A x \in DOMAIN mem' : mem'[x] \in 0 .. (2^BYTE - 1)
    BY <2>1, <2>3, MemOKBytes DEF MemOK
  <2>5. QED
    BY <2>1, <2>4, QuietKeeps DEF EmuInv, EmuTypeOK
<1>4. CASE StoreTohost
  <2>1. FetchTrap = "none" /\ Running /\ UNCHANGED <<regs, mem, csrs>> /\ halted'
        /\ halt_reason' \in {"tohost-pass", "tohost-fail"}
        /\ Retire(link, <<data_addr, rs2_val, data_size>>)
    BY <1>4 DEF StoreTohost, Executes
  <2>2. QED
    BY <2>1, RetireType DEF EmuInv, EmuTypeOK, MemOK
<1>5. CASE Ecall \/ Ebreak
  <2>1. CASE EnvHalt("F12_ECALL", "ecall") \/ EnvHalt("F12_EBREAK", "ebreak")
    <3>1. FetchTrap = "none" /\ Running /\ UNCHANGED <<regs, mem, csrs>> /\ halted'
          /\ halt_reason' \in {"ecall", "ebreak"} /\ Retire(link, NoWrite)
      BY <2>1 DEF EnvHalt, Priv, Executes
    <3>2. QED
      BY <3>1, RetireType DEF EmuInv, EmuTypeOK, MemOK
  <2>2. CASE EnvTrap("F12_ECALL", CAUSE_ECALL_M) \/ EnvTrap("F12_EBREAK", CAUSE_BREAKPOINT)
    <3>1. PICK c \in {3, 11} :
            csrs' = [csrs EXCEPT !["F12_MEPC"] = pc, !["F12_MCAUSE"] = c]
      BY <2>2 DEF EnvTrap, CAUSE_ECALL_M, CAUSE_BREAKPOINT
    <3>2. c \in RtlWord
      BY WordSizes DEF RtlWord
    <3>3. csrs' \in [Funct12 -> RtlWord]
      BY <3>1, <3>2 DEF EmuInv, EmuTypeOK
    <3>4. csrs["F12_MTVEC"] \in RtlWord
      BY DEF EmuInv, EmuTypeOK, Funct12
    <3>5. csrs["F12_MTVEC"] - (csrs["F12_MTVEC"] % 4) \in RtlWord
      BY <3>4, WordSizes DEF RtlWord
    <3>6. /\ Executes("OP_SYSTEM") /\ UNCHANGED <<regs, mem>> /\ KeepsRunning
          /\ Retire(csrs["F12_MTVEC"] - (csrs["F12_MTVEC"] % 4), NoWrite)
      BY <2>2 DEF EnvTrap, Priv
    <3>7. MemOK(mem)' /\ \A x \in DOMAIN mem' : mem'[x] \in 0 .. (2^BYTE - 1)
      BY <3>6 DEF EmuInv, EmuTypeOK, MemOK
    <3>8. QED
      BY <3>3, <3>5, <3>6, <3>7, QuietKeeps
  <2>3. QED
    BY <1>5, <2>1, <2>2 DEF Ecall, Ebreak
<1>6. CASE Csr
  <2> DEFINE src == IF inst.f3 >= 4 THEN inst.rs1 ELSE rs1_val
             old == csrs[inst.f12]
  <2>1. FetchTrap = "none" /\ Running
    BY <1>6 DEF Csr, Executes
  <2>2. src \in RtlWord
    <3>1. inst.rs1 \in RtlWord
      BY <2>1, FieldsAssumption, NregsAssumption, WordSizes DEF Reg, RtlWord
    <3>2. QED
      BY <2>1, <3>1
  <2>3. old \in RtlWord /\ csrs \in [Funct12 -> RtlWord] /\ regs \in [Reg -> RtlWord]
    BY <2>1 DEF EmuInv, EmuTypeOK
  <2> HIDE DEF src, old
  <2>4. src \in Int /\ old \in Int /\ -1 - src \in Int
    BY <2>2, <2>3, Masks
  <2>5. PyOr(old, src) \in RtlWord /\ PyAnd(old, -1 - src) \in RtlWord
    BY <2>4, BitwiseType
  <2>6. csrs' \in [Funct12 -> RtlWord]
    <3>1. \/ csrs' = csrs
          \/ \E v \in RtlWord : csrs' = [csrs EXCEPT ![inst.f12] = v]
      BY <1>6, <2>2, <2>5 DEF Csr, src, old
    <3>2. QED
      BY <2>3, <3>1
  <2>7. regs' \in [Reg -> RtlWord]
    <3>1. regs' = wr(inst.rd, old)
      BY <1>6 DEF Csr, old
    <3>2. QED
      BY <2>1, <2>3, <2>4, <3>1, WrType
  <2>8. Retire(link, NoWrite) /\ UNCHANGED <<mem, halted, halt_reason, tohost_value>>
    BY <1>6 DEF Csr, KeepsRunning
  <2>9. QED
    BY <2>1, <2>6, <2>7, <2>8, RetireType DEF EmuInv, EmuTypeOK, MemOK
<1>7. CASE RaiseTrap
  BY <1>7, RaisedType DEF RaiseTrap, EmuInv, EmuTypeOK, MemOK
<1>8. QED
  BY <1>1, <1>2, <1>3, <1>4, <1>5, <1>6, <1>7 DEF Step

(***************************************************************************)
(* What the trace tells.                                                   *)
(***************************************************************************)

(* The rd_write of a retired instruction replays what it did to a          *)
(* register, also when it wrote nothing or x0.                             *)
LEMMA RetireTells ==
  ASSUME EmuInv, FetchTrap = "none", NEW np, NEW mw, Retire(np, mw),
         \/ UNCHANGED regs
         \/ inst.op \in WritesRd /\ \E val : regs' = wr(inst.rd, val)
  PROVE  regs' = Replayed(regs, trace'.rd_write) /\ trace'.mem_write = mw
<1>1. inst.rd \in Reg /\ regs \in [Reg -> RtlWord]
  BY FieldTypes DEF EmuInv, EmuTypeOK
<1>2. trace'.mem_write = mw
  BY DEF Retire
<1>3. CASE inst.rd # 0 /\ inst.op \in WritesRd
  <2>1. trace'.rd_write = <<inst.rd, regs'[inst.rd]>>
    BY <1>3 DEF Retire
  <2>2. regs' = [regs EXCEPT ![inst.rd] = regs'[inst.rd]]
    BY <1>1, <1>3 DEF wr
  <2>3. <<inst.rd, regs'[inst.rd]>> # <<>>
    OBVIOUS
  <2>4. QED
    BY <1>2, <2>1, <2>2, <2>3 DEF Replayed, NoWrite
<1>4. CASE ~(inst.rd # 0 /\ inst.op \in WritesRd)
  <2>1. trace'.rd_write = NoWrite
    BY <1>4 DEF Retire
  <2>2. regs' = regs
    BY <1>4 DEF wr
  <2>3. QED
    BY <1>2, <2>1, <2>2 DEF Replayed
<1>5. QED
  BY <1>3, <1>4

(* Every step that counts is told by its trace.                            *)
LEMMA StepTells ==
  ASSUME EmuInv, Step, steps' = steps + 1
  PROVE  /\ regs' = Replayed(regs, trace'.rd_write)
         /\ mem' = IF trace'.mem_write = NoWrite \/ tohost_value' # tohost_value
                   THEN mem
                   ELSE StoreBytes(mem, trace'.mem_write[1], trace'.mem_write[2],
                                   trace'.mem_write[3])
<1>1. CASE Lui \/ Auipc \/ Jal \/ Jalr \/ Load \/ AluI \/ AluR
  <2>1. PICK val, np : /\ FetchTrap = "none" /\ Retire(np, NoWrite) /\ UNCHANGED mem
                       /\ inst.op \in WritesRd /\ regs' = wr(inst.rd, val)
    BY <1>1 DEF Lui, Auipc, Jal, Jalr, Load, AluI, AluR, Computes, Executes, WritesRd
  <2>2. QED
    BY <2>1, RetireTells
<1>2. CASE Csr
  <2>1. /\ FetchTrap = "none" /\ Retire(link, NoWrite) /\ UNCHANGED mem
        /\ inst.op \in WritesRd /\ regs' = wr(inst.rd, csrs[inst.f12])
    BY <1>2 DEF Csr, Executes, WritesRd
  <2>2. QED
    BY <2>1, RetireTells
<1>3. CASE Branch \/ Fence \/ Mret \/ Wfi \/ Ecall \/ Ebreak
  <2>1. PICK np : FetchTrap = "none" /\ Retire(np, NoWrite) /\ UNCHANGED <<regs, mem>>
    BY <1>3 DEF Branch, Fence, Mret, Wfi, Ecall, Ebreak, EnvHalt, EnvTrap, Priv, Executes
  <2>2. QED
    BY <2>1, RetireTells
<1>4. CASE Store
  <2>1. /\ FetchTrap = "none" /\ UNCHANGED <<regs, tohost_value>>
        /\ Retire(link, <<data_addr, rs2_val, data_size>>)
        /\ mem' = StoreBytes(mem, data_addr, rs2_val, data_size)
    BY <1>4 DEF Store, Executes, KeepsRunning
  <2>2. /\ regs' = Replayed(regs, trace'.rd_write)
        /\ trace'.mem_write = <<data_addr, rs2_val, data_size>>
    BY <2>1, RetireTells
  <2>3. QED
    BY <2>1, <2>2 DEF NoWrite
<1>5. CASE StoreTohost
  <2>1. /\ FetchTrap = "none" /\ ~halted /\ UNCHANGED <<regs, mem>>
        /\ tohost_value' = <<rs2_val>>
        /\ Retire(link, <<data_addr, rs2_val, data_size>>)
    BY <1>5 DEF StoreTohost, Executes, Running
  <2>2. regs' = Replayed(regs, trace'.rd_write)
    BY <2>1, RetireTells
  <2>3. tohost_value = <<>>
    BY <2>1 DEF EmuInv, NoWrite
  <2>4. QED
    BY <2>1, <2>2, <2>3
<1>6. CASE RaiseTrap
  BY <1>6, StepsAssumption DEF RaiseTrap, EmuInv, EmuTypeOK
<1>7. QED
  BY <1>1, <1>2, <1>3, <1>4, <1>5, <1>6 DEF Step

(* An instance begins in the invariant.                                    *)
LEMMA FreshKeeps ==
  ASSUME NEW m, NEW start, NEW tohost, NEW traps, FreshCpu(m, start, tohost, traps),
         MemOK(m), start \in RtlWord, traps \in BOOLEAN
  PROVE  EmuInv'
<1>1. 0 \in RtlWord
  BY WordSizes DEF RtlWord
<1>2. \A x \in DOMAIN m : m[x] \in 0 .. (2^BYTE - 1)
  BY MemOKBytes
<1>3. MemOK(mem)' /\ (~halted => tohost_value = NoWrite)'
  BY DEF FreshCpu, MemOK
<1>4. regs' \in [Reg -> RtlWord] /\ csrs' \in [Funct12 -> RtlWord]
  BY <1>1 DEF FreshCpu
<1>5. steps' \in 0 .. MAX_STEPS
  BY StepsAssumption DEF FreshCpu
<1>6. EmuTypeOK'
  BY <1>2, <1>4, <1>5 DEF FreshCpu, EmuTypeOK
<1>7. QED
  BY <1>3, <1>6 DEF EmuInv

LEMMA PowerOnOK ==
  ASSUME NEW m, NEW start, NEW tohost, NEW traps, PowerOn(m, start, tohost, traps),
         MemOK(m), start \in RtlWord, traps \in BOOLEAN
  PROVE  EmuInv
<1>1. 0 \in RtlWord
  BY WordSizes DEF RtlWord
<1>2. \A x \in DOMAIN m : m[x] \in 0 .. (2^BYTE - 1)
  BY MemOKBytes
<1>3. regs \in [Reg -> RtlWord] /\ csrs \in [Funct12 -> RtlWord]
  BY <1>1 DEF PowerOn
<1>4. steps \in 0 .. MAX_STEPS
  BY StepsAssumption DEF PowerOn
<1>5. EmuTypeOK
  BY <1>2, <1>3, <1>4 DEF PowerOn, EmuTypeOK
<1>6. QED
  BY <1>5 DEF EmuInv, PowerOn

(***************************************************************************)
(* The arithmetic of the emulator and of the RTL, on every two words.      *)
(***************************************************************************)
(* The width of the word is a power of two, so that a shift amount is a    *)
(* slice of it: b[4:0] in rtl/alu.sv, & 0x1F in the emulator.              *)
WidthIsPower == 2^XLEN % XLEN = 0

(* Quotient and remainder are what they are made of.                       *)
LEMMA DivMod ==
  ASSUME NEW n \in Nat \ {0}, NEW q \in Int, NEW m \in 0 .. (n - 1), NEW t \in Int,
         t = n * q + m
  PROVE  t \div n = q /\ t % n = m
<1> DEFINE d == t \div n
           e == t % n
<1>1. d \in Int /\ e \in 0 .. (n - 1) /\ t = n * d + e
  BY SMT
<1> HIDE DEF d, e
<1>2. n * q + m = n * d + e
  BY <1>1
<1> DEFINE g == q - d
<1>3. g \in Int /\ n * g = e - m /\ q = d + g
  BY <1>1, <1>2, SMT
<1> HIDE DEF g
<1>4. CASE g >= 1
  <2>1. n * g >= n
    BY <1>3, <1>4, SMT
  <2>2. QED
    BY <1>1, <1>3, <2>1
<1>5. CASE g <= -1
  <2>1. n * g <= -n
    BY <1>3, <1>5, SMT
  <2>2. QED
    BY <1>1, <1>3, <2>1
<1>6. CASE g = 0
  <2>1. q = d /\ m = e
    BY <1>1, <1>2, <1>3, <1>6
  <2>2. QED
    BY <2>1 DEF d, e
<1>7. QED
  BY <1>3, <1>4, <1>5, <1>6

(* A word read as a signed number, and masked again.                       *)
LEMMA SignedWord ==
  ASSUME NEW x \in RtlWord
  PROVE  /\ x \in Int /\ 0 <= x /\ x < 2^XLEN /\ u32(x) = x
         /\ s32(x) = Signed(x) /\ s32(x) \in Int
         /\ u32(s32(x)) = x /\ s32(s32(x)) = Signed(x)
<1>1. /\ x \in Int /\ 0 <= x /\ x < 2^XLEN /\ u32(x) = x /\ s32(x) = Signed(x)
      /\ s32(x) \in Int
  BY Masks, WordSizes DEF RtlWord, s32, Signed
<1>2. u32(s32(x)) = x
  BY <1>1, WordSizes, SMT DEF u32, Signed
<1>3. s32(s32(x)) = s32(x)
  BY <1>1, <1>2 DEF s32
<1>4. QED
  BY <1>1, <1>2, <1>3

LEMMA SumOfSigned ==
  ASSUME NEW x \in RtlWord, NEW y \in RtlWord
  PROVE  u32(x + s32(y)) = Wrap(x + y)
<1> DEFINE M == 2^XLEN
<1>1. M \in Nat \ {0} /\ x \in Int /\ y \in Int /\ s32(y) \in {y, y - M}
  BY WordSizes, SignedWord DEF Signed
<1> HIDE DEF M
<1>2. (x + (y - M)) % M = (x + y) % M
  <2> DEFINE t == x + y
             q == t \div M
             e == t % M
             p == q - 1
  <2>1. t \in Int /\ q \in Int /\ e \in 0 .. (M - 1) /\ t = M * q + e /\ p \in Int
    <3>1. t \in Int
      BY <1>1
    <3> HIDE DEF t
    <3>2. QED
      BY <1>1, <3>1, SMT
  <2>2. t - M = M * p + e
    <3> HIDE DEF t, q, e
    <3>1. QED
      BY <1>1, <2>1, SMT DEF p
  <2>3. t - M \in Int
    BY <1>1, <2>1
  <2> HIDE DEF p
  <2>4. (t - M) % M = e
    <3> HIDE DEF t, q, e
    <3>1. QED
      BY <1>1, <2>1, <2>2, <2>3, DivMod
  <2>5. x + (y - M) = t - M
    BY <1>1
  <2>6. QED
    BY <2>4, <2>5
<1>3. u32(x + s32(y)) = (x + s32(y)) % M /\ Wrap(x + y) = (x + y) % M
  BY DEF u32, Wrap, M
<1>4. QED
  BY <1>1, <1>2, <1>3

LEMMA ShiftOfSigned ==
  ASSUME WidthIsPower, NEW y \in RtlWord
  PROVE  ShiftMask(s32(y)) = Shamt(y)
<1> DEFINE M == 2^XLEN
<1>1. /\ M \in Nat \ {0} /\ y \in Int /\ s32(y) \in {y, y - M} /\ XLEN \in Nat \ {0}
      /\ M % XLEN = 0
  BY WordSizes, SignedWord, Widths DEF Signed, WidthIsPower
<1> HIDE DEF M
<1>2. (y - M) % XLEN = y % XLEN
  <2>1. PICK q \in Int : M = XLEN * q
    BY <1>1, SMT
  <2>2. PICK p \in Int, m \in 0 .. (XLEN - 1) : y = XLEN * p + m /\ y % XLEN = m
    <3>1. y \div XLEN \in Int /\ y % XLEN \in 0 .. (XLEN - 1) /\ y = XLEN * (y \div XLEN) + (y % XLEN)
      BY <1>1, SMT
    <3>2. QED
      BY <3>1
  <2>3. y - M = XLEN * (p - q) + m
    BY <1>1, <2>1, <2>2, SMT
  <2>4. y - M \in Int /\ p - q \in Int
    BY <1>1
  <2>5. (y - M) % XLEN = m
    <3> DEFINE n == p - q
               t == y - M
    <3>1. n \in Int /\ t \in Int /\ t = XLEN * n + m
      BY <2>3, <2>4
    <3> HIDE DEF n, t
    <3>2. t % XLEN = m
      BY <1>1, <3>1, DivMod
    <3>3. QED
      BY <3>2 DEF t
  <2>6. QED
    BY <2>2, <2>5
<1>3. QED
  BY <1>1, <1>2 DEF ShiftMask, Shamt

LEMMA RegAgrees ==
  ASSUME NEW x \in RtlWord, NEW y \in RtlWord, NEW f3 \in Funct3,
         NEW f7 \in {"F7_DEFAULT", "F7_ALT"}
  PROVE  _alu_reg(f3, f7, x, y) = RtlAlu(ArithOp([op |-> "OP_REG", f3 |-> f3, f7 |-> f7]), x, y)
<1>1. /\ u32(x) = x /\ u32(y) = y /\ s32(x) = Signed(x) /\ s32(y) = Signed(y)
      /\ x \in Int /\ y \in Int
  BY SignedWord
<1>2. /\ PyAnd(x, y) = BitwiseOp(And1, x, y) /\ PyOr(x, y) = BitwiseOp(Or1, x, y)
      /\ PyXor(x, y) = BitwiseOp(Xor1, x, y)
  BY <1>1 DEF PyAnd, PyOr, PyXor
<1>3. ShiftMask(y) = Shamt(y)
  BY DEF ShiftMask, Shamt
<1>4. QED
  BY <1>1, <1>2, <1>3 DEF _alu_reg, RtlAlu, ArithOp, Wrap, u32, Funct3, F3_ADD_SUB, F3_SLL,
     F3_SLT, F3_SLTU, F3_XOR, F3_SR, F3_OR

LEMMA ImmAgrees ==
  ASSUME WidthIsPower, NEW x \in RtlWord, NEW y \in RtlWord, NEW f3 \in Funct3,
         NEW f7 \in {"F7_DEFAULT", "F7_ALT"}
  PROVE  _alu_imm(f3, f7, x, s32(y))
         = RtlAlu(ArithOp([op |-> "OP_IMM", f3 |-> f3, f7 |-> f7]), x, y)
<1> DEFINE i == s32(y)
<1>1. /\ u32(x) = x /\ u32(i) = y /\ s32(x) = Signed(x) /\ s32(i) = Signed(y)
      /\ u32(x + i) = Wrap(x + y) /\ ShiftMask(i) = Shamt(y)
  BY SignedWord, SumOfSigned, ShiftOfSigned
<1> HIDE DEF i
<1>2. /\ PyAnd(x, i) = BitwiseOp(And1, x, y) /\ PyOr(x, i) = BitwiseOp(Or1, x, y)
      /\ PyXor(x, i) = BitwiseOp(Xor1, x, y)
  BY <1>1 DEF PyAnd, PyOr, PyXor
<1>3. \A n : u32(n) = Wrap(n)
  BY DEF u32, Wrap
<1>4. _alu_imm(f3, f7, x, i)
      = RtlAlu(ArithOp([op |-> "OP_IMM", f3 |-> f3, f7 |-> f7]), x, y)
  BY <1>1, <1>2, <1>3 DEF _alu_imm, RtlAlu, ArithOp, Funct3, F3_ADD_SUB, F3_SLL,
     F3_SLT, F3_SLTU, F3_XOR, F3_SR, F3_OR
<1>5. QED
  BY <1>4 DEF i

LEMMA CmpAgrees ==
  ASSUME NEW x \in RtlWord, NEW y \in RtlWord, NEW f3 \in F3Branch
  PROVE  BranchTaken(f3, x, y) = RtlCmp(BranchKind([op |-> "OP_BRANCH", f3 |-> f3]), x, y)
BY SignedWord DEF BranchTaken, RtlCmp, BranchKind, F3Branch

(***************************************************************************)
(* A word as four digits to the base 2^BYTE, the least significant first.  *)
(***************************************************************************)
Number(d) == d[0] + 2^BYTE * (d[1] + 2^BYTE * (d[2] + 2^BYTE * d[3]))

Digits == [0 .. 3 -> Bytes]

(* The digits of a number are its bytes, and its upper parts.              *)
LEMMA NumberParts ==
  ASSUME NEW d \in Digits
  PROVE  /\ Number(d) \in RtlWord /\ Number(d) \in Int
         /\ Number(d) \div 2^(BYTE * 0) = Number(d)
         /\ Number(d) \div 2^(BYTE * 1) = d[1] + 2^BYTE * (d[2] + 2^BYTE * d[3])
         /\ Number(d) \div 2^(BYTE * 2) = d[2] + 2^BYTE * d[3]
         /\ Number(d) \div 2^(BYTE * 3) = d[3]
         /\ Number(d) % 2^(BYTE * 2) = d[0] + 2^BYTE * d[1]
<1> DEFINE B == 2^BYTE
           d0 == d[0]
           d1 == d[1]
           d2 == d[2]
           d3 == d[3]
           n == Number(d)
           u2 == d2 + B * d3
           u1 == d1 + B * u2
<1>1. /\ B \in Nat \ {0} /\ 2^(BYTE * 0) = 1 /\ 2^(BYTE * 1) = B /\ 2^(BYTE * 2) = B * B
      /\ 2^(BYTE * 3) = B * (B * B) /\ 2^XLEN = B * (B * (B * B))
  BY ByteSizes, WordSizes
<1>2. /\ d0 \in 0 .. (B - 1) /\ d1 \in 0 .. (B - 1) /\ d2 \in 0 .. (B - 1)
      /\ d3 \in 0 .. (B - 1)
  BY DEF Digits, Bytes
<1>3. n = d0 + B * u1
  BY DEF Number
<1> HIDE DEF B, d0, d1, d2, d3, n
<1>4. u2 \in Nat /\ u2 < B * B
  <2>1. B * d3 <= B * (B - 1) /\ B * d3 \in Nat
    BY <1>1, <1>2, SMT
  <2>2. B * (B - 1) = B * B - B /\ B * B \in Int
    BY <1>1, SMT
  <2>3. QED
    BY <1>1, <1>2, <2>1, <2>2
<1> HIDE DEF u2
<1>5. u1 \in Nat /\ u1 < B * (B * B)
  <2>1. B * u2 <= B * (B * B - 1) /\ B * u2 \in Nat
    BY <1>1, <1>4, SMT
  <2>2. B * (B * B - 1) = B * (B * B) - B /\ B * (B * B) \in Int
    BY <1>1, SMT
  <2>3. QED
    BY <1>1, <1>2, <2>1, <2>2
<1> HIDE DEF u1
<1>6. n \in Nat /\ n < B * (B * (B * B))
  <2> DEFINE C == B * (B * B)
  <2>1. C \in Nat
    BY <1>1, SMT
  <2> HIDE DEF C
  <2>2. u1 \in Nat /\ u1 <= C - 1
    BY <1>5, <2>1 DEF C
  <2>3. B * u1 <= B * (C - 1) /\ B * u1 \in Nat
    BY <1>1, <2>1, <2>2, SMT
  <2>4. B * (C - 1) = B * C - B /\ B * C \in Int
    BY <1>1, <2>1, SMT
  <2>5. n \in Nat /\ n < B * C
    BY <1>1, <1>2, <1>3, <2>3, <2>4, SMT
  <2>6. QED
    BY <2>5 DEF C
<1>7. n \div B = u1
  <2>1. n = B * u1 + d0 /\ n \in Int /\ u1 \in Int
    BY <1>1, <1>2, <1>3, <1>5, <1>6
  <2>2. B \in Nat \ {0} /\ d0 \in 0 .. (B - 1)
    BY <1>1, <1>2
  <2>3. QED
    BY <2>1, <2>2, DivMod
<1>8. n \div (B * B) = u2 /\ n % (B * B) = d0 + B * d1
  <2> DEFINE C == B * B
             m == d0 + B * d1
  <2>1. C \in Nat \ {0}
    BY <1>1, SMT
  <2>2. m \in 0 .. (C - 1)
    <3>1. B * d1 <= B * (B - 1) /\ B * d1 \in Nat
      BY <1>1, <1>2, SMT
    <3>2. B * (B - 1) = B * B - B /\ B * B \in Int
      BY <1>1, SMT
    <3>3. QED
      BY <1>1, <1>2, <3>1, <3>2
  <2>3. n = C * u2 + m
    <3>1. B * (d1 + B * u2) = B * d1 + (B * B) * u2
      BY <1>1, <1>2, <1>4, SMT
    <3>2. B * d1 \in Int /\ (B * B) * u2 \in Int
      BY <1>1, <1>2, <1>4, SMT
    <3>3. QED
      BY <1>2, <1>3, <3>1, <3>2 DEF u1
  <2>4. n \in Int /\ u2 \in Int
    BY <1>4, <1>6
  <2> HIDE DEF C, m
  <2>5. n \div C = u2 /\ n % C = m
    BY <2>1, <2>2, <2>3, <2>4, DivMod
  <2>6. QED
    BY <2>5 DEF C, m
<1>9. n \div (B * (B * B)) = d3
  <2> DEFINE C == B * (B * B)
             m == d0 + B * (d1 + B * d2)
  <2>1. C \in Nat \ {0}
    BY <1>1, SMT
  <2>2. m \in 0 .. (C - 1)
    <3> DEFINE e == d1 + B * d2
    <3>1. B * d2 <= B * (B - 1) /\ B * d2 \in Nat
      BY <1>1, <1>2, SMT
    <3>2. B * (B - 1) = B * B - B /\ B * B \in Int
      BY <1>1, SMT
    <3>3. e \in Nat /\ e <= B * B - 1
      BY <1>1, <1>2, <3>1, <3>2
    <3> HIDE DEF e
    <3>4. B * e <= B * (B * B - 1) /\ B * e \in Nat
      BY <1>1, <3>3, SMT
    <3>5. B * (B * B - 1) = B * (B * B) - B /\ B * (B * B) \in Int
      BY <1>1, SMT
    <3>6. d0 + B * e \in 0 .. (B * (B * B) - 1)
      BY <1>1, <1>2, <3>4, <3>5
    <3>7. QED
      BY <3>6 DEF e
  <2>3. n = C * d3 + m
    <3>1. B * (d1 + B * (d2 + B * d3)) = B * (d1 + B * d2) + (B * (B * B)) * d3
      BY <1>1, <1>2, SMT
    <3>2. B * (d1 + B * d2) \in Int /\ (B * (B * B)) * d3 \in Int
      BY <1>1, <1>2, SMT
    <3>3. QED
      BY <1>2, <1>3, <3>1, <3>2 DEF u1, u2
  <2>4. n \in Int /\ d3 \in Int
    BY <1>2, <1>6
  <2> HIDE DEF C, m
  <2>5. n \div C = d3
    BY <2>1, <2>2, <2>3, <2>4, DivMod
  <2>6. QED
    BY <2>5 DEF C
<1>10. n \in RtlWord /\ n \in Int /\ n \div 1 = n
  BY <1>1, <1>6 DEF RtlWord
<1>11. QED
  BY <1>1, <1>7, <1>8, <1>9, <1>10 DEF B, d0, d1, d2, d3, n, u1, u2

LEMMA NumberBytes ==
  ASSUME NEW d \in Digits
  PROVE  BytesOf(Number(d)) = d
<1> DEFINE B == 2^BYTE
           n == Number(d)
<1>1. B \in Nat \ {0}
  BY WordSizes
<1>2. d[0] \in 0 .. (B - 1) /\ d[1] \in 0 .. (B - 1) /\ d[2] \in 0 .. (B - 1) /\ d[3] \in 0 .. (B - 1)
  BY DEF Digits, Bytes
<1>3. /\ n \div 2^(BYTE * 0) = n /\ n = d[0] + B * (d[1] + B * (d[2] + B * d[3]))
      /\ n \div 2^(BYTE * 1) = d[1] + B * (d[2] + B * d[3])
      /\ n \div 2^(BYTE * 2) = d[2] + B * d[3]
      /\ n \div 2^(BYTE * 3) = d[3]
  BY NumberParts DEF Number
<1> HIDE DEF B, n
<1>4. ASSUME NEW m \in 0 .. (B - 1), NEW q \in Int
      PROVE  (m + B * q) % B = m /\ m + B * q \in Int
  <2> DEFINE t == m + B * q
  <2>1. t = B * q + m /\ t \in Int
    BY <1>1, SMT
  <2> HIDE DEF t
  <2>2. t % B = m
    BY <1>1, <2>1, DivMod
  <2>3. QED
    BY <2>1, <2>2 DEF t
<1>5. (d[2] + B * d[3]) % B = d[2] /\ d[2] + B * d[3] \in Int
  BY <1>2, <1>4
<1>6. (d[1] + B * (d[2] + B * d[3])) % B = d[1] /\ d[1] + B * (d[2] + B * d[3]) \in Int
  <2> DEFINE q == d[2] + B * d[3]
  <2>1. q \in Int
    BY <1>5
  <2> HIDE DEF q
  <2>2. (d[1] + B * q) % B = d[1] /\ d[1] + B * q \in Int
    BY <1>2, <1>4, <2>1
  <2>3. QED
    BY <2>2 DEF q
<1>7. n % B = d[0]
  <2> DEFINE q == d[1] + B * (d[2] + B * d[3])
  <2>1. q \in Int /\ n = d[0] + B * q
    BY <1>3, <1>6
  <2> HIDE DEF q
  <2>2. QED
    BY <1>2, <1>4, <2>1
<1>8. d[3] % B = d[3]
  BY <1>1, <1>2
<1>9. \A j \in 0 .. 3 : (n \div 2^(BYTE * j)) % B = d[j]
  <2>1. /\ (n \div 2^(BYTE * 0)) % B = d[0] /\ (n \div 2^(BYTE * 1)) % B = d[1]
        /\ (n \div 2^(BYTE * 2)) % B = d[2] /\ (n \div 2^(BYTE * 3)) % B = d[3]
    BY <1>3, <1>5, <1>6, <1>7, <1>8
  <2>2. QED
    BY <2>1
<1>10. BytesOf(n) = [j \in 0 .. 3 |-> (n \div 2^(BYTE * j)) % B]
  BY DEF BytesOf, B
<1>11. d = [j \in 0 .. 3 |-> d[j]]
  BY DEF Digits
<1>12. QED
  BY <1>9, <1>10, <1>11 DEF n

(* Every word is the number of its bytes.                                  *)
LEMMA WordDigits ==
  ASSUME NEW x \in RtlWord
  PROVE  /\ \E d \in Digits : x = Number(d)
         /\ BytesOf(x) \in Digits /\ Number(BytesOf(x)) = x
<1> DEFINE B == 2^BYTE
           q1 == x \div B
           q2 == q1 \div B
           q3 == q2 \div B
           d == [j \in 0 .. 3 |-> IF j = 0 THEN x % B ELSE IF j = 1 THEN q1 % B
                                  ELSE IF j = 2 THEN q2 % B ELSE q3]
<1>1. B \in Nat \ {0} /\ 2^XLEN = B * (B * (B * B)) /\ x \in Nat /\ x < 2^XLEN
  BY ByteSizes, WordSizes DEF RtlWord
<1> HIDE DEF B
<1>2. q1 \in Nat /\ x % B \in 0 .. (B - 1) /\ x = B * q1 + (x % B)
  BY <1>1, SMT
<1> HIDE DEF q1
<1>3. q2 \in Nat /\ q1 % B \in 0 .. (B - 1) /\ q1 = B * q2 + (q1 % B)
  BY <1>1, <1>2, SMT
<1> HIDE DEF q2
<1>4. q3 \in Nat /\ q2 % B \in 0 .. (B - 1) /\ q2 = B * q3 + (q2 % B)
  BY <1>1, <1>3, SMT
<1> HIDE DEF q3
<1>5. q3 < B
  <2>1. SUFFICES ASSUME B <= q3 PROVE FALSE
    BY <1>1, <1>4
  <2>2. B * B <= B * q3 /\ B * q3 <= q2
    BY <1>1, <1>4, <2>1, SMT
  <2>3. B * B <= q2 /\ B * B \in Nat
    BY <1>1, <1>3, <1>4, <2>2, SMT
  <2> DEFINE C == B * B
  <2> HIDE DEF C
  <2>4. C <= q2 /\ C \in Nat
    BY <2>3 DEF C
  <2>5. B * C <= B * q2 /\ B * q2 <= q1 /\ B * C \in Nat
    BY <1>1, <1>2, <1>3, <2>4, SMT
  <2> DEFINE D == B * C
  <2> HIDE DEF D
  <2>6. D <= q1 /\ D \in Nat
    BY <1>1, <1>2, <1>3, <2>4, <2>5, SMT DEF D
  <2>7. B * D <= B * q1 /\ B * q1 <= x
    BY <1>1, <1>2, <2>6, SMT
  <2>8. B * D <= x
    BY <1>1, <1>2, <2>6, <2>7, SMT
  <2>9. B * D = 2^XLEN
    BY <1>1 DEF C, D
  <2>10. QED
    BY <1>1, <2>8, <2>9
<1>6. d \in Digits
  BY <1>1, <1>2, <1>3, <1>4, <1>5 DEF Digits, Bytes, B
<1>7. Number(d) = (x % B) + B * ((q1 % B) + B * ((q2 % B) + B * q3))
  BY DEF Number, B
<1>8. x = Number(d)
  <2>1. (q2 % B) + B * q3 = q2
    BY <1>1, <1>4
  <2>2. (q1 % B) + B * q2 = q1
    BY <1>1, <1>3
  <2>3. (x % B) + B * q1 = x
    BY <1>1, <1>2
  <2>4. QED
    BY <1>7, <2>1, <2>2, <2>3
<1>9. QED
  BY <1>6, <1>8, NumberBytes

(* The sizes and offsets that both sides accept.                           *)
Accesses == {<<"MEM_B", 0>>, <<"MEM_B", 1>>, <<"MEM_B", 2>>, <<"MEM_B", 3>>,
             <<"MEM_H", 0>>, <<"MEM_H", 2>>, <<"MEM_W", 0>>}

LEMMA AlignmentAgrees ==
  ASSUME NEW sz \in MemSize, NEW off \in 0 .. 3
  PROVE  /\ SizeMisaligned(off, SizeOf[sz]) = RtlUnaligned(sz, off)
         /\ ~RtlUnaligned(sz, off) => <<sz, off>> \in Accesses
<1>1. off = 0 \/ off = 1 \/ off = 2 \/ off = 3
  OBVIOUS
<1>2. sz = "MEM_B" \/ sz = "MEM_H" \/ sz = "MEM_W"
  BY DEF MemSize
<1>3. SizeOf["MEM_B"] = 1 /\ SizeOf["MEM_H"] = 2 /\ SizeOf["MEM_W"] = 4
  BY DEF SizeOf
<1>4. CASE sz = "MEM_B"
  <2>1. ~SizeMisaligned(off, SizeOf[sz])
    BY <1>3, <1>4 DEF SizeMisaligned
  <2>2. ~RtlUnaligned(sz, off)
    BY <1>4 DEF RtlUnaligned
  <2>3. <<sz, off>> \in Accesses
    BY <1>1, <1>4 DEF Accesses
  <2>4. QED
    BY <2>1, <2>2, <2>3, Zenon DEF SizeMisaligned, RtlUnaligned
<1>5. CASE sz = "MEM_H"
  <2>1. SizeMisaligned(off, SizeOf[sz]) <=> off % 2 # 0
    BY <1>3, <1>5 DEF SizeMisaligned
  <2>2. RtlUnaligned(sz, off) <=> off % 2 # 0
    BY <1>5 DEF RtlUnaligned
  <2>3. off % 2 = 0 => off = 0 \/ off = 2
    BY <1>1
  <2>4. off = 0 \/ off = 2 => <<sz, off>> \in Accesses
    BY <1>5 DEF Accesses
  <2>5. QED
    BY <2>1, <2>2, <2>3, <2>4, Zenon DEF SizeMisaligned, RtlUnaligned
<1>6. CASE sz = "MEM_W"
  <2>1. SizeMisaligned(off, SizeOf[sz]) <=> off # 0
    BY <1>1, <1>3, <1>6 DEF SizeMisaligned
  <2>2. RtlUnaligned(sz, off) <=> off # 0
    BY <1>6 DEF RtlUnaligned
  <2>3. off = 0 => <<sz, off>> \in Accesses
    BY <1>6 DEF Accesses
  <2>4. QED
    BY <2>1, <2>2, <2>3, Zenon DEF SizeMisaligned, RtlUnaligned
<1>7. QED
  BY <1>2, <1>4, <1>5, <1>6

(* A lane of a word, and the lowest bits of one, by their bytes.           *)
LEMMA LaneIs ==
  ASSUME NEW d \in Digits, NEW sz, NEW off, <<sz, off>> \in Accesses
  PROVE  /\ LaneBits(Lane(sz, off), Number(d)) = LoadBytes(d, off, SizeOf[sz])
         /\ Number(d) % 2^Lane(sz, off).width = LoadBytes(d, 0, SizeOf[sz])
         /\ Lane(sz, off).width = BYTE * SizeOf[sz]
         /\ 2^Lane(sz, off).lo = 2^(BYTE * off)
<1> DEFINE B == 2^BYTE
           n == Number(d)
<1>1. /\ B \in Nat \ {0} /\ 2^(BYTE * 0) = 1 /\ 2^(BYTE * 1) = B /\ 2^(BYTE * 2) = B * B
      /\ 2^(BYTE * 3) = B * (B * B) /\ 2^XLEN = B * (B * (B * B))
  BY ByteSizes, WordSizes
<1>2. d[0] \in 0 .. (B - 1) /\ d[1] \in 0 .. (B - 1) /\ d[2] \in 0 .. (B - 1) /\ d[3] \in 0 .. (B - 1)
  BY DEF Digits, Bytes
<1>3. /\ n \in RtlWord /\ n \in Int /\ n \div 2^(BYTE * 0) = n
      /\ n \div 2^(BYTE * 2) = d[2] + B * d[3]
      /\ n % 2^(BYTE * 2) = d[0] + B * d[1]
      /\ n = d[0] + B * (d[1] + B * (d[2] + B * d[3]))
  BY NumberParts DEF Number
<1>4. \A j \in 0 .. 3 : (n \div 2^(BYTE * j)) % 2^BYTE = d[j]
  <2>1. BytesOf(n) = d
    BY NumberBytes
  <2>2. QED
    BY <2>1 DEF BytesOf
<1>5. SizeOf["MEM_B"] = 1 /\ SizeOf["MEM_H"] = 2 /\ SizeOf["MEM_W"] = 4
  BY DEF SizeOf
<1>6. CASE sz = "MEM_B" /\ off \in 0 .. 3
  <2>1. Lane(sz, off).lo = BYTE * off /\ Lane(sz, off).width = BYTE
    BY <1>6 DEF Lane
  <2>2. LoadBytes(d, off, 1) = d[off] /\ LoadBytes(d, 0, 1) = d[0]
    <3>1. d[off + 0] = d[off] /\ d[off] \in Int /\ d[0 + 0] = d[0]
      BY <1>2, <1>6 DEF Digits, Bytes
    <3>2. QED
      BY <1>1, <1>2, <3>1 DEF LoadBytes
  <2>3. LaneBits(Lane(sz, off), n) = d[off]
    BY <1>4, <1>6, <2>1 DEF LaneBits
  <2>4. n % 2^BYTE = d[0]
    BY <1>3, <1>4
  <2>5. BYTE = BYTE * 1
    BY Widths
  <2>6. QED
    BY <1>5, <1>6, <2>1, <2>2, <2>3, <2>4, <2>5 DEF n
<1>7. CASE sz = "MEM_H" /\ off \in {0, 2}
  <2>1. Lane(sz, off).lo = BYTE * off /\ Lane(sz, off).width = BYTE * 2
    <3>1. Lane(sz, off).lo = 2 * BYTE * (off \div 2) /\ Lane(sz, off).width = 2 * BYTE
      BY <1>7 DEF Lane
    <3>2. 2 * BYTE * (0 \div 2) = BYTE * 0 /\ 2 * BYTE * (2 \div 2) = BYTE * 2 /\ 2 * BYTE = BYTE * 2
      BY Widths
    <3>3. QED
      BY <1>7, <3>1, <3>2
  <2>2. /\ LoadBytes(d, 0, 2) = d[0] + B * d[1] /\ LoadBytes(d, 2, 2) = d[2] + B * d[3]
    <3>1. /\ LoadBytes(d, 0, 2) = d[0 + 0] * 1 + d[0 + 1] * B
          /\ LoadBytes(d, 2, 2) = d[2 + 0] * 1 + d[2 + 1] * B
      BY <1>1 DEF LoadBytes
    <3>2. d[0 + 0] = d[0] /\ d[0 + 1] = d[1] /\ d[2 + 0] = d[2] /\ d[2 + 1] = d[3]
      OBVIOUS
    <3>3. /\ d[0] * 1 + d[1] * B = d[0] + B * d[1] /\ d[2] * 1 + d[3] * B = d[2] + B * d[3]
      BY <1>1, <1>2
    <3>4. QED
      BY <3>1, <3>2, <3>3
  <2>3. n % 2^(BYTE * 2) = LoadBytes(d, 0, 2)
    BY <1>3, <2>2
  <2>4. (d[2] + B * d[3]) % 2^(BYTE * 2) = d[2] + B * d[3]
    <3> DEFINE t == d[2] + B * d[3]
    <3>1. B * d[3] <= B * (B - 1) /\ B * d[3] \in Nat
      BY <1>1, <1>2, SMT
    <3>2. B * (B - 1) = B * B - B /\ B * B \in Nat
      BY <1>1, SMT
    <3>3. t \in 0 .. (B * B - 1)
      BY <1>1, <1>2, <3>1, <3>2
    <3> HIDE DEF t
    <3>4. t % (B * B) = t
      BY <3>2, <3>3
    <3>5. QED
      BY <1>1, <3>4 DEF t
  <2>5. LaneBits(Lane(sz, off), n) = LoadBytes(d, off, 2)
    BY <1>3, <1>7, <2>1, <2>2, <2>3, <2>4 DEF LaneBits
  <2>6. QED
    BY <1>5, <1>7, <2>1, <2>3, <2>5 DEF n
<1>8. CASE sz = "MEM_W" /\ off = 0
  <2>1. Lane(sz, off).lo = BYTE * off /\ Lane(sz, off).width = BYTE * 4 /\ XLEN = BYTE * 4
    <3>1. BYTE * 0 = 0 /\ XLEN = BYTE * 4
      BY Widths DEF XLEN
    <3>2. QED
      BY <1>8, <3>1 DEF Lane
  <2>2. LoadBytes(d, 0, 4) = n
    <3>1. LoadBytes(d, 0, 4) = d[0 + 0] * 1 + d[0 + 1] * B + d[0 + 2] * (B * B)
                               + d[0 + 3] * (B * (B * B))
      BY <1>1 DEF LoadBytes
    <3>2. d[0 + 0] = d[0] /\ d[0 + 1] = d[1] /\ d[0 + 2] = d[2] /\ d[0 + 3] = d[3]
      OBVIOUS
    <3>3. d[0] * 1 + d[1] * B + d[2] * (B * B) + d[3] * (B * (B * B))
          = d[0] + B * (d[1] + B * (d[2] + B * d[3]))
      BY <1>1, <1>2, SMT
    <3>4. QED
      BY <1>3, <3>1, <3>2, <3>3
  <2>3. n % 2^XLEN = n
    BY <1>3, Masks DEF u32
  <2>4. LaneBits(Lane(sz, off), n) = n
    BY <1>3, <1>8, <2>1, <2>3 DEF LaneBits
  <2>5. QED
    BY <1>5, <1>8, <2>1, <2>2, <2>3, <2>4 DEF n
<1>9. QED
  BY <1>6, <1>7, <1>8 DEF Accesses

(* Sign extension, in the emulator and in the RTL.                         *)
LEMMA ExtendAgrees ==
  ASSUME NEW wd \in 1 .. XLEN, NEW n \in Int, 0 <= n, n < 2^wd
  PROVE  /\ u32(sext(n, wd)) = IF n >= 2^(wd - 1) THEN n + 2^XLEN - 2^wd ELSE n
<1> DEFINE M == 2^XLEN
           W == 2^wd
           H == 2^(wd - 1)
<1>1. /\ M \in Nat \ {0} /\ W \in Nat \ {0} /\ H \in Nat /\ W <= M
  <2>1. wd \in 0 .. XLEN /\ wd - 1 \in 0 .. XLEN /\ XLEN \in 0 .. XLEN /\ wd <= XLEN
    BY Widths
  <2>2. QED
    BY <2>1, PowersOfTwo, PowersGrow
<1>2. u32(sext(n, wd)) = (IF n % W >= H THEN (n % W) - W ELSE n % W) % M
  BY DEF u32, sext
<1> HIDE DEF M, W, H
<1>3. n % W = n
  BY <1>1 DEF W
<1>4. n < W
  BY DEF W
<1>5. n % M = n
  BY <1>1, <1>4
<1>6. (n - W) % M = n + M - W
  <2> DEFINE t == n - W
             m == n + M - W
  <2>1. t \in Int /\ m \in 0 .. (M - 1) /\ t = M * (-1) + m
    BY <1>1, <1>4
  <2> HIDE DEF t, m
  <2>2. t % M = m
    BY <1>1, <2>1, DivMod
  <2>3. QED
    BY <2>2 DEF t, m
<1>7. QED
  BY <1>2, <1>3, <1>5, <1>6 DEF M, W, H

LEMMA LoadAgrees ==
  ASSUME NEW x \in RtlWord, NEW sz, NEW off, <<sz, off>> \in Accesses,
         NEW signed \in BOOLEAN
  PROVE  LoadValue(BytesOf(x), off, SizeOf[sz], signed) = RtlReadExt(sz, ~signed, off, x)
<1> DEFINE d == BytesOf(x)
           n == LoadBytes(d, off, SizeOf[sz])
           wd == BYTE * SizeOf[sz]
<1>1. d \in Digits /\ Number(d) = x
  BY WordDigits
<1>2. LaneBits(Lane(sz, off), x) = n /\ Lane(sz, off).width = wd
  BY <1>1, LaneIs
<1>3. wd \in 1 .. XLEN
  <2>1. SizeOf[sz] = 1 \/ SizeOf[sz] = 2 \/ SizeOf[sz] = 4
    BY DEF Accesses, SizeOf
  <2>2. QED
    BY <2>1, Widths DEF XLEN
<1>4. n \in Int /\ 0 <= n /\ n < 2^wd
  <2>1. n = (x \div 2^Lane(sz, off).lo) % 2^wd
    BY <1>2 DEF LaneBits
  <2>2. 2^Lane(sz, off).lo = 2^(BYTE * off)
    BY <1>1, LaneIs
  <2>3. off \in 0 .. 4
    BY DEF Accesses
  <2>4. 2^(BYTE * off) \in Nat \ {0}
    BY <2>3, WordSizes
  <2>5. 2^wd \in Nat \ {0}
    BY <1>3, PowersOfTwo
  <2>6. x \in Int
    BY SignedWord
  <2> HIDE DEF n, wd
  <2>7. QED
    BY <2>1, <2>2, <2>4, <2>5, <2>6, SMT
<1> HIDE DEF n, wd
<1>5. u32(sext(n, wd)) = IF n >= 2^(wd - 1) THEN n + 2^XLEN - 2^wd ELSE n
  BY <1>3, <1>4, ExtendAgrees
<1>6. LoadValue(d, off, SizeOf[sz], signed) = IF signed THEN u32(sext(n, wd)) ELSE n
  BY DEF LoadValue, n, wd
<1>7. RtlReadExt(sz, ~signed, off, x)
      = IF signed /\ n >= 2^(wd - 1) THEN n + 2^XLEN - 2^wd ELSE n
  BY <1>2 DEF RtlReadExt
<1>8. QED
  BY <1>5, <1>6, <1>7

(* The digits after a store: those of the value in the lane, the old ones  *)
(* beside it.                                                              *)
LEMMA StoreAgrees ==
  ASSUME NEW x \in RtlWord, NEW y \in RtlWord, NEW sz, NEW off, <<sz, off>> \in Accesses
  PROVE  StoreBytes(BytesOf(x), off, y, SizeOf[sz]) = BytesOf(RtlMergeWord(sz, off, x, y))
<1> DEFINE d == BytesOf(x)
           e == BytesOf(y)
           B == 2^BYTE
           g == [j \in 0 .. 3 |-> IF j \in off .. (off + SizeOf[sz] - 1) THEN e[j - off] ELSE d[j]]
<1>1. d \in Digits /\ Number(d) = x /\ e \in Digits /\ Number(e) = y
  BY WordDigits
<1>2. /\ sz \in {"MEM_B", "MEM_H", "MEM_W"} /\ off \in 0 .. 3 /\ SizeOf[sz] \in {1, 2, 4}
      /\ off + SizeOf[sz] <= 4
  BY DEF Accesses, SizeOf
<1>3. \A j \in 0 .. 3 : j \in off .. (off + SizeOf[sz] - 1) => j - off \in 0 .. 3
  BY <1>2
<1>4. g \in Digits
  BY <1>1, <1>2, <1>3 DEF Digits
<1>5. StoreBytes(d, off, y, SizeOf[sz]) = g
  <2>1. DOMAIN d = 0 .. 3
    BY <1>1 DEF Digits
  <2>2. \A i \in 0 .. 3 : e[i] = (y \div 2^(BYTE * i)) % 2^BYTE
    BY DEF BytesOf
  <2>3. ASSUME NEW j \in 0 .. 3, j \in off .. (off + SizeOf[sz] - 1)
        PROVE  (y \div 2^(BYTE * (j - off))) % 2^BYTE = e[j - off]
    <3> DEFINE i == j - off
    <3>1. i \in 0 .. 3
      BY <1>3, <2>3
    <3> HIDE DEF i
    <3>2. (y \div 2^(BYTE * i)) % 2^BYTE = e[i]
      BY <2>2, <3>1
    <3>3. QED
      BY <3>2 DEF i
  <2> HIDE DEF d, e
  <2>4. StoreBytes(d, off, y, SizeOf[sz])
        = [j \in 0 .. 3 |-> IF j \in off .. (off + SizeOf[sz] - 1)
                            THEN (y \div 2^(BYTE * (j - off))) % 2^BYTE ELSE d[j]]
    BY <2>1 DEF StoreBytes
  <2>5. QED
    BY <2>3, <2>4
<1>6. RtlMergeWord(sz, off, x, y)
      = Number(d) + (LoadBytes(e, 0, SizeOf[sz]) - LoadBytes(d, off, SizeOf[sz])) * 2^(BYTE * off)
  <2>1. /\ LaneBits(Lane(sz, off), x) = LoadBytes(d, off, SizeOf[sz])
        /\ 2^Lane(sz, off).lo = 2^(BYTE * off)
    BY <1>1, LaneIs
  <2>2. y % 2^Lane(sz, off).width = LoadBytes(e, 0, SizeOf[sz])
    BY <1>1, LaneIs
  <2>3. QED
    BY <1>1, <2>1, <2>2 DEF RtlMergeWord
<1>7. Number(g) = RtlMergeWord(sz, off, x, y)
  <2>1. /\ B \in Nat \ {0} /\ 2^(BYTE * 0) = 1 /\ 2^(BYTE * 1) = B /\ 2^(BYTE * 2) = B * B
        /\ 2^(BYTE * 3) = B * (B * B)
    BY ByteSizes, WordSizes
  <2>2. SizeOf["MEM_B"] = 1 /\ SizeOf["MEM_H"] = 2 /\ SizeOf["MEM_W"] = 4
    BY DEF SizeOf
  <2>3. /\ d[0] \in Int /\ d[1] \in Int /\ d[2] \in Int /\ d[3] \in Int
        /\ e[0] \in Int /\ e[1] \in Int /\ e[2] \in Int /\ e[3] \in Int
    BY <1>1 DEF Digits, Bytes
  <2> HIDE DEF d, e, B
  <2>4. \A h \in Digits :
          /\ \A i \in 0 .. 3 : LoadBytes(h, i, 1) = h[i]
          /\ LoadBytes(h, 0, 2) = h[0] + h[1] * B
          /\ LoadBytes(h, 2, 2) = h[2] + h[3] * B
          /\ LoadBytes(h, 0, 4) = h[0] + h[1] * B + h[2] * (B * B) + h[3] * (B * (B * B))
    <3>1. SUFFICES ASSUME NEW h \in Digits
                   PROVE  /\ \A i \in 0 .. 3 : LoadBytes(h, i, 1) = h[i]
                          /\ LoadBytes(h, 0, 2) = h[0] + h[1] * B
                          /\ LoadBytes(h, 2, 2) = h[2] + h[3] * B
                          /\ LoadBytes(h, 0, 4) = h[0] + h[1] * B + h[2] * (B * B) + h[3] * (B * (B * B))
      OBVIOUS
    <3>2. \A i \in 0 .. 3 : h[i] \in Int /\ h[i + 0] = h[i] /\ h[i] * 1 = h[i]
      BY DEF Digits, Bytes
    <3>3. h[0 + 1] = h[1] /\ h[2 + 1] = h[3] /\ h[0 + 2] = h[2] /\ h[0 + 3] = h[3]
      OBVIOUS
    <3>4. \A i \in 0 .. 3 : LoadBytes(h, i, 1) = h[i]
      BY <2>1, <3>2 DEF LoadBytes
    <3>5. LoadBytes(h, 0, 2) = h[0] + h[1] * B
      BY <2>1, <3>2, <3>3 DEF LoadBytes
    <3>6. LoadBytes(h, 2, 2) = h[2] + h[3] * B
      BY <2>1, <3>2, <3>3 DEF LoadBytes
    <3>7. LoadBytes(h, 0, 4) = h[0] + h[1] * B + h[2] * (B * B) + h[3] * (B * (B * B))
      BY <2>1, <3>2, <3>3 DEF LoadBytes
    <3>8. QED
      BY <3>4, <3>5, <3>6, <3>7
  <2>5. /\ Number(d) = d[0] + B * (d[1] + B * (d[2] + B * d[3]))
        /\ Number(g) = g[0] + B * (g[1] + B * (g[2] + B * g[3]))
    BY DEF Number, B
  <2>6. CASE sz = "MEM_B" /\ off = 0
    <3>1. g[0] = e[0] /\ g[1] = d[1] /\ g[2] = d[2] /\ g[3] = d[3]
      BY <2>2, <2>6
    <3>2. RtlMergeWord(sz, off, x, y) = Number(d) + (e[0] - d[0]) * (1)
      BY <1>1, <1>6, <2>1, <2>2, <2>4, <2>6
    <3> HIDE DEF g
    <3>3. e[0] + B * (d[1] + B * (d[2] + B * d[3]))
          = (d[0] + B * (d[1] + B * (d[2] + B * d[3]))) + (e[0] - d[0]) * (1)
      BY <2>1, <2>3, SMT
    <3>4. QED
      BY <2>5, <3>1, <3>2, <3>3
  <2>7. CASE sz = "MEM_B" /\ off = 1
    <3>1. g[0] = d[0] /\ g[1] = e[0] /\ g[2] = d[2] /\ g[3] = d[3]
      BY <2>2, <2>7
    <3>2. RtlMergeWord(sz, off, x, y) = Number(d) + (e[0] - d[1]) * (B)
      BY <1>1, <1>6, <2>1, <2>2, <2>4, <2>7
    <3> HIDE DEF g
    <3>3. d[0] + B * (e[0] + B * (d[2] + B * d[3]))
          = (d[0] + B * (d[1] + B * (d[2] + B * d[3]))) + (e[0] - d[1]) * (B)
      BY <2>1, <2>3, SMT
    <3>4. QED
      BY <2>5, <3>1, <3>2, <3>3
  <2>8. CASE sz = "MEM_B" /\ off = 2
    <3>1. g[0] = d[0] /\ g[1] = d[1] /\ g[2] = e[0] /\ g[3] = d[3]
      BY <2>2, <2>8
    <3>2. RtlMergeWord(sz, off, x, y) = Number(d) + (e[0] - d[2]) * (B * B)
      BY <1>1, <1>6, <2>1, <2>2, <2>4, <2>8
    <3> HIDE DEF g
    <3>3. d[0] + B * (d[1] + B * (e[0] + B * d[3]))
          = (d[0] + B * (d[1] + B * (d[2] + B * d[3]))) + (e[0] - d[2]) * (B * B)
      BY <2>1, <2>3, SMT
    <3>4. QED
      BY <2>5, <3>1, <3>2, <3>3
  <2>9. CASE sz = "MEM_B" /\ off = 3
    <3>1. g[0] = d[0] /\ g[1] = d[1] /\ g[2] = d[2] /\ g[3] = e[0]
      BY <2>2, <2>9
    <3>2. RtlMergeWord(sz, off, x, y) = Number(d) + (e[0] - d[3]) * (B * (B * B))
      BY <1>1, <1>6, <2>1, <2>2, <2>4, <2>9
    <3> HIDE DEF g
    <3>3. d[0] + B * (d[1] + B * (d[2] + B * e[0]))
          = (d[0] + B * (d[1] + B * (d[2] + B * d[3]))) + (e[0] - d[3]) * (B * (B * B))
      BY <2>1, <2>3, SMT
    <3>4. QED
      BY <2>5, <3>1, <3>2, <3>3
  <2>10. CASE sz = "MEM_H" /\ off = 0
    <3>1. g[0] = e[0] /\ g[1] = e[1] /\ g[2] = d[2] /\ g[3] = d[3]
      BY <2>2, <2>10
    <3>2. RtlMergeWord(sz, off, x, y) = Number(d) + ((e[0] + e[1] * B) - (d[0] + d[1] * B)) * (1)
      BY <1>1, <1>6, <2>1, <2>2, <2>4, <2>10
    <3> HIDE DEF g
    <3>3. e[0] + B * (e[1] + B * (d[2] + B * d[3]))
          = (d[0] + B * (d[1] + B * (d[2] + B * d[3]))) + ((e[0] + e[1] * B) - (d[0] + d[1] * B)) * (1)
      BY <2>1, <2>3, SMT
    <3>4. QED
      BY <2>5, <3>1, <3>2, <3>3
  <2>11. CASE sz = "MEM_H" /\ off = 2
    <3>1. g[0] = d[0] /\ g[1] = d[1] /\ g[2] = e[0] /\ g[3] = e[1]
      BY <2>2, <2>11
    <3>2. RtlMergeWord(sz, off, x, y) = Number(d) + ((e[0] + e[1] * B) - (d[2] + d[3] * B)) * (B * B)
      BY <1>1, <1>6, <2>1, <2>2, <2>4, <2>11
    <3> HIDE DEF g
    <3>3. d[0] + B * (d[1] + B * (e[0] + B * e[1]))
          = (d[0] + B * (d[1] + B * (d[2] + B * d[3]))) + ((e[0] + e[1] * B) - (d[2] + d[3] * B)) * (B * B)
      BY <2>1, <2>3, SMT
    <3>4. QED
      BY <2>5, <3>1, <3>2, <3>3
  <2>12. CASE sz = "MEM_W" /\ off = 0
    <3>1. g[0] = e[0] /\ g[1] = e[1] /\ g[2] = e[2] /\ g[3] = e[3]
      BY <2>2, <2>12
    <3>2. RtlMergeWord(sz, off, x, y) = Number(d) + ((e[0] + e[1] * B + e[2] * (B * B) + e[3] * (B * (B * B))) - (d[0] + d[1] * B + d[2] * (B * B) + d[3] * (B * (B * B)))) * (1)
      BY <1>1, <1>6, <2>1, <2>2, <2>4, <2>12
    <3> HIDE DEF g
    <3>3. e[0] + B * (e[1] + B * (e[2] + B * e[3]))
          = (d[0] + B * (d[1] + B * (d[2] + B * d[3]))) + ((e[0] + e[1] * B + e[2] * (B * B) + e[3] * (B * (B * B))) - (d[0] + d[1] * B + d[2] * (B * B) + d[3] * (B * (B * B)))) * (1)
      BY <2>1, <2>3, SMT
    <3>4. QED
      BY <2>5, <3>1, <3>2, <3>3
  <2>13. QED
    BY <2>6, <2>7, <2>8, <2>9, <2>10, <2>11, <2>12 DEF Accesses
<1>8. QED
  BY <1>4, <1>5, <1>7, NumberBytes

(***************************************************************************)
(* The bench of module AluRef: both operands are words in every state.     *)
(***************************************************************************)
Operands == a \in RtlWord /\ b \in RtlWord

(* Both operands stay words: the bench stops at the last one.              *)
THEOREM AluOperands == AluSpec => []Operands
<1>1. AluInit => Operands
  BY WordSizes DEF AluInit, Operands, RtlWord
<1>2. Operands /\ [NextOperand]_<<a, b>> => Operands'
  BY WordSizes DEF Operands, NextOperand, RtlWord
<1>3. QED
  BY <1>1, <1>2, PTL DEF AluSpec

(* _alu_reg and _alu_imm of the emulator compute what decoder.sv and       *)
(* alu.sv compute, for words of every width that is a power of two.        *)
THEOREM ArithmeticAgrees ==
  ASSUME WidthIsPower
  PROVE  AluSpec => []AluAgrees
<1>1. Operands => AluAgrees
  <2>1. SUFFICES ASSUME Operands, NEW f3 \in Funct3, NEW f7 \in {"F7_DEFAULT", "F7_ALT"}
                 PROVE  /\ _alu_reg(f3, f7, a, b) = RtlResult("OP_REG", f3, f7)
                        /\ _alu_imm(f3, f7, a, s32(b)) = RtlResult("OP_IMM", f3, f7)
    BY DEF AluAgrees
  <2>2. _alu_reg(f3, f7, a, b) = RtlResult("OP_REG", f3, f7)
    BY <2>1, RegAgrees DEF Operands, RtlResult
  <2>3. _alu_imm(f3, f7, a, s32(b)) = RtlResult("OP_IMM", f3, f7)
    BY <2>1, ImmAgrees DEF Operands, RtlResult
  <2>4. QED
    BY <2>2, <2>3
<1>2. QED
  BY <1>1, AluOperands, PTL

(* The branch conditions of step() are those that decoder.sv and           *)
(* branch_unit.sv decide, for words of every width.                        *)
THEOREM ConditionsAgree == AluSpec => []BranchesAgree
<1>1. Operands => BranchesAgree
  BY CmpAgrees DEF Operands, BranchesAgree
<1>2. QED
  BY <1>1, AluOperands, PTL

(* load and store of the emulator's byte array are the lane selection and  *)
(* the read-modify-write of data_memory.sv, and both reject the same       *)
(* accesses, for bytes of every width.                                     *)
THEOREM AccessesAgree == AluSpec => []LanesAgree
<1>1. Operands => LanesAgree
  <2>1. SUFFICES ASSUME Operands, NEW sz \in MemSize, NEW off \in 0 .. 3
                 PROVE  /\ SizeMisaligned(off, SizeOf[sz]) = RtlUnaligned(sz, off)
                        /\ ~RtlUnaligned(sz, off) =>
                             /\ \A signed \in BOOLEAN :
                                  LoadValue(BytesOf(a), off, SizeOf[sz], signed) =
                                    RtlReadExt(sz, ~signed, off, a)
                             /\ StoreBytes(BytesOf(a), off, b, SizeOf[sz]) =
                                  BytesOf(RtlMergeWord(sz, off, a, b))
    BY DEF LanesAgree
  <2>2. /\ SizeMisaligned(off, SizeOf[sz]) = RtlUnaligned(sz, off)
        /\ ~RtlUnaligned(sz, off) => <<sz, off>> \in Accesses
    BY AlignmentAgrees
  <2>3. a \in RtlWord /\ b \in RtlWord
    BY <2>1 DEF Operands
  <2>4. <<sz, off>> \in Accesses =>
          \A signed \in BOOLEAN : LoadValue(BytesOf(a), off, SizeOf[sz], signed) =
                                    RtlReadExt(sz, ~signed, off, a)
    BY <2>3, LoadAgrees
  <2>5. <<sz, off>> \in Accesses =>
          StoreBytes(BytesOf(a), off, b, SizeOf[sz]) = BytesOf(RtlMergeWord(sz, off, a, b))
    BY <2>3, StoreAgrees
  <2>6. QED
    BY <2>2, <2>4, <2>5
<1>2. QED
  BY <1>1, AluOperands, PTL
=============================================================================
