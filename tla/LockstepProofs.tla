--------------------------- MODULE LockstepProofs ---------------------------
(***************************************************************************)
(* The reference emulator is an oracle for both cores, for every image,    *)
(* byte width and memory size: as long as an instruction means the same on *)
(* both sides, one step of the emulator and one step of the core lead from *)
(* equal states to equal states.                                           *)
(***************************************************************************)
EXTENDS Lockstep, EmulatorProofs, UnitsProofs

(***************************************************************************)
(* A word of the byte array, and the four bytes it is made of.             *)
(***************************************************************************)
Memory == [0 .. (4 * MEM_WORDS - 1) -> Bytes]
WordIdx == 0 .. (MEM_WORDS - 1)

Window(m, k) == [j \in 0 .. 3 |-> m[4 * k + j]]

LEMMA WindowWord ==
  ASSUME NEW m, NEW k \in Int, Window(m, k) \in Digits
  PROVE  /\ LoadBytes(m, 4 * k, 4) = Number(Window(m, k))
         /\ LoadBytes(m, 4 * k, 4) \in RtlWord
         /\ BytesOf(LoadBytes(m, 4 * k, 4)) = Window(m, k)
<1> DEFINE B == 2^BYTE
           d == Window(m, k)
<1>1. /\ B \in Nat /\ 2^(BYTE * 0) = 1 /\ 2^(BYTE * 1) = B /\ 2^(BYTE * 2) = B * B
      /\ 2^(BYTE * 3) = B * (B * B)
  BY ByteSizes, WordSizes
<1>2. /\ m[4 * k + 0] = d[0] /\ m[4 * k + 1] = d[1] /\ m[4 * k + 2] = d[2]
      /\ m[4 * k + 3] = d[3]
  BY DEF Window
<1>3. d[0] \in Int /\ d[1] \in Int /\ d[2] \in Int /\ d[3] \in Int
  BY WordSizes DEF Digits, Bytes
<1>4. LoadBytes(m, 4 * k, 4)
        = d[0] * 2^(BYTE * 0) + d[1] * 2^(BYTE * 1) + d[2] * 2^(BYTE * 2) + d[3] * 2^(BYTE * 3)
  BY <1>2 DEF LoadBytes
<1> HIDE DEF B, d
<1>5. d[0] * 1 + d[1] * B + d[2] * (B * B) + d[3] * (B * (B * B))
        = d[0] + B * (d[1] + B * (d[2] + B * d[3]))
  BY <1>1, <1>3, SMT
<1>6. LoadBytes(m, 4 * k, 4) = Number(d)
  BY <1>1, <1>4, <1>5 DEF Number, B
<1>7. QED
  BY <1>6, NumberParts, NumberBytes DEF d

LEMMA WindowType ==
  ASSUME NEW m \in Memory, NEW k \in WordIdx
  PROVE  Window(m, k) \in Digits
BY MemAssumption DEF Memory, WordIdx, Window, Digits

(* A load or a store inside a word is one inside its window.               *)
LEMMA WindowLoad ==
  ASSUME NEW m, NEW k \in Int, NEW sz, NEW off, <<sz, off>> \in Accesses, NEW signed
  PROVE  LoadValue(m, 4 * k + off, SizeOf[sz], signed)
           = LoadValue(Window(m, k), off, SizeOf[sz], signed)
<1>1. /\ off \in 0 .. 3 /\ SizeOf[sz] \in {1, 2, 4} /\ off + SizeOf[sz] <= 4
  BY DEF Accesses, SizeOf
<1>2. ASSUME NEW j \in 0 .. (SizeOf[sz] - 1)
      PROVE  m[(4 * k + off) + j] = Window(m, k)[off + j]
  <2>1. off + j \in 0 .. 3 /\ (4 * k + off) + j = 4 * k + (off + j)
    BY <1>1
  <2>2. QED
    BY <2>1 DEF Window
<1>3. LoadBytes(m, 4 * k + off, SizeOf[sz]) = LoadBytes(Window(m, k), off, SizeOf[sz])
  <2>1. CASE SizeOf[sz] = 1
    <3>1. m[(4 * k + off) + 0] = Window(m, k)[off + 0]
      BY <1>2, <2>1
    <3>2. QED
      BY <2>1, <3>1 DEF LoadBytes
  <2>2. CASE SizeOf[sz] = 2
    <3>1. m[(4 * k + off) + 0] = Window(m, k)[off + 0] /\ m[(4 * k + off) + 1] = Window(m, k)[off + 1]
      BY <1>2, <2>2
    <3>2. QED
      BY <2>2, <3>1 DEF LoadBytes
  <2>3. CASE SizeOf[sz] = 4
    <3>1. /\ m[(4 * k + off) + 0] = Window(m, k)[off + 0] /\ m[(4 * k + off) + 1] = Window(m, k)[off + 1]
          /\ m[(4 * k + off) + 2] = Window(m, k)[off + 2] /\ m[(4 * k + off) + 3] = Window(m, k)[off + 3]
      BY <1>2, <2>3
    <3>2. QED
      BY <2>3, <3>1 DEF LoadBytes
  <2>4. QED
    BY <1>1, <2>1, <2>2, <2>3
<1>4. QED
  BY <1>3 DEF LoadValue

LEMMA WindowStore ==
  ASSUME NEW m \in Memory, NEW k \in WordIdx, NEW sz, NEW off, <<sz, off>> \in Accesses, NEW y
  PROVE  LET n == StoreBytes(m, 4 * k + off, y, SizeOf[sz])
         IN  /\ Window(n, k) = StoreBytes(Window(m, k), off, y, SizeOf[sz])
             /\ \A i \in WordIdx \ {k} : Window(n, i) = Window(m, i)
             /\ DOMAIN n = 0 .. (4 * MEM_WORDS - 1)
<1> DEFINE n == StoreBytes(m, 4 * k + off, y, SizeOf[sz])
           d == StoreBytes(Window(m, k), off, y, SizeOf[sz])
<1>1. off \in 0 .. 3 /\ SizeOf[sz] \in {1, 2, 4} /\ off + SizeOf[sz] <= 4
  BY DEF Accesses, SizeOf
<1>2. DOMAIN m = 0 .. (4 * MEM_WORDS - 1) /\ MEM_WORDS \in Nat
  BY MemAssumption DEF Memory
<1> DEFINE In(x) == x \in (4 * k + off) .. ((4 * k + off) + SizeOf[sz] - 1)
           Byte(e) == (y \div 2^(BYTE * e)) % 2^BYTE
           Val(x) == Byte(x - (4 * k + off))
<1>3. \A x \in DOMAIN m : n[x] = IF In(x) THEN Val(x) ELSE m[x]
  BY DEF StoreBytes
<1>4. ASSUME NEW i \in WordIdx, NEW j \in 0 .. 3
      PROVE  4 * i + j \in DOMAIN m /\ (i # k => ~In(4 * i + j))
  BY <1>1, <1>2 DEF WordIdx
<1>5. ASSUME NEW j \in 0 .. 3 PROVE n[4 * k + j] = d[j]
  <2>1. d[j] = IF j \in off .. (off + SizeOf[sz] - 1)
               THEN Byte(j - off) ELSE m[4 * k + j]
    BY DEF StoreBytes, Window
  <2>2. In(4 * k + j) <=> j \in off .. (off + SizeOf[sz] - 1)
    BY <1>1 DEF WordIdx
  <2>3. Val(4 * k + j) = Byte(j - off)
    <3>1. 4 * k + j - (4 * k + off) = j - off /\ k \in Int
      BY <1>1 DEF WordIdx
    <3> HIDE DEF Byte, n, d, In
    <3>2. QED
      BY <1>1, <3>1, SMT
  <2> HIDE DEF n, d, In, Val
  <2>4. QED
    BY <1>3, <1>4, <2>1, <2>2, <2>3
<1>6. ASSUME NEW i \in WordIdx \ {k} PROVE Window(n, i) = Window(m, i)
  <2> HIDE DEF n, In, Val
  <2>1. QED
    BY <1>3, <1>4 DEF Window
<1>7. Window(n, k) = d
  <2>1. d = [j \in 0 .. 3 |-> d[j]]
    BY DEF StoreBytes, Window
  <2> HIDE DEF n, d
  <2>2. QED
    BY <1>5, <2>1 DEF Window
<1>8. DOMAIN n = DOMAIN m
  BY DEF StoreBytes
<1>9. QED
  BY <1>2, <1>6, <1>7, <1>8

(* Loading an image and reading a word back gives the word of the image.   *)
LEMMA ImageWords ==
  ASSUME NEW image \in Images
  PROVE  /\ ImageBytes(image) \in Memory
         /\ \A k \in WordIdx : /\ image[k] \in RtlWord
                               /\ LoadBytes(ImageBytes(image), 4 * k, 4) = image[k]
<1> DEFINE m == ImageBytes(image)
           Byte(w, e) == (w \div 2^(BYTE * e)) % 2^BYTE
<1>1. image \in [WordIdx -> RtlWord] /\ MEM_WORDS \in Nat
  BY MemAssumption DEF WordIdx
<1>2. \A x \in 0 .. (4 * MEM_WORDS - 1) : m[x] = Byte(image[x \div 4], x % 4)
  BY DEF ImageBytes
<1>3. ASSUME NEW w \in RtlWord, NEW e \in 0 .. 3 PROVE Byte(w, e) = BytesOf(w)[e]
  BY DEF BytesOf
<1>4. ASSUME NEW x \in 0 .. (4 * MEM_WORDS - 1) PROVE m[x] \in Bytes
  <2>1. x \div 4 \in WordIdx /\ x % 4 \in 0 .. 3
    BY <1>1 DEF WordIdx
  <2>2. BytesOf(image[x \div 4]) \in Digits
    BY <1>1, <2>1, WordDigits
  <2>3. QED
    BY <1>1, <1>2, <1>3, <2>1, <2>2 DEF Digits
<1>5. m \in Memory
  BY <1>4 DEF Memory, ImageBytes
<1>6. ASSUME NEW k \in WordIdx PROVE LoadBytes(m, 4 * k, 4) = image[k]
  <2>1. ASSUME NEW j \in 0 .. 3 PROVE m[4 * k + j] = BytesOf(image[k])[j]
    <3>1. 4 * k + j \in 0 .. (4 * MEM_WORDS - 1) /\ (4 * k + j) \div 4 = k /\ (4 * k + j) % 4 = j
      BY <1>1 DEF WordIdx
    <3> HIDE DEF m, Byte
    <3>2. m[4 * k + j] = Byte(image[k], j)
      BY <1>2, <3>1
    <3>3. QED
      BY <1>1, <1>3, <3>2
  <2>2. BytesOf(image[k]) = [j \in 0 .. 3 |-> BytesOf(image[k])[j]]
    BY DEF BytesOf
  <2>3. Window(m, k) = BytesOf(image[k])
    <3> HIDE DEF m
    <3>1. QED
      BY <2>1, <2>2 DEF Window
  <2>4. BytesOf(image[k]) \in Digits /\ Number(BytesOf(image[k])) = image[k]
    BY <1>1, WordDigits
  <2>5. k \in Int
    BY <1>1 DEF WordIdx
  <2>6. QED
    BY <2>3, <2>4, <2>5, WindowWord
<1>7. QED
  BY <1>1, <1>5, <1>6

(***************************************************************************)
(* The invariant: where the core keeps what, and equal states with the     *)
(* instructions that were not stored to where the emulator fetches them.   *)
(***************************************************************************)
CodeAgrees == \A k \in IMemIdx \ stored : imem[k] = InstOf(LoadBytes(mem, 4 * k, 4))

LockInv ==
  /\ EmuInv
  /\ mem \in Memory
  /\ tohost_addr = TOHOST_ADDR /\ trap_on_ecall = FALSE
  /\ imem \in [IMemIdx -> Inst] /\ dmem \in [DMemIdx -> RtlWord]
  /\ rtl_pc \in RtlWord /\ rtl_regs \in [XReg -> RtlWord]
  /\ shared /\ stored \cap fetched = {} => SameState /\ CodeAgrees

LEMMA Sizes4 ==
  /\ MEM_WORDS \in Nat /\ IMEM_WORDS \in Nat /\ DMEM_WORDS \in Nat
  /\ IMemIdx \subseteq WordIdx /\ DMemIdx \subseteq WordIdx
BY MemAssumption, BenchAssumption, DatapathAssumption DEF WordIdx

LEMMA MemoryOK ==
  ASSUME NEW m \in Memory
  PROVE  MemOK(m)
<1>1. 0 \in Int /\ 4 * MEM_WORDS - 1 \in Int
  BY MemAssumption
<1>2. QED
  BY <1>1 DEF MemOK, Memory

LEMMA LockInit ==
  ASSUME LInit
  PROVE  LockInv
<1>1. PICK image \in Images :
        /\ PowerOn(ImageBytes(image), 0, TOHOST_ADDR, FALSE)
        /\ imem = [k \in IMemIdx |-> InstOf(image[k])]
        /\ dmem = [k \in DMemIdx |-> image[k]]
        /\ rtl_pc = PC_RESET
        /\ rtl_regs = [x \in XReg |-> Zero]
        /\ cause = "HC_NONE"
        /\ rtl_tohost = Zero
        /\ fetched = {} /\ stored = {} /\ shared = TRUE
  BY DEF LInit
<1>2. /\ ImageBytes(image) \in Memory
      /\ \A k \in WordIdx : /\ image[k] \in RtlWord
                            /\ LoadBytes(ImageBytes(image), 4 * k, 4) = image[k]
  BY ImageWords
<1>3. 0 \in RtlWord
  BY WordSizes DEF RtlWord
<1>4. EmuInv
  BY <1>1, <1>2, <1>3, MemoryOK, PowerOnOK
<1>5. /\ mem = ImageBytes(image) /\ tohost_addr = TOHOST_ADDR /\ trap_on_ecall = FALSE
      /\ regs = [x \in Reg |-> 0] /\ pc = 0 /\ halted = FALSE /\ trap = "none" /\ steps = 0
  BY <1>1 DEF PowerOn
<1>6. dmem \in [DMemIdx -> RtlWord] /\ \A k \in DMemIdx : dmem[k] = LoadBytes(mem, 4 * k, 4)
  BY <1>1, <1>2, <1>5, Sizes4
<1>7. rtl_regs \in [XReg -> RtlWord] /\ \A x \in XReg : regs[x] = rtl_regs[x]
  BY <1>1, <1>3, <1>5, DatapathAssumption DEF XReg
<1>8. CodeAgrees /\ imem \in [IMemIdx -> Inst] /\ rtl_pc \in RtlWord
  <2>1. CodeAgrees /\ rtl_pc \in RtlWord
    BY <1>1, <1>2, <1>3, <1>5, Sizes4, BenchAssumption DEF CodeAgrees
  <2>2. \A k \in IMemIdx : InstOf(image[k]) \in Inst
    BY <1>2, Sizes4, FieldsAssumption, DatapathAssumption DEF Inst
  <2>3. QED
    BY <1>1, <2>1, <2>2
<1>9. CauseOf(RunResult) = "HC_NONE"
  BY <1>5 DEF CauseOf, RunResult
<1>10. SameState
  BY <1>1, <1>5, <1>6, <1>7, <1>9, BenchAssumption DEF SameState
<1>11. QED
  BY <1>2, <1>4, <1>5, <1>6, <1>7, <1>8, <1>10 DEF LockInv

(***************************************************************************)
(* The instance of Isa computes with the units of this module.             *)
(***************************************************************************)
LEMMA RtlDecodes ==
  ASSUME NEW i
  PROVE  Rtl!Decode(i) = Decode(i) /\ Rtl!IdHc(i) = IdHc(i)
<1>1. /\ Rtl!IsLoad(i) = IsLoad(i) /\ Rtl!IsStore(i) = IsStore(i)
      /\ Rtl!IsIllegal(i) = IsIllegal(i)
  BY DEF Rtl!IsLoad, IsLoad, Rtl!IsStore, IsStore, Rtl!IsIllegal, IsIllegal,
         Rtl!LoadF3, LoadF3, Rtl!StoreF3, StoreF3, Rtl!BranchF3, BranchF3
<1>2. Rtl!BranchKind(i) = BranchKind(i)
  BY DEF Rtl!BranchKind, BranchKind
<1>3. Rtl!AccessSize(i) = AccessSize(i)
  BY <1>1 DEF Rtl!AccessSize, AccessSize
<1>4. Rtl!ArithOp(i) = ArithOp(i)
  BY DEF Rtl!ArithOp, ArithOp, Rtl!F3_ADD_SUB, Rtl!F3_SLL, Rtl!F3_SLT, Rtl!F3_SLTU,
         Rtl!F3_XOR, Rtl!F3_SR, Rtl!F3_OR, F3_ADD_SUB, F3_SLL, F3_SLT, F3_SLTU, F3_XOR,
         F3_SR, F3_OR
<1>5. Rtl!Decode(i) = Decode(i)
  BY <1>1, <1>2, <1>3, <1>4 DEF Rtl!Decode, Decode
<1>6. Rtl!IdHc(i) = IdHc(i)
  BY <1>5 DEF Rtl!IdHc, IdHc, Rtl!IsSystem, IsSystem
<1>7. QED
  BY <1>5, <1>6

LEMMA RtlUnits ==
  ASSUME NEW x, NEW y, NEW z, NEW u, NEW v
  PROVE  /\ Rtl!NextPc(x, y, z, u, v) = NextPc(x, y, z, u, v)
         /\ Rtl!AluY(x, y, z, u, v) = AluY(x, y, z, u, v)
         /\ Rtl!RegRead(x, y) = RegRead(x, y)
         /\ Rtl!RegWrite(x, y, z, u) = RegWrite(x, y, z, u)
         /\ Rtl!MemRead(x, y, z) = MemRead(x, y, z)
         /\ Rtl!MemWrite(x, y, z, u, v) = MemWrite(x, y, z, u, v)
         /\ Rtl!Misaligned(x, y, z, u) <=> Misaligned(x, y, z, u)
         /\ Rtl!IsTohost(x) <=> IsTohost(x)
         /\ Rtl!WbData(x, y, z, u) = WbData(x, y, z, u)
<1>1. /\ Rtl!NextPc(x, y, z, u, v) = NextPc(x, y, z, u, v)
      /\ Rtl!AluY(x, y, z, u, v) = AluY(x, y, z, u, v)
  BY DEF Rtl!NextPc, NextPc, Rtl!Taken, Taken, Rtl!Target, Target, Rtl!CondOp, CondOp,
         Rtl!AluY, AluY
<1>2. /\ Rtl!RegRead(x, y) = RegRead(x, y)
      /\ Rtl!RegWrite(x, y, z, u) = RegWrite(x, y, z, u)
      /\ Rtl!WbData(x, y, z, u) = WbData(x, y, z, u)
  BY DEF Rtl!RegRead, RegRead, Rtl!RegWrite, RegWrite, Rtl!WbData, WbData, Rtl!XReg,
         Rtl!Reg, XReg, Reg
<1>3. /\ Rtl!MemRead(x, y, z) = MemRead(x, y, z)
      /\ Rtl!MemWrite(x, y, z, u, v) = MemWrite(x, y, z, u, v)
      /\ Rtl!Misaligned(x, y, z, u) <=> Misaligned(x, y, z, u)
      /\ Rtl!IsTohost(x) <=> IsTohost(x)
  BY DEF Rtl!MemRead, MemRead, Rtl!MemWrite, MemWrite, Rtl!Misaligned, Misaligned,
         Rtl!IsTohost, IsTohost, Rtl!IsMmio, IsMmio
<1>4. QED
  BY <1>1, <1>2, <1>3

(***************************************************************************)
(* One instruction on both sides.                                          *)
(***************************************************************************)
Together ==
  /\ LockInv /\ SameState /\ CodeAgrees
  /\ Running /\ OneMeaning
  /\ pc \div 4 \notin stored

LEMMA Fetches ==
  ASSUME Together
  PROVE  /\ rtl_pc = pc /\ pc \in RtlWord /\ FetchTrap = "none"
         /\ Rtl!inst = inst /\ inst \in Inst /\ inst.imm \in RtlWord
         /\ rs1_val \in RtlWord /\ rs2_val \in RtlWord
         /\ Rtl!rs1v = rs1_val /\ Rtl!rs2v = rs2_val
<1>1. /\ rtl_pc = pc /\ pc \in RtlWord /\ FetchTrap = "none" /\ mem \in Memory /\ EmuInv
  BY DEF Together, LockInv, SameState, OneMeaning, EmuInv, EmuTypeOK
<1>2. pc % 4 = 0 /\ pc \in Nat
  BY <1>1, WordSizes DEF FetchTrap, RtlWord
<1>3. pc \div 4 \in IMemIdx /\ pc \div 4 \in WordIdx /\ pc \div 4 \in Int /\ pc = 4 * (pc \div 4)
  BY <1>2, Sizes4 DEF Together, OneMeaning
<1>4. ImemIdx(rtl_pc) = pc \div 4
  <2>1. ImemIdx(rtl_pc) = (pc \div 4) % IMEM_WORDS
    BY <1>1, DatapathAssumption DEF RtlImemIdx
  <2>2. pc \div 4 \in 0 .. (IMEM_WORDS - 1)
    BY <1>3, DatapathAssumption
  <2>3. QED
    BY <2>1, <2>2, Sizes4
<1>5. Rtl!inst = inst
  BY <1>3, <1>4 DEF Rtl!inst, inst, Together, CodeAgrees
<1>6. LoadBytes(mem, pc, 4) \in RtlWord
  BY <1>1, <1>3, WindowType, WindowWord
<1>7. inst \in Inst /\ inst.imm \in RtlWord /\ inst.rs1 \in Reg /\ inst.rs2 \in Reg
  BY <1>6, FieldsAssumption, DatapathAssumption DEF inst, Inst
<1>8. rs1_val \in RtlWord /\ rs2_val \in RtlWord
  BY <1>1, FieldTypes
<1>9. ASSUME NEW x \in Reg PROVE RegRead(rtl_regs, x) = r(x)
  BY DatapathAssumption DEF RegRead, r, XReg, Together, SameState
<1>10. Rtl!rs1v = rs1_val /\ Rtl!rs2v = rs2_val
  BY <1>5, <1>7, <1>9, RtlUnits DEF Rtl!rs1v, Rtl!rs2v, rs1_val, rs2_val
<1>11. QED
  BY <1>1, <1>5, <1>7, <1>8, <1>10

(* An address, a target and the sum of AUIPC are computed alike.           *)
LEMMA SumAgrees ==
  ASSUME NEW x \in RtlWord, NEW y \in RtlWord
  PROVE  Alu("ALU_ADD", x, y) = u32(x + s32(y)) /\ Alu("ALU_ADD", x, y) \in RtlWord
<1>1. Alu("ALU_ADD", x, y) = RtlAlu("ALU_ADD", x, y)
  BY DatapathAssumption DEF AluOp
<1>2. RtlAlu("ALU_ADD", x, y) = Wrap(x + y)
  BY DEF RtlAlu
<1>3. x + s32(y) \in Int
  BY SignedWord
<1>4. QED
  BY <1>1, <1>2, <1>3, SumOfSigned, Masks

(* Clearing bit 0 before or after the wrap is the same.                    *)
LEMMA ClearAgrees ==
  ASSUME NEW n \in Int
  PROVE  u32(n - (n % 2)) = RtlClearBit0(u32(n))
<1> DEFINE M == 2^XLEN
           H == 2^(XLEN - 1)
           q == n \div M
           u == n % M
<1>1. M \in Nat \ {0} /\ H \in Nat \ {0} /\ M = 2 * H
  BY WordSizes
<1> HIDE DEF M, H
<1>2. q \in Int /\ u \in 0 .. (M - 1) /\ n = M * q + u
  <2>1. M \in Int /\ M > 0
    BY <1>1
  <2>2. QED
    BY <2>1, SMT
<1> HIDE DEF q, u
<1>3. n = 2 * (H * q) + u /\ H * q \in Int
  BY <1>1, <1>2, SMT
<1>4. n % 2 = u % 2
  <2> DEFINE t == H * q
  <2>1. t \in Int /\ n = 2 * t + u /\ u \in Int
    BY <1>1, <1>2, <1>3
  <2> HIDE DEF t
  <2>2. QED
    BY <2>1, SMT
<1>5. n - (n % 2) = M * q + (u - (u % 2)) /\ u - (u % 2) \in 0 .. (M - 1) /\ n - (n % 2) \in Int
  <2> DEFINE t == M * q
  <2>1. t \in Int /\ n = t + u
    BY <1>1, <1>2, SMT
  <2> HIDE DEF t
  <2>2. n - (n % 2) = t + (u - (u % 2)) /\ u - (u % 2) \in 0 .. (M - 1) /\ n - (n % 2) \in Int
    BY <1>1, <1>2, <1>4, <2>1, SMT
  <2>3. QED
    BY <2>2 DEF t
<1>6. (n - (n % 2)) % M = u - (u % 2)
  <2> DEFINE t == n - (n % 2)
             w == u - (u % 2)
  <2>1. t \in Int /\ w \in 0 .. (M - 1) /\ t = M * q + w
    BY <1>5
  <2>2. M \in Nat \ {0} /\ q \in Int
    BY <1>1, <1>2
  <2> HIDE DEF t, w
  <2>3. t % M = w
    BY <2>1, <2>2, DivMod, SMT
  <2>4. QED
    BY <2>3 DEF t, w
<1>7. QED
  BY <1>6 DEF u32, RtlClearBit0, M, u

(* The address of a load or store, and where it falls.                     *)
LEMMA AddressAgrees ==
  ASSUME Together
  PROVE  /\ data_addr \in RtlWord /\ data_addr \in Nat
         /\ inst.op \in {"OP_LOAD", "OP_STORE"} =>
              AluY(Decode(inst), pc, inst.imm, rs1_val, rs2_val) = data_addr
<1>1. /\ inst.imm \in RtlWord /\ rs1_val \in RtlWord
  BY Fetches
<1>2. Alu("ALU_ADD", rs1_val, inst.imm) = data_addr /\ data_addr \in RtlWord
  BY <1>1, SumAgrees DEF data_addr, imm
<1>3. ASSUME inst.op \in {"OP_LOAD", "OP_STORE"}
      PROVE  /\ Decode(inst).alu_op = "ALU_ADD" /\ Decode(inst).alu_src_a = "ALU_A_RS1"
             /\ Decode(inst).alu_src_b = "ALU_B_IMM"
  BY <1>3 DEF Decode
<1>4. data_addr \in Nat
  BY <1>2, WordSizes DEF RtlWord
<1>5. QED
  BY <1>2, <1>3, <1>4 DEF AluY

LEMMA AccessAgrees ==
  ASSUME Together, IsLoad(inst) \/ IsStore(inst)
  PROVE  LET sz == AccessSize(inst) IN
         /\ sz \in MemSize /\ SizeOf[sz] = data_size
         /\ ByteOff(data_addr) = data_addr % 4
         /\ Unaligned(sz, ByteOff(data_addr)) <=> SizeMisaligned(data_addr, data_size)
         /\ ~SizeMisaligned(data_addr, data_size) => <<sz, data_addr % 4>> \in Accesses
         /\ IsMmio(data_addr) => ~SizeMisaligned(data_addr, data_size) /\ ~InDmem(data_addr)
<1> DEFINE sz == AccessSize(inst)
           off == data_addr % 4
<1>1. data_addr \in Nat /\ data_addr \in RtlWord /\ inst.f3 \in Funct3
  BY AddressAgrees, Fetches DEF Inst
<1>2. off \in 0 .. 3
  BY <1>1
<1>3. /\ sz \in MemSize /\ SizeOf[sz] = data_size /\ data_size \in {1, 2, 4}
  BY <1>1 DEF AccessSize, SizeOf, data_size, IsLoad, IsStore, LoadF3, StoreF3, MemSize
<1>4. ByteOff(data_addr) = off
  BY <1>1, DatapathAssumption DEF RtlByteOff
<1>5. SizeMisaligned(off, data_size) <=> SizeMisaligned(data_addr, data_size)
  BY <1>1, <1>3 DEF SizeMisaligned
<1>6. Unaligned(sz, off) <=> RtlUnaligned(sz, off)
  BY <1>2, <1>3, DatapathAssumption
<1>7. /\ SizeMisaligned(off, SizeOf[sz]) = RtlUnaligned(sz, off)
      /\ ~RtlUnaligned(sz, off) => <<sz, off>> \in Accesses
  BY <1>2, <1>3, AlignmentAgrees
<1>8. ASSUME IsMmio(data_addr)
      PROVE  ~SizeMisaligned(data_addr, data_size) /\ ~InDmem(data_addr)
  <2>1. data_addr % 4 = 0 /\ data_addr \div 4 \notin DMemIdx
    BY <1>8, BenchAssumption DEF IsMmio
  <2>2. QED
    BY <1>1, <2>1 DEF SizeMisaligned, InDmem
<1> HIDE DEF sz, off
<1>9. QED
  BY <1>3, <1>4, <1>5, <1>6, <1>7, <1>8 DEF sz, off

LEMMA InDmemIsInRange ==
  ASSUME Together, IsLoad(inst) \/ IsStore(inst), InDmem(data_addr),
         ~SizeMisaligned(data_addr, data_size)
  PROVE  /\ InRange(data_addr, data_size)
         /\ DmemIdx(data_addr) = data_addr \div 4
         /\ data_addr = 4 * (data_addr \div 4) + (data_addr % 4)
<1>1. data_addr \in Nat /\ data_addr \in RtlWord /\ data_addr \div 4 \in DMemIdx
  BY AddressAgrees DEF InDmem
<1>2. data_addr = 4 * (data_addr \div 4) + (data_addr % 4) /\ data_addr \div 4 \in Int
  BY <1>1
<1>3. DmemIdx(data_addr) = data_addr \div 4
  <2>1. DmemIdx(data_addr) = (data_addr \div 4) % DMEM_WORDS
    BY <1>1, DatapathAssumption DEF RtlDmemIdx
  <2>2. data_addr \div 4 \in 0 .. (DMEM_WORDS - 1)
    BY <1>1, DatapathAssumption
  <2>3. QED
    BY <2>1, <2>2, Sizes4
<1>4. SizeOf[AccessSize(inst)] = data_size /\ <<AccessSize(inst), data_addr % 4>> \in Accesses
  BY AccessAgrees
<1>5. data_size \in {1, 2, 4} /\ (data_addr % 4) + data_size <= 4
  BY <1>4 DEF Accesses, SizeOf
<1>6. DOMAIN mem = 0 .. (4 * MEM_WORDS - 1)
  BY DEF Together, LockInv, Memory
<1>7. data_addr \div 4 \in 0 .. (MEM_WORDS - 1) /\ MEM_WORDS \in Nat
  BY <1>1, Sizes4 DEF WordIdx
<1>8. data_addr \in 0 .. (4 * MEM_WORDS - 1) /\ data_addr + data_size - 1 \in 0 .. (4 * MEM_WORDS - 1)
  <2> DEFINE q == data_addr \div 4
             e == data_addr % 4
  <2>1. data_addr = 4 * q + e /\ q \in 0 .. (MEM_WORDS - 1) /\ e \in 0 .. 3 /\ e + data_size <= 4
    BY <1>1, <1>2, <1>5, <1>7
  <2> HIDE DEF q, e
  <2>2. QED
    BY <1>1, <1>5, <1>7, <2>1
<1>9. QED
  BY <1>2, <1>3, <1>6, <1>8 DEF InRange

(* The two sides stop at the same instructions, for the same reason.       *)
Stops ==
  IF Raised # "none" THEN CauseOf(Raised)
  ELSE IF inst.op = "OP_STORE" /\ data_addr = TOHOST_ADDR THEN "HC_TOHOST"
  ELSE IF inst.op = "OP_SYSTEM"
       THEN IF inst.f12 = "F12_ECALL" THEN "HC_ECALL" ELSE "HC_EBREAK"
  ELSE "HC_NONE"

LEMMA HaltAgrees ==
  ASSUME Together
  PROVE  /\ Raised \in {"none", "illegal", "misaligned-load", "misaligned-store"}
         /\ Rtl!HaltOf = Stops
<1> DEFINE c == Decode(inst)
           y == AluY(c, pc, inst.imm, rs1_val, rs2_val)
<1>1. /\ FetchTrap = "none" /\ inst \in Inst /\ rtl_pc = pc /\ Rtl!inst = inst
      /\ Rtl!rs1v = rs1_val /\ Rtl!rs2v = rs2_val
  BY Fetches
<1>2. Rtl!ctrl = c /\ Rtl!alu_y = y
  BY <1>1, RtlDecodes, RtlUnits DEF Rtl!ctrl, Rtl!alu_y
<1>3. /\ c.mem_read = IsLoad(inst) /\ c.mem_write = IsStore(inst)
      /\ c.mem_size = AccessSize(inst) /\ c.illegal = IsIllegal(inst)
  BY DEF Decode
<1>4. Rtl!HaltOf = IF Misaligned(IsLoad(inst), IsStore(inst), AccessSize(inst), y)
                   THEN "HC_MISALIGNED"
                   ELSE IF IsStore(inst) /\ IsTohost(y) THEN "HC_TOHOST" ELSE IdHc(inst)
  BY <1>1, <1>2, <1>3, RtlDecodes, RtlUnits DEF Rtl!HaltOf
<1> HIDE DEF c, y
<1>5. CASE inst.op = "OP_LOAD"
  <2>1. y = data_addr
    BY <1>5, AddressAgrees DEF y, c
  <2>2. CASE inst.f3 \notin F3Load
    <3>1. Raised = "illegal"
      BY <1>1, <1>5, <2>2 DEF Raised
    <3>2. ~IsLoad(inst) /\ ~IsStore(inst) /\ IdHc(inst) = "HC_ILLEGAL"
      BY <1>5, <2>2, <1>3 DEF IsLoad, IsStore, IdHc, IsIllegal, LoadF3, F3Load, c
    <3>3. QED
      BY <1>4, <3>1, <3>2 DEF Misaligned, Stops, CauseOf
  <2>3. CASE inst.f3 \in F3Load
    <3>1. IsLoad(inst) /\ ~IsStore(inst) /\ IdHc(inst) = "HC_NONE"
      BY <1>5, <2>3, <1>3 DEF IsLoad, IsStore, IdHc, IsIllegal, IsSystem, LoadF3, F3Load, c
    <3>2. Raised = LoadTrap(data_addr, data_size)
      BY <1>1, <1>5, <2>3 DEF Raised
    <3>3. Misaligned(TRUE, FALSE, AccessSize(inst), data_addr)
            <=> SizeMisaligned(data_addr, data_size)
      BY <3>1, AccessAgrees DEF Misaligned
    <3>4. CASE SizeMisaligned(data_addr, data_size)
      <4>1. Raised = "misaligned-load"
        BY <3>2, <3>4 DEF LoadTrap
      <4>2. QED
        BY <1>4, <2>1, <3>1, <3>3, <3>4, <4>1 DEF Misaligned, Stops, CauseOf
    <3>5. CASE ~SizeMisaligned(data_addr, data_size)
      <4>1. InDmem(data_addr)
        BY <1>5, <2>3, <3>5 DEF Together, OneMeaning, LoadInBounds
      <4>2. Raised = "none"
        BY <3>1, <3>2, <3>5, <4>1, InDmemIsInRange DEF LoadTrap
      <4>3. QED
        BY <1>4, <1>5, <2>1, <3>1, <3>3, <3>5, <4>2 DEF Misaligned, Stops
    <3>6. QED
      BY <3>4, <3>5
  <2>4. QED
    BY <2>2, <2>3
<1>6. CASE inst.op = "OP_STORE"
  <2>1. y = data_addr
    BY <1>6, AddressAgrees DEF y, c
  <2>2. CASE inst.f3 \notin F3Store
    <3>1. Raised = "illegal"
      BY <1>1, <1>6, <2>2 DEF Raised
    <3>2. ~IsLoad(inst) /\ ~IsStore(inst) /\ IdHc(inst) = "HC_ILLEGAL"
      BY <1>6, <2>2, <1>3 DEF IsLoad, IsStore, IdHc, IsIllegal, StoreF3, F3Store, c
    <3>3. QED
      BY <1>4, <3>1, <3>2 DEF Misaligned, Stops, CauseOf
  <2>3. CASE inst.f3 \in F3Store
    <3>1. ~IsLoad(inst) /\ IsStore(inst) /\ IdHc(inst) = "HC_NONE"
      BY <1>6, <2>3, <1>3 DEF IsLoad, IsStore, IdHc, IsIllegal, IsSystem, StoreF3, F3Store, c
    <3>2. Raised = StoreTrap(data_addr, data_size) /\ tohost_addr = TOHOST_ADDR
      BY <1>1, <1>6, <2>3 DEF Raised, Together, LockInv
    <3>3. /\ Misaligned(FALSE, TRUE, AccessSize(inst), data_addr)
               <=> SizeMisaligned(data_addr, data_size)
          /\ data_addr = TOHOST_ADDR => ~SizeMisaligned(data_addr, data_size)
      BY <3>1, AccessAgrees DEF Misaligned, IsMmio
    <3>4. CASE data_addr = TOHOST_ADDR
      <4>1. Raised = "none"
        BY <3>2, <3>4 DEF StoreTrap
      <4>2. QED
        BY <1>4, <1>6, <2>1, <3>1, <3>3, <3>4, <4>1 DEF Misaligned, IsTohost, Stops
    <3>5. CASE data_addr # TOHOST_ADDR /\ SizeMisaligned(data_addr, data_size)
      <4>1. Raised = "misaligned-store"
        BY <3>2, <3>5 DEF StoreTrap
      <4>2. QED
        BY <1>4, <2>1, <3>1, <3>3, <3>5, <4>1 DEF Misaligned, Stops, CauseOf
    <3>6. CASE data_addr # TOHOST_ADDR /\ ~SizeMisaligned(data_addr, data_size)
      <4>1. InDmem(data_addr)
        BY <1>6, <2>3, <3>2, <3>6 DEF Together, OneMeaning, StoreInBounds
      <4>2. Raised = "none"
        BY <3>1, <3>2, <3>6, <4>1, InDmemIsInRange DEF StoreTrap
      <4>3. QED
        BY <1>4, <1>6, <2>1, <3>1, <3>3, <3>6, <4>2 DEF Misaligned, IsTohost, Stops
    <3>7. QED
      BY <3>4, <3>5, <3>6
  <2>4. QED
    BY <2>2, <2>3
<1>7. CASE inst.op \notin {"OP_LOAD", "OP_STORE"}
  <2>1. Rtl!HaltOf = IdHc(inst)
    BY <1>4, <1>7 DEF IsLoad, IsStore, Misaligned
  <2>2. inst.op \in Opcode /\ inst.f3 \in Funct3 /\ inst.f7 \in Funct7 /\ inst.f12 \in Funct12
    BY <1>1 DEF Inst
  <2>3. Raised # "misaligned-fetch" /\ OneMeaning
    BY DEF Together, OneMeaning
  <2>4. Raised \in {"none", "illegal"}
    BY <1>1, <1>7, <2>2, <2>3 DEF Raised, TargetTrap, IllegalIf, Opcode
  <2>5. CASE inst.op = "OP_SYSTEM"
    <3>1. inst.f3 = 4 \/ (inst.f3 = 0 /\ inst.f12 \in {"F12_ECALL", "F12_EBREAK"})
      BY <2>3, <2>5 DEF OneMeaning
    <3>2. Raised = IF inst.f3 = 4 THEN "illegal" ELSE "none"
      BY <1>1, <2>5, <3>1 DEF Raised, IllegalIf
    <3>3. IdHc(inst) = IF inst.f3 = 4 THEN "HC_ILLEGAL"
                       ELSE IF inst.f12 = "F12_ECALL" THEN "HC_ECALL" ELSE "HC_EBREAK"
      BY <1>3, <2>5, <3>1 DEF IdHc, IsIllegal, IsSystem, c
    <3>4. QED
      BY <2>1, <2>4, <2>5, <3>1, <3>2, <3>3 DEF Stops, CauseOf
  <2>6. CASE inst.op # "OP_SYSTEM"
    <3>1. Raised = IF (inst.op = "OP_BRANCH" /\ inst.f3 \notin F3Branch) \/ inst.op = "OP_OTHER"
                   THEN "illegal" ELSE "none"
      BY <1>1, <1>7, <2>2, <2>3, <2>4, <2>6 DEF Raised, TargetTrap, IllegalIf, Opcode, OneMeaning
    <3>2. IdHc(inst) = IF (inst.op = "OP_BRANCH" /\ inst.f3 \notin F3Branch) \/ inst.op = "OP_OTHER"
                       THEN "HC_ILLEGAL" ELSE "HC_NONE"
      BY <1>3, <1>7, <2>6 DEF IdHc, IsIllegal, IsSystem, c, F3Branch, BranchF3
    <3>3. QED
      BY <1>7, <2>1, <2>4, <2>6, <3>1, <3>2 DEF Stops, CauseOf
  <2>7. QED
    BY <2>5, <2>6
<1>8. QED
  BY <1>5, <1>6, <1>7

(* Where the next instruction is.                                          *)
LEMMA TargetAgrees ==
  ASSUME Together
  PROVE  /\ Plus4(pc) = link /\ link \in RtlWord /\ target \in RtlWord
         /\ Target(Decode(inst), pc, inst.imm, rs1_val) = target
<1>1. /\ pc \in RtlWord /\ inst.imm \in RtlWord /\ rs1_val \in RtlWord /\ FetchTrap = "none"
  BY Fetches
<1>2. link \in RtlWord /\ target \in RtlWord
  BY <1>1, FieldTypes DEF Together, LockInv
<1>3. Plus4(pc) = link
  BY <1>1, DatapathAssumption DEF RtlPlus4, link, u32, Wrap
<1>4. Decode(inst).jalr <=> inst.op = "OP_JALR"
  BY DEF Decode
<1>5. /\ Alu("ALU_ADD", pc, inst.imm) = u32(pc + imm)
      /\ Alu("ALU_ADD", rs1_val, inst.imm) = u32(rs1_val + imm)
      /\ Alu("ALU_ADD", rs1_val, inst.imm) \in RtlWord
  BY <1>1, SumAgrees DEF imm
<1>6. rs1_val + imm \in Int
  BY <1>1, SignedWord DEF imm
<1>7. u32((rs1_val + imm) - ((rs1_val + imm) % 2)) = ClearBit0(u32(rs1_val + imm))
  <2>1. ClearBit0(Alu("ALU_ADD", rs1_val, inst.imm)) = RtlClearBit0(Alu("ALU_ADD", rs1_val, inst.imm))
    BY <1>5, DatapathAssumption
  <2>2. QED
    BY <1>5, <1>6, <2>1, ClearAgrees
<1>8. QED
  BY <1>2, <1>3, <1>4, <1>5, <1>7 DEF Target, target

LEMMA NextPcAgrees ==
  ASSUME Together
  PROVE  NextPc(Decode(inst), pc, inst.imm, rs1_val, rs2_val)
           = IF inst.op \in {"OP_JAL", "OP_JALR"} \/ (inst.op = "OP_BRANCH" /\ taken)
             THEN target ELSE link
<1>1. /\ rs1_val \in RtlWord /\ rs2_val \in RtlWord
  BY Fetches
<1>2. Decode(inst).branch_op = BranchKind(inst)
  BY DEF Decode
<1>3. Taken(BranchKind(inst), rs1_val, rs2_val)
        <=> inst.op \in {"OP_JAL", "OP_JALR"} \/ (inst.op = "OP_BRANCH" /\ taken)
  <2>1. CASE inst.op = "OP_BRANCH" /\ inst.f3 \in F3Branch
    <3> DEFINE kind == BranchKind(inst)
    <3>1. kind = BranchKind([op |-> "OP_BRANCH", f3 |-> inst.f3]) /\ kind \in CondOp
      BY <2>1 DEF BranchKind, CondOp, F3Branch
    <3> HIDE DEF kind
    <3>2. BranchTaken(inst.f3, rs1_val, rs2_val) = RtlCmp(kind, rs1_val, rs2_val)
      BY <1>1, <2>1, <3>1, CmpAgrees
    <3>3. Cmp(kind, rs1_val, rs2_val) = RtlCmp(kind, rs1_val, rs2_val)
      BY <1>1, <3>1, DatapathAssumption
    <3>4. kind # "BR_JUMP"
      BY <3>1 DEF CondOp
    <3>5. QED
      BY <2>1, <3>1, <3>2, <3>3, <3>4 DEF Taken, taken, kind
  <2>2. CASE inst.op = "OP_BRANCH" /\ inst.f3 \notin F3Branch
    <3>1. BranchKind(inst) = "BR_NONE"
      BY <2>2 DEF BranchKind, F3Branch
    <3>2. QED
      BY <2>2, <3>1 DEF Taken, taken, CondOp
  <2>3. CASE inst.op # "OP_BRANCH"
    BY <2>3 DEF BranchKind, Taken, CondOp
  <2>4. QED
    BY <2>1, <2>2, <2>3
<1>4. QED
  BY <1>2, <1>3, TargetAgrees DEF NextPc

(***************************************************************************)
(* What an instruction writes to rd.                                       *)
(***************************************************************************)
RtlValue ==
  LET c == Decode(inst)
      y == AluY(c, pc, inst.imm, rs1_val, rs2_val)
  IN  WbData(c.wb_src, y, MemRead(dmem, c, y), Plus4(pc))

LEMMA UpperAgrees ==
  ASSUME Together, inst.op \in {"OP_LUI", "OP_AUIPC", "OP_JAL", "OP_JALR"}
  PROVE  RtlValue = u32(CASE inst.op = "OP_LUI" -> imm
                          [] inst.op = "OP_AUIPC" -> pc + imm
                          [] OTHER -> link)
<1>1. /\ pc \in RtlWord /\ inst.imm \in RtlWord /\ rs1_val \in RtlWord
  BY Fetches
<1>2. Plus4(pc) = link /\ u32(link) = link
  BY TargetAgrees, Masks
<1>3. CASE inst.op = "OP_LUI"
  <2>1. /\ Decode(inst).wb_src = "WB_ALU" /\ Decode(inst).alu_op = "ALU_PASS_B"
        /\ Decode(inst).alu_src_a = "ALU_A_RS1" /\ Decode(inst).alu_src_b = "ALU_B_IMM"
    BY <1>3 DEF Decode
  <2>2. Alu("ALU_PASS_B", rs1_val, inst.imm) = inst.imm
    BY <1>1, AluAssumption, DatapathAssumption
  <2>3. u32(imm) = inst.imm
    BY <1>1, SignedWord DEF imm
  <2>4. QED
    BY <1>3, <2>1, <2>2, <2>3 DEF RtlValue, AluY, WbData
<1>4. CASE inst.op = "OP_AUIPC"
  <2>1. /\ Decode(inst).wb_src = "WB_ALU" /\ Decode(inst).alu_op = "ALU_ADD"
        /\ Decode(inst).alu_src_a = "ALU_A_PC" /\ Decode(inst).alu_src_b = "ALU_B_IMM"
    BY <1>4 DEF Decode
  <2>2. Alu("ALU_ADD", pc, inst.imm) = u32(pc + imm)
    BY <1>1, SumAgrees DEF imm
  <2>3. QED
    BY <1>4, <2>1, <2>2 DEF RtlValue, AluY, WbData
<1>5. CASE inst.op \in {"OP_JAL", "OP_JALR"}
  <2>1. Decode(inst).wb_src = "WB_PC4"
    BY <1>5 DEF Decode
  <2>2. QED
    BY <1>2, <1>5, <2>1 DEF RtlValue, WbData
<1>6. QED
  BY <1>3, <1>4, <1>5

(* A funct7 without meaning is read as the default where both sides accept *)
(* it.                                                                     *)
LEMMA ArithAgrees ==
  ASSUME WidthIsPower, Together, inst.op \in {"OP_IMM", "OP_REG"}
  PROVE  RtlValue = u32(IF inst.op = "OP_IMM" THEN _alu_imm(inst.f3, inst.f7, rs1_val, imm)
                        ELSE _alu_reg(inst.f3, inst.f7, rs1_val, rs2_val))
<1> DEFINE f7 == IF inst.f7 = "F7_ALT" THEN "F7_ALT" ELSE "F7_DEFAULT"
           op == ArithOp(inst)
<1>1. /\ inst.imm \in RtlWord /\ rs1_val \in RtlWord /\ rs2_val \in RtlWord /\ inst \in Inst
      /\ inst.f3 \in Funct3 /\ inst.f7 \in Funct7
  BY Fetches DEF Inst
<1>2. f7 \in {"F7_DEFAULT", "F7_ALT"}
  OBVIOUS
<1>3. op \in AluOp
  BY <1>1 DEF ArithOp, AluOp, Funct3, F3_ADD_SUB, F3_SLL, F3_SLT, F3_SLTU, F3_XOR,
         F3_SR, F3_OR
<1>4. op = ArithOp([op |-> inst.op, f3 |-> inst.f3, f7 |-> f7])
  BY <1>1 DEF ArithOp, Funct3, Funct7, F3_ADD_SUB, F3_SLL, F3_SLT, F3_SLTU, F3_XOR,
         F3_SR, F3_OR
<1>5. /\ Decode(inst).wb_src = "WB_ALU" /\ Decode(inst).alu_op = op
      /\ Decode(inst).alu_src_a = "ALU_A_RS1"
      /\ Decode(inst).alu_src_b = IF inst.op = "OP_IMM" THEN "ALU_B_IMM" ELSE "ALU_B_RS2"
  BY DEF Decode
<1>6. CASE inst.op = "OP_IMM"
  <2>1. _alu_imm(inst.f3, inst.f7, rs1_val, imm) = _alu_imm(inst.f3, f7, rs1_val, imm)
    <3>1. inst.f3 = F3_SR => inst.f7 # "F7_OTHER"
      BY <1>6 DEF Together, OneMeaning, AluImmIllegal
    <3>2. CASE inst.f7 = "F7_OTHER"
      BY <3>1, <3>2 DEF _alu_imm
    <3>3. CASE inst.f7 # "F7_OTHER"
      BY <1>1, <3>3 DEF Funct7
    <3>4. QED
      BY <3>2, <3>3
  <2>2. _alu_imm(inst.f3, f7, rs1_val, imm)
          = RtlAlu(ArithOp([op |-> "OP_IMM", f3 |-> inst.f3, f7 |-> f7]), rs1_val, inst.imm)
    BY <1>1, <1>2, ImmAgrees DEF imm
  <2> HIDE DEF f7, op
  <2>3. Alu(op, rs1_val, inst.imm) = RtlAlu(op, rs1_val, inst.imm) /\ Alu(op, rs1_val, inst.imm) \in RtlWord
    BY <1>1, <1>3, DatapathAssumption, AluAssumption
  <2>4. RtlValue = Alu(op, rs1_val, inst.imm)
    BY <1>5, <1>6 DEF RtlValue, AluY, WbData
  <2>5. QED
    BY <1>4, <1>6, <2>1, <2>2, <2>3, <2>4, Masks
<1>7. CASE inst.op = "OP_REG"
  <2>1. _alu_reg(inst.f3, inst.f7, rs1_val, rs2_val) = _alu_reg(inst.f3, f7, rs1_val, rs2_val)
    <3>1. inst.f3 \in {F3_ADD_SUB, F3_SR} => inst.f7 # "F7_OTHER"
      BY <1>7 DEF Together, OneMeaning, AluRegIllegal
    <3>2. CASE inst.f7 = "F7_OTHER"
      BY <3>1, <3>2 DEF _alu_reg
    <3>3. CASE inst.f7 # "F7_OTHER"
      BY <1>1, <3>3 DEF Funct7
    <3>4. QED
      BY <3>2, <3>3
  <2>2. _alu_reg(inst.f3, f7, rs1_val, rs2_val)
          = RtlAlu(ArithOp([op |-> "OP_REG", f3 |-> inst.f3, f7 |-> f7]), rs1_val, rs2_val)
    BY <1>1, <1>2, RegAgrees
  <2> HIDE DEF f7, op
  <2>3. Alu(op, rs1_val, rs2_val) = RtlAlu(op, rs1_val, rs2_val) /\ Alu(op, rs1_val, rs2_val) \in RtlWord
    BY <1>1, <1>3, DatapathAssumption, AluAssumption
  <2>4. RtlValue = Alu(op, rs1_val, rs2_val)
    BY <1>5, <1>7 DEF RtlValue, AluY, WbData
  <2>5. QED
    BY <1>4, <1>7, <2>1, <2>2, <2>3, <2>4, Masks
<1>8. QED
  BY <1>6, <1>7

(* A load that does not stop reads the same word on both sides.            *)
LEMMA LoadsAgree ==
  ASSUME Together, inst.op = "OP_LOAD", Raised = "none"
  PROVE  RtlValue = u32(LoadValue(mem, data_addr, data_size, inst.f3 \in {0, 1}))
<1> DEFINE sz == AccessSize(inst)
           off == data_addr % 4
           k == data_addr \div 4
           signed == inst.f3 \in {0, 1}
           x == dmem[k]
<1>1. FetchTrap = "none" /\ inst.f3 \in Funct3
  BY Fetches DEF Inst
<1>2. inst.f3 \in F3Load /\ LoadTrap(data_addr, data_size) = "none"
  BY <1>1 DEF Raised
<1>3. IsLoad(inst) /\ ~SizeMisaligned(data_addr, data_size)
  BY <1>2 DEF IsLoad, F3Load, LoadF3, LoadTrap
<1>4. InDmem(data_addr)
  BY <1>2, <1>3 DEF Together, OneMeaning, LoadInBounds
<1>5. /\ sz \in MemSize /\ SizeOf[sz] = data_size /\ ByteOff(data_addr) = off
      /\ <<sz, off>> \in Accesses /\ ~IsMmio(data_addr)
  BY <1>3, <1>4, AccessAgrees
<1>6. DmemIdx(data_addr) = k /\ data_addr = 4 * k + off
  BY <1>3, <1>4, InDmemIsInRange
<1>7. k \in DMemIdx /\ k \in WordIdx /\ k \in Int /\ mem \in Memory /\ x \in RtlWord
      /\ x = LoadBytes(mem, 4 * k, 4)
  <2>1. k \in DMemIdx
    BY <1>4 DEF InDmem
  <2>2. k \in WordIdx
    BY <2>1, Sizes4
  <2>3. k \in Int
    BY <2>2, Sizes4 DEF WordIdx
  <2>4. QED
    BY <2>1, <2>2, <2>3 DEF Together, LockInv, SameState
<1>8. BytesOf(x) = Window(mem, k)
  BY <1>7, WindowType, WindowWord
<1>9. off \in 0 .. 3
  BY <1>5 DEF Accesses
<1> HIDE DEF sz, off, k, signed, x
<1>10. LoadValue(mem, data_addr, data_size, signed) = LoadValue(BytesOf(x), off, SizeOf[sz], signed)
  BY <1>5, <1>6, <1>7, <1>8, WindowLoad
<1>11. signed \in BOOLEAN
  BY DEF signed
<1>12. LoadValue(BytesOf(x), off, SizeOf[sz], signed) = RtlReadExt(sz, ~signed, off, x)
  BY <1>5, <1>7, <1>11, LoadAgrees
<1>13. RtlReadExt(sz, ~signed, off, x) = RtlReadExt(sz, inst.f3 \in {4, 5}, off, x)
  <2>1. CASE inst.f3 = 2
    <3>1. sz = "MEM_W" /\ ~signed /\ inst.f3 \notin {4, 5}
      BY <1>3, <2>1 DEF sz, AccessSize, signed
    <3>2. Lane(sz, off) = [lo |-> 0, width |-> XLEN]
      BY <3>1 DEF Lane
    <3> DEFINE v == LaneBits([lo |-> 0, width |-> XLEN], x)
               M == 2^XLEN
               S == 2^(XLEN - 1)
    <3>3. M \in Int /\ v \in Int /\ S \in Int
      <4>1. M \in Int /\ S \in Int /\ x \in Int /\ 2^0 = 1
        BY <1>7, WordSizes, SignedWord, PowersOfTwo
      <4>2. v = (x \div 1) % M
        BY <4>1 DEF LaneBits
      <4> HIDE DEF v, M, S
      <4>3. M > 0
        BY WordSizes DEF M
      <4>4. QED
        BY <4>1, <4>2, <4>3
    <3>4. /\ RtlReadExt(sz, TRUE, off, x) = v
          /\ RtlReadExt(sz, FALSE, off, x) = IF v >= S THEN v + M - M ELSE v
      BY <3>2 DEF RtlReadExt
    <3> HIDE DEF v, M, S
    <3>5. v + M - M = v
      BY <3>3
    <3>6. RtlReadExt(sz, TRUE, off, x) = RtlReadExt(sz, FALSE, off, x)
      BY <3>4, <3>5, Zenon
    <3>7. (~signed) = TRUE /\ (inst.f3 \in {4, 5}) = FALSE
      BY <3>1
    <3>8. QED
      BY <3>6, <3>7, Zenon
  <2>2. CASE inst.f3 # 2
    BY <1>2, <2>2 DEF F3Load, signed
  <2>3. QED
    BY <2>1, <2>2
<1>14. /\ ReadExt(sz, inst.f3 \in {4, 5}, off, x) = RtlReadExt(sz, inst.f3 \in {4, 5}, off, x)
       /\ ReadExt(sz, inst.f3 \in {4, 5}, off, x) \in RtlWord
  <2>1. (inst.f3 \in {4, 5}) \in BOOLEAN
    OBVIOUS
  <2> DEFINE un == inst.f3 \in {4, 5}
  <2> HIDE DEF un
  <2>2. ReadExt(sz, un, off, x) = RtlReadExt(sz, un, off, x) /\ ReadExt(sz, un, off, x) \in RtlWord
    BY <1>5, <1>7, <1>9, <2>1, DatapathAssumption, MemoryAssumption DEF un
  <2>3. QED
    BY <2>2 DEF un
<1>15. RtlValue = ReadExt(sz, inst.f3 \in {4, 5}, off, x)
  <2>1. /\ Decode(inst).wb_src = "WB_MEM" /\ Decode(inst).mem_read
        /\ Decode(inst).mem_size = sz /\ Decode(inst).mem_unsigned = (inst.f3 \in {4, 5})
    BY <1>3 DEF Decode, sz
  <2>2. AluY(Decode(inst), pc, inst.imm, rs1_val, rs2_val) = data_addr
    BY AddressAgrees
  <2>3. QED
    BY <1>5, <1>6, <2>1, <2>2 DEF RtlValue, WbData, MemRead, x
<1>16. QED
  BY <1>10, <1>12, <1>13, <1>14, <1>15, Masks DEF signed

(***************************************************************************)
(* The step of the core, in terms of the emulator's registers.             *)
(***************************************************************************)
LEMMA CoreExecutes ==
  ASSUME Together, Rtl!Execute
  PROVE  /\ Stops = "HC_NONE" /\ cause' = "HC_NONE" /\ imem' = imem
         /\ rtl_pc' = NextPc(Decode(inst), pc, inst.imm, rs1_val, rs2_val)
         /\ rtl_regs' = RegWrite(rtl_regs, Decode(inst).reg_write, inst.rd, RtlValue)
         /\ dmem' = MemWrite(dmem, IsStore(inst), AccessSize(inst),
                             AluY(Decode(inst), pc, inst.imm, rs1_val, rs2_val), rs2_val)
<1>1. /\ rtl_pc = pc /\ Rtl!inst = inst /\ Rtl!rs1v = rs1_val /\ Rtl!rs2v = rs2_val
  BY Fetches
<1>2. Rtl!ctrl = Decode(inst) /\ Rtl!alu_y = AluY(Decode(inst), pc, inst.imm, rs1_val, rs2_val)
  BY <1>1, RtlDecodes, RtlUnits DEF Rtl!ctrl, Rtl!alu_y
<1>3. Decode(inst).mem_write = IsStore(inst) /\ Decode(inst).mem_size = AccessSize(inst)
  BY DEF Decode
<1>4. Rtl!HaltOf = "HC_NONE" /\ Rtl!HaltOf = Stops
  BY HaltAgrees DEF Rtl!Execute
<1>5. cause' = "HC_NONE" /\ imem' = imem
  BY DEF Rtl!Execute
<1>6. rtl_pc' = NextPc(Decode(inst), pc, inst.imm, rs1_val, rs2_val)
  BY <1>1, <1>2, RtlUnits DEF Rtl!Execute
<1>7. rtl_regs' = RegWrite(rtl_regs, Decode(inst).reg_write, inst.rd, RtlValue)
  BY <1>1, <1>2, RtlUnits DEF Rtl!Execute, RtlValue
<1>8. dmem' = MemWrite(dmem, IsStore(inst), AccessSize(inst),
                       AluY(Decode(inst), pc, inst.imm, rs1_val, rs2_val), rs2_val)
  BY <1>1, <1>2, <1>3, RtlUnits DEF Rtl!Execute
<1>9. QED
  BY <1>4, <1>5, <1>6, <1>7, <1>8

LEMMA CoreHalts ==
  ASSUME Together, Rtl!Halt
  PROVE  /\ Stops # "HC_NONE" /\ cause' = Stops
         /\ rtl_tohost' = IF Stops = "HC_TOHOST" THEN rs2_val ELSE rtl_tohost
         /\ UNCHANGED <<imem, dmem, rtl_pc, rtl_regs>>
<1>1. Rtl!rs2v = rs2_val /\ Rtl!HaltOf = Stops
  BY Fetches, HaltAgrees
<1>2. QED
  BY <1>1 DEF Rtl!Halt

(* Which way a step goes on both sides.                                    *)
LEMMA Goes ==
  ASSUME Together
  PROVE  /\ Executes("OP_SYSTEM") => Stops # "HC_NONE" /\ inst.f3 = 0
         /\ Executes("OP_STORE") =>
              /\ data_addr = tohost_addr => Stops = "HC_TOHOST"
              /\ data_addr # tohost_addr => Stops = "HC_NONE"
         /\ \A op \in Opcode \ {"OP_STORE", "OP_SYSTEM"} : Executes(op) => Stops = "HC_NONE"
         /\ Raised # "none" => Stops = CauseOf(Raised) /\ Stops \in {"HC_ILLEGAL", "HC_MISALIGNED"}
<1>1. Raised \in {"none", "illegal", "misaligned-load", "misaligned-store"}
      /\ tohost_addr = TOHOST_ADDR /\ FetchTrap = "none"
  BY HaltAgrees, Fetches DEF Together, LockInv
<1>2. ASSUME Executes("OP_SYSTEM") PROVE Stops # "HC_NONE" /\ inst.f3 = 0
  <2>1. inst.op = "OP_SYSTEM" /\ Raised = "none" /\ inst.f3 # 4
    BY <1>1, <1>2 DEF Executes, Raised, IllegalIf
  <2>2. QED
    BY <2>1 DEF Stops, Together, OneMeaning
<1>3. ASSUME Executes("OP_STORE")
      PROVE /\ data_addr = tohost_addr => Stops = "HC_TOHOST"
            /\ data_addr # tohost_addr => Stops = "HC_NONE"
  BY <1>1, <1>3 DEF Executes, Stops
<1>4. ASSUME NEW op \in Opcode \ {"OP_STORE", "OP_SYSTEM"}, Executes(op)
      PROVE Stops = "HC_NONE"
  BY <1>4 DEF Executes, Stops
<1>5. ASSUME Raised # "none"
      PROVE Stops = CauseOf(Raised) /\ Stops \in {"HC_ILLEGAL", "HC_MISALIGNED"}
  BY <1>1, <1>5 DEF Stops, CauseOf
<1>6. QED
  BY <1>2, <1>3, <1>4, <1>5

(* An instruction that runs on leaves both sides running, at one address.  *)
LEMMA RunsOn ==
  ASSUME Together, Rtl!Execute, NEW np, NEW mw, Retire(np, mw), KeepsRunning,
         np = NextPc(Decode(inst), pc, inst.imm, rs1_val, rs2_val)
  PROVE  /\ cause' = CauseOf(RunResult)' /\ cause' # "HC_TOHOST"
         /\ pc' = rtl_pc'
<1>1. cause' = "HC_NONE" /\ rtl_pc' = np
  BY CoreExecutes
<1>2. trap' = "none" /\ ~halted' /\ pc' = np
  BY DEF Retire, KeepsRunning, Together, Running
<1>3. RunResult' \in {"step-limit", "running"}
  BY <1>2 DEF RunResult
<1>4. CauseOf(RunResult)' = "HC_NONE"
  BY <1>3 DEF CauseOf
<1>5. QED
  BY <1>1, <1>2, <1>4

(* The register instructions: rd gets one value, memory stays.             *)
LEMMA ComputesAgree ==
  ASSUME Together, Rtl!Execute, NEW op \in WritesRd \ {"OP_SYSTEM"}, NEW value,
         Computes(op, value, NextPc(Decode(inst), pc, inst.imm, rs1_val, rs2_val)),
         RtlValue = u32(value), stored' = stored
  PROVE  SameState' /\ CodeAgrees'
<1>1. /\ inst.op = op /\ Raised = "none" /\ mem' = mem /\ regs' = wr(inst.rd, value)
      /\ FetchTrap = "none"
  BY DEF Computes, Executes
<1>2. op = "OP_LOAD" => inst.f3 \in LoadF3
  BY <1>1 DEF Raised, F3Load, LoadF3
<1>3. Decode(inst).reg_write = TRUE /\ ~IsStore(inst)
  BY <1>1, <1>2 DEF Decode, IsLoad, IsStore, WritesRd
<1>4. /\ rtl_regs' = RegWrite(rtl_regs, TRUE, inst.rd, RtlValue)
      /\ dmem' = dmem /\ imem' = imem
  BY <1>3, CoreExecutes DEF MemWrite
<1>5. ASSUME NEW x \in XReg PROVE regs'[x] = rtl_regs'[x]
  <2>1. regs[x] = rtl_regs[x] /\ regs \in [Reg -> RtlWord]
    BY DEF Together, SameState, LockInv, EmuInv, EmuTypeOK
  <2>2. rtl_regs'[x] = IF inst.rd = x THEN u32(value) ELSE rtl_regs[x]
    BY <1>4 DEF RegWrite
  <2>3. regs'[x] = IF inst.rd = x THEN u32(value) ELSE regs[x]
    BY <1>1, <2>1 DEF wr, XReg
  <2>4. QED
    BY <2>1, <2>2, <2>3
<1>6. \A k \in DMemIdx : dmem'[k] = LoadBytes(mem', 4 * k, 4)
  BY <1>1, <1>4 DEF Together, SameState
<1>7. cause' = CauseOf(RunResult)' /\ cause' # "HC_TOHOST" /\ pc' = rtl_pc'
  BY RunsOn DEF Computes
<1>8. SameState'
  BY <1>5, <1>6, <1>7 DEF SameState
<1>9. CodeAgrees'
  BY <1>1, <1>4 DEF Together, CodeAgrees
<1>10. QED
  BY <1>8, <1>9

(* Branches and fences: only the PC changes.                               *)
LEMMA QuietAgrees ==
  ASSUME Together, Rtl!Execute, Executes(inst.op), inst.op \in {"OP_BRANCH", "OP_FENCE"},
         Retire(NextPc(Decode(inst), pc, inst.imm, rs1_val, rs2_val), NoWrite), KeepsRunning,
         UNCHANGED <<regs, mem, csrs>>, stored' = stored
  PROVE  SameState' /\ CodeAgrees'
<1>1. Decode(inst).reg_write = FALSE /\ ~IsStore(inst)
  BY DEF Decode, IsLoad, IsStore
<1>2. /\ \A x \in XReg : rtl_regs'[x] = rtl_regs[x]
      /\ dmem' = dmem /\ imem' = imem
  BY <1>1, CoreExecutes DEF MemWrite, RegWrite
<1>3. /\ \A x \in XReg : regs'[x] = rtl_regs'[x]
      /\ \A k \in DMemIdx : dmem'[k] = LoadBytes(mem', 4 * k, 4)
  BY <1>2 DEF Together, SameState
<1>4. cause' = CauseOf(RunResult)' /\ cause' # "HC_TOHOST" /\ pc' = rtl_pc'
  BY RunsOn
<1>5. SameState'
  BY <1>3, <1>4 DEF SameState
<1>6. CodeAgrees'
  BY <1>2 DEF Together, CodeAgrees
<1>7. QED
  BY <1>5, <1>6

(* Both sides stop and keep their state.                                   *)
LEMMA StopsAgree ==
  ASSUME Together, Rtl!Halt, UNCHANGED <<regs, mem>>, stored' = stored,
         CauseOf(RunResult)' = Stops, ~Running',
         Stops = "HC_TOHOST" => tohost_value' = <<rs2_val>>
  PROVE  SameState' /\ CodeAgrees'
<1>1. /\ cause' = Stops /\ UNCHANGED <<imem, dmem, rtl_regs>>
      /\ Stops = "HC_TOHOST" => rtl_tohost' = rs2_val
  BY CoreHalts
<1>2. /\ \A x \in XReg : regs'[x] = rtl_regs'[x]
      /\ \A k \in DMemIdx : dmem'[k] = LoadBytes(mem', 4 * k, 4)
  BY <1>1 DEF Together, SameState
<1>3. SameState'
  BY <1>1, <1>2 DEF SameState
<1>4. CodeAgrees'
  BY <1>1 DEF Together, CodeAgrees
<1>5. QED
  BY <1>3, <1>4

(* A store changes one word of both memories, to the same value; if it was *)
(* a word of code, it is now recorded as stored to.                        *)
LEMMA StoresAgree ==
  ASSUME Together, Rtl!Execute, Store, stored' = stored \cup {data_addr \div 4}
  PROVE  SameState' /\ CodeAgrees'
<1> DEFINE sz == AccessSize(inst)
           off == data_addr % 4
           k == data_addr \div 4
           x == dmem[k]
           y == rs2_val
           n == StoreBytes(mem, data_addr, y, data_size)
<1>1. /\ inst.op = "OP_STORE" /\ Raised = "none" /\ data_addr # tohost_addr /\ mem' = n
      /\ regs' = regs
  BY DEF Store, Executes
<1>2. FetchTrap = "none" /\ y \in RtlWord
  BY Fetches
<1>3. inst.f3 \in F3Store /\ StoreTrap(data_addr, data_size) = "none"
  BY <1>1, <1>2 DEF Raised
<1>4. IsStore(inst) /\ ~SizeMisaligned(data_addr, data_size)
  BY <1>1, <1>3 DEF IsStore, F3Store, StoreF3, StoreTrap
<1>5. InDmem(data_addr)
  BY <1>1, <1>3, <1>4 DEF Together, OneMeaning, StoreInBounds
<1>6. /\ sz \in MemSize /\ SizeOf[sz] = data_size /\ ByteOff(data_addr) = off
      /\ <<sz, off>> \in Accesses /\ ~IsMmio(data_addr) /\ ~Unaligned(sz, ByteOff(data_addr))
  BY <1>4, <1>5, AccessAgrees
<1>7. DmemIdx(data_addr) = k /\ data_addr = 4 * k + off
  BY <1>4, <1>5, InDmemIsInRange
<1>8. k \in DMemIdx /\ k \in WordIdx /\ k \in Int /\ mem \in Memory /\ x \in RtlWord
      /\ x = LoadBytes(mem, 4 * k, 4) /\ dmem \in [DMemIdx -> RtlWord]
  <2>1. k \in DMemIdx
    BY <1>5 DEF InDmem
  <2>2. k \in WordIdx
    BY <2>1, Sizes4
  <2>3. k \in Int
    BY <2>2, Sizes4 DEF WordIdx
  <2>4. QED
    BY <2>1, <2>2, <2>3 DEF Together, LockInv, SameState
<1>9. BytesOf(x) = Window(mem, k)
  BY <1>8, WindowType, WindowWord
<1>10. off \in 0 .. 3
  BY <1>6 DEF Accesses
<1> DEFINE z == RtlMergeWord(sz, off, x, y)
<1> HIDE DEF sz, off, k, x, y, n, z
<1>11. z \in RtlWord /\ MergeWord(sz, ByteOff(data_addr), x, y) = z
  <2>1. MergeWord(sz, off, x, y) = RtlMergeWord(sz, off, x, y)
    BY <1>2, <1>6, <1>8, <1>10, DatapathAssumption
  <2>2. MergeWord(sz, off, x, y) \in RtlWord
    BY <1>2, <1>6, <1>8, <1>10, MemoryAssumption, DatapathAssumption
  <2>3. QED
    BY <1>6, <2>1, <2>2 DEF z
<1>12. n = StoreBytes(mem, 4 * k + off, y, SizeOf[sz])
  BY <1>6, <1>7 DEF n
<1>13. /\ Window(n, k) = BytesOf(z)
       /\ \A i \in WordIdx \ {k} : Window(n, i) = Window(mem, i)
  <2>1. StoreBytes(BytesOf(x), off, y, SizeOf[sz]) = BytesOf(z)
    BY <1>2, <1>6, <1>8, StoreAgrees DEF z
  <2>2. /\ Window(n, k) = StoreBytes(Window(mem, k), off, y, SizeOf[sz])
        /\ \A i \in WordIdx \ {k} : Window(n, i) = Window(mem, i)
    BY <1>6, <1>8, <1>12, WindowStore, SMTT(30)
  <2>3. QED
    BY <1>9, <2>1, <2>2
<1>14. LoadBytes(n, 4 * k, 4) = z
  BY <1>8, <1>11, <1>13, WordDigits, WindowWord
<1>15. ASSUME NEW i \in WordIdx \ {k} PROVE LoadBytes(n, 4 * i, 4) = LoadBytes(mem, 4 * i, 4)
  <2>1. i \in Int
    BY Sizes4 DEF WordIdx
  <2>2. Window(mem, i) \in Digits /\ Window(n, i) = Window(mem, i)
    BY <1>8, <1>13, WindowType
  <2>3. QED
    BY <2>1, <2>2, WindowWord
<1>16. /\ dmem' = [dmem EXCEPT ![k] = z] /\ imem' = imem
       /\ \A i \in XReg : rtl_regs'[i] = rtl_regs[i]
  <2>1. AluY(Decode(inst), pc, inst.imm, rs1_val, rs2_val) = data_addr
    BY <1>1, AddressAgrees
  <2>2. dmem' = MemWrite(dmem, IsStore(inst), sz, data_addr, y) /\ imem' = imem
    BY <2>1, CoreExecutes DEF sz, y
  <2>3. dmem' = [dmem EXCEPT ![k] = z]
    BY <1>4, <1>6, <1>7, <1>11, <2>2 DEF MemWrite, x
  <2>4. Decode(inst).reg_write = FALSE
    BY <1>1 DEF Decode, IsLoad
  <2>5. QED
    BY <2>2, <2>3, <2>4, CoreExecutes DEF RegWrite
<1>17. ASSUME NEW i \in DMemIdx PROVE dmem'[i] = LoadBytes(mem', 4 * i, 4)
  <2>1. CASE i = k
    BY <1>1, <1>8, <1>14, <1>16, <2>1
  <2>2. CASE i # k
    <3>1. dmem'[i] = dmem[i] /\ dmem[i] = LoadBytes(mem, 4 * i, 4) /\ i \in WordIdx \ {k}
      BY <1>8, <1>16, <2>2, Sizes4 DEF Together, SameState
    <3>2. QED
      BY <1>1, <1>15, <3>1
  <2>3. QED
    BY <2>1, <2>2
<1>18. link = NextPc(Decode(inst), pc, inst.imm, rs1_val, rs2_val)
  BY <1>1, NextPcAgrees
<1>19. cause' = CauseOf(RunResult)' /\ cause' # "HC_TOHOST" /\ pc' = rtl_pc'
  BY <1>18, RunsOn DEF Store
<1>20. \A i \in XReg : regs'[i] = rtl_regs'[i]
  BY <1>1, <1>16 DEF Together, SameState
<1>21. SameState'
  BY <1>17, <1>19, <1>20 DEF SameState
<1>22. CodeAgrees'
  <2>1. ASSUME NEW i \in IMemIdx \ stored' PROVE imem'[i] = InstOf(LoadBytes(mem', 4 * i, 4))
    <3>1. i \in IMemIdx \ stored /\ i \in WordIdx \ {k}
      BY Sizes4 DEF k
    <3>2. imem[i] = InstOf(LoadBytes(mem, 4 * i, 4))
      BY <3>1 DEF Together, CodeAgrees
    <3>3. LoadBytes(n, 4 * i, 4) = LoadBytes(mem, 4 * i, 4)
      BY <1>15, <3>1
    <3>4. QED
      BY <1>1, <1>16, <3>2, <3>3
  <2>2. QED
    BY <2>1 DEF CodeAgrees
<1>23. QED
  BY <1>21, <1>22

(***************************************************************************)
(* One step of both sides from equal states leads to equal states.         *)
(***************************************************************************)
LEMMA StepAgrees ==
  ASSUME WidthIsPower, Together, LStep
  PROVE  SameState' /\ CodeAgrees'
<1> DEFINE np == NextPc(Decode(inst), pc, inst.imm, rs1_val, rs2_val)
<1>1. /\ Step /\ (Rtl!Execute \/ Rtl!Halt)
      /\ stored' = stored \cup (IF Executes("OP_STORE") /\ data_addr # tohost_addr
                               THEN {data_addr \div 4} ELSE {})
  BY DEF LStep
<1>2. Rtl!Execute => Stops = "HC_NONE"
  BY CoreExecutes
<1>3. Rtl!Halt => Stops # "HC_NONE"
  BY CoreHalts
<1>4. ASSUME NEW op \in WritesRd \ {"OP_SYSTEM"}, NEW value, Computes(op, value, np),
             inst.op = op => RtlValue = u32(value)
      PROVE  SameState' /\ CodeAgrees'
  <2>1. Executes(op) /\ inst.op = op
    BY <1>4 DEF Computes, Executes
  <2>2. op \in Opcode \ {"OP_STORE", "OP_SYSTEM"}
    BY DEF WritesRd, Opcode
  <2>3. Rtl!Execute
    BY <1>1, <1>3, <2>1, <2>2, Goes
  <2>4. stored' = stored
    BY <1>1, <2>1, <2>2 DEF Executes
  <2>5. QED
    BY <1>4, <2>1, <2>3, <2>4, ComputesAgree
<1>5. ASSUME NEW op \in {"OP_BRANCH", "OP_FENCE"}, Executes(op), Retire(np, NoWrite),
             KeepsRunning, UNCHANGED <<regs, mem, csrs>>
      PROVE  SameState' /\ CodeAgrees'
  <2>1. inst.op = op /\ op \in Opcode \ {"OP_STORE", "OP_SYSTEM"}
    BY <1>5 DEF Executes, Opcode
  <2>2. Rtl!Execute
    BY <1>1, <1>3, <1>5, <2>1, Goes
  <2>3. stored' = stored
    BY <1>1, <2>1 DEF Executes
  <2>4. QED
    BY <1>5, <2>1, <2>2, <2>3, QuietAgrees
<1>6. /\ inst.op \in {"OP_JAL", "OP_JALR"} => np = target
      /\ inst.op = "OP_BRANCH" => np = IF taken THEN target ELSE link
      /\ inst.op \notin {"OP_JAL", "OP_JALR", "OP_BRANCH"} => np = link
  BY NextPcAgrees
<1> HIDE DEF np
<1>7. CASE Lui \/ Auipc \/ Jal \/ Jalr
  <2>1. CASE Lui
    <3>1. inst.op = "OP_LUI" /\ Computes("OP_LUI", imm, np)
      BY <1>6, <2>1 DEF Lui, Computes, Executes
    <3>2. RtlValue = u32(imm)
      BY <3>1, UpperAgrees
    <3>3. QED
      BY <1>4, <3>1, <3>2 DEF WritesRd
  <2>2. CASE Auipc
    <3>1. inst.op = "OP_AUIPC" /\ Computes("OP_AUIPC", pc + imm, np)
      BY <1>6, <2>2 DEF Auipc, Computes, Executes
    <3>2. RtlValue = u32(pc + imm)
      BY <3>1, UpperAgrees
    <3>3. QED
      BY <1>4, <3>1, <3>2 DEF WritesRd
  <2>3. CASE Jal
    <3>1. inst.op = "OP_JAL" /\ Computes("OP_JAL", link, np)
      BY <1>6, <2>3 DEF Jal, Computes, Executes
    <3>2. RtlValue = u32(link)
      BY <3>1, UpperAgrees
    <3>3. QED
      BY <1>4, <3>1, <3>2 DEF WritesRd
  <2>4. CASE Jalr
    <3>1. inst.op = "OP_JALR" /\ Computes("OP_JALR", link, np)
      BY <1>6, <2>4 DEF Jalr, Computes, Executes
    <3>2. RtlValue = u32(link)
      BY <3>1, UpperAgrees
    <3>3. QED
      BY <1>4, <3>1, <3>2 DEF WritesRd
  <2>5. QED
    BY <1>7, <2>1, <2>2, <2>3, <2>4
<1>8. CASE Load
  <2> DEFINE v == LoadValue(mem, data_addr, data_size, inst.f3 \in {0, 1})
  <2>1. inst.op = "OP_LOAD" /\ Raised = "none" /\ Computes("OP_LOAD", v, np)
    BY <1>6, <1>8 DEF Load, Computes, Executes
  <2>2. RtlValue = u32(v)
    BY <2>1, LoadsAgree
  <2> HIDE DEF v
  <2>3. QED
    BY <1>4, <2>1, <2>2 DEF WritesRd
<1>9. CASE AluI
  <2> DEFINE v == _alu_imm(inst.f3, inst.f7, rs1_val, imm)
  <2>1. inst.op = "OP_IMM" /\ Computes("OP_IMM", v, np)
    BY <1>6, <1>9 DEF AluI, Computes, Executes
  <2>2. RtlValue = u32(v)
    BY <2>1, ArithAgrees
  <2> HIDE DEF v
  <2>3. QED
    BY <1>4, <2>1, <2>2 DEF WritesRd
<1>10. CASE AluR
  <2> DEFINE v == _alu_reg(inst.f3, inst.f7, rs1_val, rs2_val)
  <2>1. inst.op = "OP_REG" /\ Computes("OP_REG", v, np)
    BY <1>6, <1>10 DEF AluR, Computes, Executes
  <2>2. RtlValue = u32(v)
    BY <2>1, ArithAgrees
  <2> HIDE DEF v
  <2>3. QED
    BY <1>4, <2>1, <2>2 DEF WritesRd
<1>11. CASE Branch
  <2>1. inst.op = "OP_BRANCH" /\ Retire(np, NoWrite)
    BY <1>6, <1>11 DEF Branch, Executes
  <2>2. QED
    BY <1>5, <1>11, <2>1 DEF Branch
<1>12. CASE Fence
  <2>1. inst.op = "OP_FENCE" /\ Retire(np, NoWrite)
    BY <1>6, <1>12 DEF Fence, Executes
  <2>2. QED
    BY <1>5, <1>12, <2>1 DEF Fence
<1>13. CASE Store
  <2>1. Executes("OP_STORE") /\ data_addr # tohost_addr
    BY <1>13 DEF Store
  <2>2. Rtl!Execute
    BY <1>1, <1>3, <2>1, Goes
  <2>3. QED
    BY <1>1, <1>13, <2>1, <2>2, StoresAgree
<1>14. CASE StoreTohost
  <2>1. Executes("OP_STORE") /\ data_addr = tohost_addr /\ Stops = "HC_TOHOST"
    BY <1>14, Goes DEF StoreTohost
  <2>2. Rtl!Halt /\ stored' = stored
    BY <1>1, <1>2, <2>1
  <2>3. /\ UNCHANGED <<regs, mem>> /\ tohost_value' = <<rs2_val>> /\ halted' = TRUE
        /\ trap' = "none" /\ halt_reason' \in {"tohost-pass", "tohost-fail"}
    BY <1>14 DEF StoreTohost, Retire, Together, Running
  <2>4. CauseOf(RunResult)' = "HC_TOHOST" /\ ~Running'
    BY <2>3 DEF CauseOf, RunResult, Running
  <2>5. QED
    BY <2>1, <2>2, <2>3, <2>4, StopsAgree
<1>15. ASSUME NEW f12, NEW reason, EnvHalt(f12, reason),
              <<f12, reason>> \in {<<"F12_ECALL", "ecall">>, <<"F12_EBREAK", "ebreak">>}
       PROVE  SameState' /\ CodeAgrees'
  <2>1. Executes("OP_SYSTEM") /\ inst.f12 = f12 /\ inst.op = "OP_SYSTEM" /\ Raised = "none"
    BY <1>15 DEF EnvHalt, Priv, Executes
  <2>2. Rtl!Halt /\ stored' = stored
    BY <1>1, <1>2, <2>1, Goes DEF Executes
  <2>3. /\ UNCHANGED <<regs, mem>> /\ halted' = TRUE /\ trap' = "none" /\ halt_reason' = reason
    BY <1>15 DEF EnvHalt, Retire, Together, Running
  <2>4. Stops = IF f12 = "F12_ECALL" THEN "HC_ECALL" ELSE "HC_EBREAK"
    BY <2>1 DEF Stops
  <2>5. RunResult' = reason /\ ~Running'
    BY <2>3 DEF RunResult, Running
  <2>6. \/ f12 = "F12_ECALL" /\ reason = "ecall"
        \/ f12 = "F12_EBREAK" /\ reason = "ebreak"
    BY <1>15
  <2>7. CauseOf(RunResult)' = Stops /\ Stops # "HC_TOHOST"
    BY <2>4, <2>5, <2>6 DEF CauseOf
  <2>8. QED
    BY <2>2, <2>3, <2>5, <2>7, StopsAgree
<1>16. ~trap_on_ecall
  BY DEF Together, LockInv
<1>17. CASE Ecall \/ Ebreak
  BY <1>15, <1>16, <1>17 DEF Ecall, Ebreak, EnvTrap
<1>18. ~Mret /\ ~Wfi /\ ~Csr
  <2>1. Executes("OP_SYSTEM") => inst.f3 = 0 /\ inst.f12 \in {"F12_ECALL", "F12_EBREAK"}
    BY Goes DEF Together, OneMeaning, Executes
  <2>2. QED
    BY <2>1 DEF Mret, Wfi, Csr, Priv
<1>19. CASE RaiseTrap
  <2>1. /\ Raised # "none" /\ trap' = Raised /\ UNCHANGED <<regs, mem>>
    BY <1>19 DEF RaiseTrap
  <2>2. Stops = CauseOf(Raised) /\ Stops \in {"HC_ILLEGAL", "HC_MISALIGNED"}
    BY <2>1, Goes
  <2>3. Rtl!Halt /\ stored' = stored
    BY <1>1, <1>2, <2>1, <2>2 DEF Executes
  <2>4. RunResult' = Raised /\ ~Running'
    BY <2>1 DEF RunResult, Running
  <2>5. CauseOf(RunResult)' = Stops
    BY <2>2, <2>4 DEF CauseOf
  <2>6. QED
    BY <2>1, <2>2, <2>3, <2>4, <2>5, StopsAgree
<1>20. QED
  BY <1>1, <1>7, <1>8, <1>9, <1>10, <1>11, <1>12, <1>13, <1>14, <1>17, <1>18, <1>19 DEF Step

(***************************************************************************)
(* Every step keeps the types, whether or not the two sides agree.         *)
(***************************************************************************)
LEMMA EmulatorFrame ==
  ASSUME LockInv, Step
  PROVE  /\ EmuInv' /\ mem' \in Memory
         /\ tohost_addr' = TOHOST_ADDR /\ trap_on_ecall' = FALSE
<1>1. EmuInv' /\ mem \in Memory /\ tohost_addr = TOHOST_ADDR /\ trap_on_ecall = FALSE
  BY StepKeeps DEF LockInv
<1>2. tohost_addr' = tohost_addr /\ trap_on_ecall' = trap_on_ecall
  BY DEF Step, Lui, Auipc, Jal, Jalr, Branch, Load, Store, StoreTohost, AluI, AluR, Fence,
         Ecall, Ebreak, EnvHalt, EnvTrap, Mret, Wfi, Csr, RaiseTrap, Computes, Retire
<1>3. mem' = mem \/ mem' = StoreBytes(mem, data_addr, rs2_val, data_size)
  BY DEF Step, Lui, Auipc, Jal, Jalr, Branch, Load, Store, StoreTohost, AluI, AluR, Fence,
         Ecall, Ebreak, EnvHalt, EnvTrap, Mret, Wfi, Csr, RaiseTrap, Computes
<1>4. CASE mem' = StoreBytes(mem, data_addr, rs2_val, data_size)
  <2>1. mem' = [x \in 0 .. (4 * MEM_WORDS - 1) |-> mem'[x]]
    BY <1>1, <1>4 DEF StoreBytes, Memory
  <2>2. \A x \in DOMAIN mem' : mem'[x] \in Bytes
    BY <1>1 DEF EmuInv, EmuTypeOK, Bytes
  <2>3. DOMAIN mem' = 0 .. (4 * MEM_WORDS - 1)
    BY <1>1, <1>4 DEF StoreBytes, Memory
  <2>4. QED
    BY <1>1, <1>2, <2>1, <2>2, <2>3 DEF Memory
<1>5. QED
  BY <1>1, <1>2, <1>3, <1>4

LEMMA CoreFrame ==
  ASSUME LockInv, Rtl!Execute \/ Rtl!Halt
  PROVE  /\ imem' \in [IMemIdx -> Inst] /\ dmem' \in [DMemIdx -> RtlWord]
         /\ rtl_pc' \in RtlWord /\ rtl_regs' \in [XReg -> RtlWord]
<1> DEFINE i == Rtl!inst
           c == Decode(i)
           x == RegRead(rtl_regs, i.rs1)
           y == RegRead(rtl_regs, i.rs2)
           z == AluY(c, rtl_pc, i.imm, x, y)
<1>1. /\ imem \in [IMemIdx -> Inst] /\ dmem \in [DMemIdx -> Word]
      /\ rtl_pc \in Word /\ rtl_regs \in [XReg -> Word] /\ Word = RtlWord
  BY DatapathAssumption DEF LockInv
<1>2. CASE Rtl!Halt
  BY <1>1, <1>2 DEF Rtl!Halt
<1>3. CASE Rtl!Execute
  <2>1. i \in Inst
    BY <1>1, AddressAssumption DEF Rtl!inst
  <2> HIDE DEF i
  <2>2. c \in Control /\ i.imm \in Word /\ i.rs1 \in Reg /\ i.rs2 \in Reg
    BY <2>1, DecodeType DEF Inst
  <2>3. x \in Word /\ y \in Word
    BY <1>1, <2>2, RegFileType
  <2>4. Rtl!ctrl = c /\ Rtl!rs1v = x /\ Rtl!rs2v = y
    BY RtlDecodes, RtlUnits DEF Rtl!ctrl, Rtl!rs1v, Rtl!rs2v, i
  <2>5. Rtl!alu_y = z
    BY <2>4, RtlUnits DEF Rtl!alu_y, i
  <2> HIDE DEF c, x, y
  <2>6. z \in Word /\ NextPc(c, rtl_pc, i.imm, x, y) \in Word /\ Plus4(rtl_pc) \in Word
    BY <1>1, <2>2, <2>3, AluYType, NextPcType, AddressAssumption
  <2> HIDE DEF z
  <2>7. MemRead(dmem, c, z) \in Word
        /\ MemWrite(dmem, c.mem_write, c.mem_size, z, y) \in [DMemIdx -> Word]
    BY <1>1, <2>2, <2>3, <2>6, MemoryType
  <2>8. WbData(c.wb_src, z, MemRead(dmem, c, z), Plus4(rtl_pc)) \in Word
    BY <2>6, <2>7, WbDataType
  <2>9. RegWrite(rtl_regs, c.reg_write, i.rd,
                 WbData(c.wb_src, z, MemRead(dmem, c, z), Plus4(rtl_pc))) \in [XReg -> Word]
    BY <1>1, <2>8, RegFileType
  <2>10. imem' = imem /\ rtl_pc' = NextPc(c, rtl_pc, i.imm, x, y)
    BY <1>3, <2>4, RtlUnits DEF Rtl!Execute, i
  <2>11. dmem' = MemWrite(dmem, c.mem_write, c.mem_size, z, y)
    BY <1>3, <2>4, <2>5, RtlUnits DEF Rtl!Execute
  <2>12. rtl_regs' = RegWrite(rtl_regs, c.reg_write, i.rd,
                              WbData(c.wb_src, z, MemRead(dmem, c, z), Plus4(rtl_pc)))
    BY <1>3, <2>4, <2>5, RtlUnits, SMTT(30) DEF Rtl!Execute, i
  <2>13. QED
    BY <1>1, <2>6, <2>7, <2>9, <2>10, <2>11, <2>12
<1>4. QED
  BY <1>2, <1>3

LEMMA LockKeeps ==
  ASSUME WidthIsPower, LockInv, LStep
  PROVE  LockInv'
<1>1. Running /\ Step /\ (Rtl!Execute \/ Rtl!Halt)
  BY DEF LStep
<1>2. /\ EmuInv' /\ mem' \in Memory /\ tohost_addr' = TOHOST_ADDR /\ trap_on_ecall' = FALSE
  BY <1>1, EmulatorFrame
<1>3. /\ imem' \in [IMemIdx -> Inst] /\ dmem' \in [DMemIdx -> RtlWord]
      /\ rtl_pc' \in RtlWord /\ rtl_regs' \in [XReg -> RtlWord]
  BY <1>1, CoreFrame
<1>4. ASSUME shared', stored' \cap fetched' = {}
      PROVE  SameState' /\ CodeAgrees'
  <2>1. shared /\ OneMeaning
    BY <1>4 DEF LStep
  <2>2. stored \subseteq stored' /\ fetched \subseteq fetched' /\ pc \div 4 \in fetched'
    BY DEF LStep
  <2>3. stored \cap fetched = {} /\ pc \div 4 \notin stored
    BY <1>4, <2>2
  <2>4. SameState /\ CodeAgrees
    BY <2>1, <2>3 DEF LockInv
  <2>5. Together
    BY <1>1, <2>1, <2>3, <2>4 DEF Together
  <2>6. QED
    BY <2>5, StepAgrees
<1>5. QED
  BY <1>2, <1>3, <1>4 DEF LockInv

LEMMA LockStutters ==
  ASSUME LockInv, UNCHANGED lockVars
  PROVE  LockInv'
<1>1. /\ UNCHANGED emuVars /\ UNCHANGED rtlVars /\ UNCHANGED history
  BY DEF lockVars
<1>2. EmuInv' /\ mem' = mem /\ tohost_addr' = tohost_addr /\ trap_on_ecall' = trap_on_ecall
  BY <1>1 DEF emuVars, LockInv, EmuInv, EmuTypeOK, MemOK
<1>3. /\ imem' = imem /\ dmem' = dmem /\ rtl_pc' = rtl_pc /\ rtl_regs' = rtl_regs
      /\ shared' = shared /\ stored' = stored /\ fetched' = fetched
  BY <1>1 DEF rtlVars, history
<1>4. SameState' <=> SameState
  BY <1>1 DEF SameState, RunResult, CauseOf, Running, emuVars, rtlVars
<1>5. CodeAgrees' <=> CodeAgrees
  BY <1>2, <1>3 DEF CodeAgrees
<1>6. QED
  BY <1>2, <1>3, <1>4, <1>5 DEF LockInv

(***************************************************************************)
(* The theorems.  The width of a word is a power of two, as the masked     *)
(* shift amounts need it (rv32i_emu.py: "& 0x1F", alu.sv: b[4:0]).         *)
(***************************************************************************)

(* The states the benches compare stay equal for as long as the program    *)
(* means the same on both sides, and so do the instructions that were not  *)
(* overwritten: the inductive invariant of the lockstep.                   *)
THEOREM LockstepInvariant ==
  ASSUME WidthIsPower
  PROVE  LSpec => []LockInv
<1>1. LInit => LockInv
  BY LockInit
<1>2. LockInv /\ [LStep]_lockVars => LockInv'
  BY LockKeeps, LockStutters
<1>3. QED
  BY <1>1, <1>2, PTL DEF LSpec

(* The emulator is an oracle for the core: for every image, memory size    *)
(* and byte width, the registers, the data memory, the reason to stop and  *)
(* the value published agree at every step, as long as every instruction   *)
(* so far has one meaning on both sides and no word that was fetched was   *)
(* stored to (tb/program/test_programs.py compares them on a few programs, *)
(* at the end of a run).                                                   *)
THEOREM OracleAlwaysAgrees ==
  ASSUME WidthIsPower
  PROVE  LSpec => []OracleAgrees
<1>1. LockInv => OracleAgrees
  BY DEF LockInv, OracleAgrees
<1>2. QED
  BY <1>1, LockstepInvariant, PTL
=============================================================================
