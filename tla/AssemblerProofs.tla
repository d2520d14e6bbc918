--------------------------- MODULE AssemblerProofs --------------------------
(***************************************************************************)
(* First the formats, for every integer: what EncodingSweep checks in      *)
(* windows holds for all immediates that the range checks accept, and for  *)
(* every instruction word.  Then the assembler, for every source, text     *)
(* base and pinned data base: the passes agree on the layout, pass2 fills  *)
(* what pass1 reserved, and every value of the image is a byte.  With the  *)
(* default layout, the written file reads back: constants load and targets *)
(* are reached.                                                            *)
(***************************************************************************)
EXTENDS Assembler, EncodingSweep, SequenceTheorems, FiniteSetTheorems,
        WellFoundedInduction, TLAPS

(***************************************************************************)
(* Arithmetic: a pattern is the sum of its slices, and sign extension      *)
(* undoes the mask of fit_signed.                                          *)
(***************************************************************************)
LEMMA Cut12 ==
  ASSUME NEW m \in Int, 0 <= m, m < 4096
  PROVE  ((m \div 2048) % 2) * 2048 + ((m \div 32) % 64) * 32
           + ((m \div 2) % 16) * 2 + (m % 2) = m
BY SMT

LEMMA Cut13 ==
  ASSUME NEW m \in Int, 0 <= m, m < 8192
  PROVE  ((m \div 4096) % 2) * 4096 + ((m \div 32) % 64) * 32
           + ((m \div 2) % 16) * 2 + ((m \div 2048) % 2) * 2048 = m - (m % 2)
BY SMT

LEMMA Cut21 ==
  ASSUME NEW m \in Int, 0 <= m, m < 2097152
  PROVE  ((m \div 1048576) % 2) * 1048576 + ((m \div 32) % 64) * 32
           + ((m \div 2) % 16) * 2 + ((m \div 2048) % 2) * 2048
           + ((m \div 32768) % 32) * 32768 + ((m \div 4096) % 8) * 4096
         = m - (m % 2)
<1>1. m = 2 * (m \div 2) + (m % 2)
  BY SMT
<1>2. m \div 2 = 16 * (m \div 32) + ((m \div 2) % 16)
  BY SMT
<1>3. m \div 32 = 64 * (m \div 2048) + ((m \div 32) % 64)
  BY SMT
<1>4. m \div 2048 = 2 * (m \div 4096) + ((m \div 2048) % 2)
  BY SMT
<1>5. m \div 4096 = 8 * (m \div 32768) + ((m \div 4096) % 8)
  BY SMT
<1>6. m \div 32768 = 32 * (m \div 1048576) + ((m \div 32768) % 32)
  BY SMT
<1>7. (m \div 1048576) % 2 = m \div 1048576
  BY SMT
<1> QED
  BY <1>1, <1>2, <1>3, <1>4, <1>5, <1>6, <1>7, SMT

LEMMA Cut20 ==
  ASSUME NEW m \in Int, 0 <= m, m < 1048576
  PROVE  ((m \div 524288) % 2) * 524288 + ((m \div 8192) % 64) * 8192
           + ((m \div 512) % 16) * 512 + ((m \div 256) % 2) * 256
           + ((m \div 8) % 32) * 8 + (m % 8) = m
BY SMT

LEMMA Sext12 ==
  ASSUME NEW n \in Int, FitsSigned(n, 2048)
  PROVE  /\ fit_signed(n, 2048) \in Int
         /\ 0 <= fit_signed(n, 2048) /\ fit_signed(n, 2048) < 4096
         /\ Sext(fit_signed(n, 2048), 2048) = n
BY SMT DEF FitsSigned, fit_signed, Sext

LEMMA Sext13 ==
  ASSUME NEW n \in Int, FitsSigned(n, 4096)
  PROVE  /\ fit_signed(n, 4096) \in Int
         /\ 0 <= fit_signed(n, 4096) /\ fit_signed(n, 4096) < 8192
         /\ Sext(fit_signed(n, 4096) - (fit_signed(n, 4096) % 2), 4096) = n - (n % 2)
BY SMT DEF FitsSigned, fit_signed, Sext

LEMMA Sext21 ==
  ASSUME NEW n \in Int, FitsSigned(n, 1048576)
  PROVE  /\ fit_signed(n, 1048576) \in Int
         /\ 0 <= fit_signed(n, 1048576) /\ fit_signed(n, 1048576) < 2097152
         /\ Sext(fit_signed(n, 1048576) - (fit_signed(n, 1048576) % 2), 1048576)
            = n - (n % 2)
BY SMT DEF FitsSigned, fit_signed, Sext

(***************************************************************************)
(* Every format round-trips.                                               *)
(***************************************************************************)
LEMMA RoundTripI ==
  ASSUME NEW n \in Int, FitsSigned(n, 2048),
         NEW op, NEW rd, NEW f3, NEW rs1
  PROVE  imm_i(i_type(op, rd, f3, rs1, fit_signed(n, 2048))) = n
<1> DEFINE m == fit_signed(n, 2048)
           w == i_type(op, rd, f3, rs1, m)
<1>1. w.b31 * 2048 + w.b30_25 * 32 + w.b24_21 * 2 + w.b20
      = ((m \div 2048) % 2) * 2048 + ((m \div 32) % 64) * 32
          + ((m \div 2) % 16) * 2 + (m % 2)
  BY SMT DEF i_type
<1> HIDE DEF m, w
<1>2. m \in Int /\ 0 <= m /\ m < 4096 /\ Sext(m, 2048) = n
  BY Sext12, SMT DEF m
<1>3. imm_i(w) = Sext(m, 2048)
  BY <1>1, <1>2, Cut12, SMT DEF imm_i
<1> QED
  BY <1>2, <1>3, SMT DEF w, m

LEMMA RoundTripS ==
  ASSUME NEW n \in Int, FitsSigned(n, 2048),
         NEW op, NEW f3, NEW rs1, NEW rs2
  PROVE  imm_s(s_type(op, f3, rs1, rs2, fit_signed(n, 2048))) = n
<1> DEFINE m == fit_signed(n, 2048)
           w == s_type(op, f3, rs1, rs2, m)
<1>1. w.b31 * 2048 + w.b30_25 * 32 + w.b11_8 * 2 + w.b7
      = ((m \div 2048) % 2) * 2048 + ((m \div 32) % 64) * 32
          + ((m \div 2) % 16) * 2 + (m % 2)
  BY SMT DEF s_type
<1> HIDE DEF m, w
<1>2. m \in Int /\ 0 <= m /\ m < 4096 /\ Sext(m, 2048) = n
  BY Sext12, SMT DEF m
<1>3. imm_s(w) = Sext(m, 2048)
  BY <1>1, <1>2, Cut12, SMT DEF imm_s
<1> QED
  BY <1>2, <1>3, SMT DEF w, m

LEMMA RoundTripB ==
  ASSUME NEW n \in Int, FitsSigned(n, 4096),
         NEW op, NEW f3, NEW rs1, NEW rs2
  PROVE  imm_b(b_type(op, f3, rs1, rs2, fit_signed(n, 4096))) = n - (n % 2)
<1> DEFINE m == fit_signed(n, 4096)
           w == b_type(op, f3, rs1, rs2, m)
<1>1. w.b31 * 4096 + w.b30_25 * 32 + w.b11_8 * 2 + w.b7 * 2048
      = ((m \div 4096) % 2) * 4096 + ((m \div 32) % 64) * 32
          + ((m \div 2) % 16) * 2 + ((m \div 2048) % 2) * 2048
  BY SMT DEF b_type
<1> HIDE DEF m, w
<1>2. m \in Int /\ 0 <= m /\ m < 8192 /\ Sext(m - (m % 2), 4096) = n - (n % 2)
  BY Sext13, SMT DEF m
<1>3. imm_b(w) = Sext(m - (m % 2), 4096)
  BY <1>1, <1>2, Cut13, SMT DEF imm_b
<1> QED
  BY <1>2, <1>3, SMT DEF w, m

LEMMA RoundTripJ ==
  ASSUME NEW n \in Int, FitsSigned(n, 1048576), NEW op, NEW rd
  PROVE  imm_j(j_type(op, rd, fit_signed(n, 1048576))) = n - (n % 2)
<1> DEFINE m == fit_signed(n, 1048576)
           w == j_type(op, rd, m)
<1>1. w.b31 * 1048576 + w.b30_25 * 32 + w.b24_21 * 2 + w.b20 * 2048
        + w.b19_15 * 32768 + w.b14_12 * 4096
      = ((m \div 1048576) % 2) * 1048576 + ((m \div 32) % 64) * 32
          + ((m \div 2) % 16) * 2 + ((m \div 2048) % 2) * 2048
          + ((m \div 32768) % 32) * 32768 + ((m \div 4096) % 8) * 4096
  BY SMT DEF j_type
<1> HIDE DEF m, w
<1>2. /\ m \in Int /\ 0 <= m /\ m < 2097152
      /\ Sext(m - (m % 2), 1048576) = n - (n % 2)
  BY Sext21, SMT DEF m
<1>3. imm_j(w) = Sext(m - (m % 2), 1048576)
  BY <1>1, <1>2, Cut21, SMT DEF imm_j
<1> QED
  BY <1>2, <1>3, SMT DEF w, m

LEMMA RoundTripU ==
  ASSUME NEW n \in Int, 0 <= n, n < 1048576, NEW op, NEW rd
  PROVE  imm_u(u_type(op, rd, n)) = [hi |-> n, lo |-> 0]
<1> DEFINE w == u_type(op, rd, n)
<1>1. w.b31 * 524288 + w.b30_25 * 8192 + w.b24_21 * 512 + w.b20 * 256
        + w.b19_15 * 8 + w.b14_12
      = ((n \div 524288) % 2) * 524288 + ((n \div 8192) % 64) * 8192
          + ((n \div 512) % 16) * 512 + ((n \div 256) % 2) * 256
          + ((n \div 8) % 32) * 8 + (n % 8)
  BY SMT DEF u_type
<1> HIDE DEF w
<1>2. imm_u(w) = [hi |-> n, lo |-> 0]
  BY <1>1, Cut20, SMT DEF imm_u
<1> QED
  BY <1>2, SMT DEF w

(***************************************************************************)
(* The immediate generator and the emulator on every word.                 *)
(***************************************************************************)
LEMMA GenI == ASSUME NEW w \in Slices PROVE gen_i(w) = Word32(imm_i(w))
BY SMT DEF Slices, gen_i, Word32, imm_i, Sext

LEMMA GenS == ASSUME NEW w \in Slices PROVE gen_s(w) = Word32(imm_s(w))
BY SMT DEF Slices, gen_s, Word32, imm_s, Sext

LEMMA GenB == ASSUME NEW w \in Slices PROVE gen_b(w) = Word32(imm_b(w))
BY SMT DEF Slices, gen_b, Word32, imm_b, Sext

LEMMA GenJ == ASSUME NEW w \in Slices PROVE gen_j(w) = Word32(imm_j(w))
<1> DEFINE s == w.b31
           a == w.b30_25
           b == w.b24_21
           c == w.b20
           d == w.b19_15
           e == w.b14_12
           lo == c * 2048 + a * 32 + b * 2
           up == d * 8 + e
           x  == s * 1048576 + a * 32 + b * 2 + c * 2048 + d * 32768 + e * 4096
<1>1. /\ s \in 0 .. 1 /\ a \in 0 .. 63 /\ b \in 0 .. 15
      /\ c \in 0 .. 1 /\ d \in 0 .. 31 /\ e \in 0 .. 7
  BY SMT DEF Slices
<1>2. gen_j(w) = [hi |-> s * 1048320 + d * 8 + e, lo |-> lo]
  BY DEF gen_j
<1>3. imm_j(w) = Sext(x, 1048576)
  BY DEF imm_j
<1> HIDE DEF s, a, b, c, d, e
<1>4. lo \in 0 .. 4095 /\ up \in 0 .. 255
  BY <1>1, SMT
<1>5. x = s * 1048576 + up * 4096 + lo
  BY <1>1, SMT
<1>6. s * 1048320 + d * 8 + e = s * 1048320 + up
  BY <1>1, SMT
<1> HIDE DEF lo, up, x
<1>7. Sext(x, 1048576) = up * 4096 + lo - s * 1048576
  BY <1>1, <1>4, <1>5, SMT DEF Sext
<1>8. /\ (up * 4096 + lo - s * 1048576) % 4096 = lo
      /\ (up * 4096 + lo - s * 1048576) \div 4096 = up - s * 256
  BY <1>1, <1>4, SMT
<1>9. (up - s * 256) % 1048576 = s * 1048320 + up
  BY <1>1, <1>4, SMT
<1> QED
  BY <1>2, <1>3, <1>6, <1>7, <1>8, <1>9, SMT DEF Word32

(* On every instruction word whose immediate step() uses, imm_gen.sv gives *)
(* the same 32-bit word.                                                   *)
THEOREM ImmGenOnEveryWord ==
  ASSUME NEW w \in Slices, w.opcode \in UsesImm
  PROVE  imm_gen(w) = step_imm(w)
<1>1. CASE w.opcode \in {OPC.LOAD, OPC.IMM, OPC.JALR}
  BY <1>1, GenI, SMT DEF imm_gen, step_imm, OPC
<1>2. CASE w.opcode = OPC.STORE
  BY <1>2, GenS, SMT DEF imm_gen, step_imm, OPC
<1>3. CASE w.opcode = OPC.BRANCH
  BY <1>3, GenB, SMT DEF imm_gen, step_imm, OPC
<1>4. CASE w.opcode \in {OPC.LUI, OPC.AUIPC}
  BY <1>4, SMT DEF imm_gen, step_imm, OPC, gen_u, imm_u
<1>5. CASE w.opcode = OPC.JAL
  BY <1>5, GenJ, SMT DEF imm_gen, step_imm, OPC
<1> QED
  BY <1>1, <1>2, <1>3, <1>4, <1>5, SMT DEF UsesImm

(* The packers make words.                                                 *)
LEMMA PacksI ==
  ASSUME NEW op \in Int, NEW rd \in Int, NEW rs1 \in Int, NEW n \in Int
  PROVE  i_type(op, rd, 0, rs1, n) \in Slices
BY SMT DEF i_type, Slices

LEMMA PacksSB ==
  ASSUME NEW op \in Int, NEW rs1 \in Int, NEW rs2 \in Int, NEW n \in Int
  PROVE  s_type(op, 0, rs1, rs2, n) \in Slices /\ b_type(op, 0, rs1, rs2, n) \in Slices
BY SMT DEF s_type, b_type, Slices

LEMMA PacksUJ ==
  ASSUME NEW op \in Int, NEW rd \in Int, NEW n \in Int
  PROVE  u_type(op, rd, n) \in Slices /\ j_type(op, rd, n) \in Slices
BY SMT DEF u_type, j_type, Slices

(* Cutting a 32-bit word in two and adding the parts up again.             *)
LEMMA PairParts ==
  ASSUME NEW p \in Pair
  PROVE  /\ p.hi \in Int /\ 0 <= p.hi /\ p.hi < 1048576
         /\ p.lo \in Int /\ 0 <= p.lo /\ p.lo < 4096
         /\ p = [hi |-> p.hi, lo |-> p.lo]
BY SMT DEF Pair

LEMMA CarryArith ==
  ASSUME NEW h \in Int, 0 <= h, h < 1048576,
         NEW l \in Int, 2048 <= l, l < 4096
  PROVE  /\ (h + 1) % 1048576 \in Int
         /\ 0 <= (h + 1) % 1048576 /\ (h + 1) % 1048576 < 1048576
         /\ (((h + 1) % 1048576) + ((0 + (l - 4096)) \div 4096)) % 1048576 = h
         /\ (0 + (l - 4096)) % 4096 = l
<1>1. (0 + (l - 4096)) \div 4096 = -1 /\ (0 + (l - 4096)) % 4096 = l
  BY SMT
<1>2. CASE h + 1 < 1048576
  BY <1>1, <1>2, SMT
<1>3. CASE h + 1 = 1048576
  BY <1>1, <1>3, SMT
<1> QED
  BY <1>2, <1>3, SMT

LEMMA PlainArith ==
  ASSUME NEW h \in Int, 0 <= h, h < 1048576,
         NEW l \in Int, 0 <= l, l < 2048
  PROVE  (h + ((0 + l) \div 4096)) % 1048576 = h /\ (0 + l) % 4096 = l
BY SMT

LEMMA SextOfLow ==
  ASSUME NEW l \in Int, 0 <= l, l < 4096
  PROVE  Sext(l, 2048) = IF l >= 2048 THEN l - 4096 ELSE l
BY SMT DEF Sext

LEMMA CutAndAdd ==
  ASSUME NEW p \in Pair
  PROVE  /\ HiPart(p) \in Int /\ 0 <= HiPart(p) /\ HiPart(p) < 1048576
         /\ Plus12([hi |-> HiPart(p), lo |-> 0], Sext(LoPart(p), 2048)) = p
<1> DEFINE h == p.hi
           l == p.lo
<1>1. /\ h \in Int /\ 0 <= h /\ h < 1048576
      /\ l \in Int /\ 0 <= l /\ l < 4096
      /\ p = [hi |-> h, lo |-> l]
  BY PairParts, SMT
<1>2. /\ HiPart(p) = IF l >= 2048 THEN (h + 1) % 1048576 ELSE h
      /\ LoPart(p) = l
  BY SMT DEF HiPart, LoPart
<1>3. \A x, y : Plus12([hi |-> x, lo |-> 0], y)
               = [hi |-> (x + ((0 + y) \div 4096)) % 1048576, lo |-> (0 + y) % 4096]
  BY SMT DEF Plus12
<1> HIDE DEF h, l
<1>4. CASE l >= 2048
  BY <1>1, <1>2, <1>3, <1>4, CarryArith, SextOfLow, SMT
<1>5. CASE l < 2048
  BY <1>1, <1>2, <1>3, <1>5, PlainArith, SextOfLow, SMT
<1> QED
  BY <1>1, <1>4, <1>5, SMT

(***************************************************************************)
(* The specification of the sweep, for any windows.                        *)
(***************************************************************************)
LEMMA ValueInt == SweepSpec => [](v \in Int)
<1>1. SweepInit => v \in Int
  BY WindowsAssumption DEF SweepInit
<1>2. v \in Int /\ [NextValue]_v => (v \in Int)'
  BY SMT DEF NextValue
<1> QED
  BY <1>1, <1>2, PTL DEF SweepSpec

LEMMA Registers == v \in Int => x1 \in 0 .. 31 /\ x2 \in 0 .. 31
BY SMT DEF x1, x2

(* Every accepted immediate is read back as it was written: for every      *)
(* integer, not only those of the windows.                                 *)
THEOREM EveryImmediateSurvives == SweepSpec => []ImmediatesSurvive
<1>1. v \in Int => ImmediatesSurvive
  <2> SUFFICES ASSUME v \in Int PROVE ImmediatesSurvive
    OBVIOUS
  <2>1. v % 1048576 \in Int /\ 0 <= v % 1048576 /\ v % 1048576 < 1048576
    BY SMT
  <2> QED
    BY <2>1, RoundTripI, RoundTripS, RoundTripB, RoundTripJ, RoundTripU, SMT
       DEF ImmediatesSurvive
<1> QED
  BY <1>1, ValueInt, PTL

(* No immediate disturbs the other fields of its word.                     *)
THEOREM EveryFieldSurvives == SweepSpec => []FieldsSurvive
<1>1. v \in Int => FieldsSurvive
  <2> SUFFICES ASSUME v \in Int PROVE FieldsSurvive
    OBVIOUS
  <2> DEFINE a == x1
             b == x2
  <2>1. a \in 0 .. 31 /\ b \in 0 .. 31
    BY Registers, SMT
  <2> HIDE DEF a, b
  <2>2. /\ ((a \div 2) % 16) * 2 + (a % 2) = a /\ a % 32 = a
        /\ ((b \div 2) % 16) * 2 + (b % 2) = b /\ b % 32 = b
    BY <2>1, SMT
  <2>3. \A op, n, f3 :
          /\ rd_of(i_type(op, a, f3, b, n)) = a /\ rs1_of(i_type(op, a, f3, b, n)) = b
          /\ rs1_of(s_type(op, f3, a, b, n)) = a /\ rs2_of(s_type(op, f3, a, b, n)) = b
          /\ rs1_of(b_type(op, f3, a, b, n)) = a /\ rs2_of(b_type(op, f3, a, b, n)) = b
          /\ rd_of(u_type(op, a, n)) = a /\ rd_of(j_type(op, a, n)) = a
    BY <2>2, SMT DEF rd_of, rs1_of, rs2_of, i_type, s_type, b_type, u_type, j_type
  <2>4. \A op, n :
          /\ funct3_of(i_type(op, a, 5, b, n)) = 5
          /\ funct3_of(s_type(op, 2, a, b, n)) = 2
          /\ funct3_of(b_type(op, 7, a, b, n)) = 7
    BY SMT DEF funct3_of, i_type, s_type, b_type
  <2> QED
    BY <2>3, <2>4, SMT DEF a, b, FieldsSurvive
<1> QED
  BY <1>1, ValueInt, PTL

(* The immediate generator agrees on the words the assembler makes.        *)
THEOREM ImmGenAgreesAlways == SweepSpec => []ImmGenAgrees
<1>1. v \in Int => ImmGenAgrees
  <2> SUFFICES ASSUME v \in Int PROVE ImmGenAgrees
    OBVIOUS
  <2>1. x1 \in Int /\ x2 \in Int
    BY Registers, SMT
  <2>2. /\ fit_signed(v, 2048) \in Int /\ fit_signed(v, 4096) \in Int
        /\ fit_signed(v, 1048576) \in Int /\ v % 1048576 \in Int
    BY SMT DEF fit_signed
  <2> DEFINE i == i_type(OPC.JALR, x1, 0, x2, fit_signed(v, 2048))
             s == s_type(OPC.STORE, 0, x1, x2, fit_signed(v, 2048))
             b == b_type(OPC.BRANCH, 0, x1, x2, fit_signed(v, 4096))
             u == u_type(OPC.AUIPC, x1, v % 1048576)
             j == j_type(OPC.JAL, x1, fit_signed(v, 1048576))
  <2>3. i \in Slices /\ s \in Slices /\ b \in Slices /\ u \in Slices /\ j \in Slices
    <3>1. /\ OPC.JALR \in Int /\ OPC.STORE \in Int /\ OPC.BRANCH \in Int
          /\ OPC.AUIPC \in Int /\ OPC.JAL \in Int
      BY SMT DEF OPC
    <3>2. i \in Slices
      BY <2>1, <2>2, <3>1, PacksI, SMT
    <3>3. s \in Slices
      BY <2>1, <2>2, <3>1, PacksSB, SMT
    <3>4. b \in Slices
      BY <2>1, <2>2, <3>1, PacksSB, SMT
    <3>5. u \in Slices /\ j \in Slices
      BY <2>1, <2>2, <3>1, PacksUJ, SMT
    <3> QED
      BY <3>2, <3>3, <3>4, <3>5, SMT
  <2>4. /\ i.opcode \in UsesImm /\ s.opcode \in UsesImm /\ b.opcode \in UsesImm
        /\ u.opcode \in UsesImm /\ j.opcode \in UsesImm
    BY SMT DEF i_type, s_type, b_type, u_type, j_type, OPC, UsesImm
  <2> HIDE DEF i, s, b, u, j
  <2>5. /\ imm_gen(i) = step_imm(i) /\ imm_gen(s) = step_imm(s)
        /\ imm_gen(b) = step_imm(b) /\ imm_gen(u) = step_imm(u)
        /\ imm_gen(j) = step_imm(j)
    BY <2>3, <2>4, ImmGenOnEveryWord, SMT
  <2> QED
    BY <2>5, SMT DEF ImmGenAgrees, i, s, b, u, j
<1> QED
  BY <1>1, ValueInt, PTL

(* li, la and call load every 32-bit value.                                *)
THEOREM SplitAlwaysAddsUp == SweepSpec => []SplitAddsUp
<1>1. v \in Int => SplitAddsUp
  <2> SUFFICES ASSUME v \in Int PROVE SplitAddsUp
    OBVIOUS
  <2> DEFINE p  == Word32(v)
             hi == imm_u(u_type(OPC.LUI, x1, HiPart(p)))
             lo == imm_i(i_type(OPC.IMM, x1, 0, x1, LoPart(p)))
  <2>1. p \in Pair
    <3> DEFINE q == v \div 4096
    <3>1. q \in Int
      BY SMT
    <3> HIDE DEF q
    <3>2. /\ q % 1048576 \in Nat /\ q % 1048576 < 1048576
          /\ v % 4096 \in Nat /\ v % 4096 < 4096
      BY <3>1, SMT
    <3>3. p = [hi |-> q % 1048576, lo |-> v % 4096]
      BY SMT DEF Word32, q
    <3> QED
      BY <3>2, <3>3, SMT DEF Pair
  <2> HIDE DEF p
  <2>2. hi = [hi |-> HiPart(p), lo |-> 0]
    BY <2>1, CutAndAdd, RoundTripU, SMT
  <2>3. lo = Sext(LoPart(p), 2048)
    <3> DEFINE m == LoPart(p)
               w == i_type(OPC.IMM, x1, 0, x1, m)
    <3>1. m \in Int /\ 0 <= m /\ m < 4096
      BY <2>1, PairParts, SMT DEF LoPart
    <3>2. w.b31 * 2048 + w.b30_25 * 32 + w.b24_21 * 2 + w.b20
          = ((m \div 2048) % 2) * 2048 + ((m \div 32) % 64) * 32
              + ((m \div 2) % 16) * 2 + (m % 2)
      BY SMT DEF i_type
    <3> HIDE DEF m, w
    <3>3. imm_i(w) = Sext(m, 2048)
      BY <3>1, <3>2, Cut12, SMT DEF imm_i
    <3> QED
      BY <3>3, SMT DEF m, w
  <2> QED
    BY <2>1, <2>2, <2>3, CutAndAdd, SMT DEF SplitAddsUp, p
<1> QED
  BY <1>1, ValueInt, PTL

-----------------------------------------------------------------------------
(***************************************************************************)
(* Induction: a nonempty set of natural numbers has a least element.       *)
(***************************************************************************)
LEMMA Least ==
  ASSUME NEW S \in SUBSET Nat, S # {}
  PROVE  \E x \in S : \A y \in S : x <= y
<1>1. PICK R : /\ IsWellFoundedOn(R, Nat)
               /\ \A x, y \in Nat : x < y => <<x, y>> \in R
  <2>1. IsWellFoundedOn(OpToRel(<, Nat), Nat)
    BY NatLessThanWellFounded
  <2>2. \A x, y \in Nat : x < y => <<x, y>> \in OpToRel(<, Nat)
    BY DEF OpToRel
  <2>3. QED
    BY <2>1, <2>2
<1>2. PICK x \in S : \A y \in S : ~(<<y, x>> \in R)
  <2>1. IsWellFoundedOn(R, Nat)
    BY <1>1, Zenon
  <2>2. S \subseteq Nat
    OBVIOUS
  <2>3. QED
    BY <2>1, <2>2, WFMin, Zenon
<1>3. \A z, y \in Nat : z < y => <<z, y>> \in R
  BY <1>1, Zenon
<1>4. \A y \in S : ~(y < x)
  BY <1>2, <1>3, Zenon
<1>5. QED
  BY <1>4, SMT

(***************************************************************************)
(* The lines.                                                              *)
(***************************************************************************)
Source == [label: STRING \cup {None}, op: STRING \cup {None}, args: Seq(Token)]

Line == [label: STRING \cup {None}, op: STRING \cup {None}, args: Seq(Token),
         section: Sections, pc: Nat, size: Nat]

(* A line of the source in its place, with an .align that can be computed. *)
LineOK(l) ==
  /\ l \in Line
  /\ l.op = ".align" =>
       \A j \in DOMAIN l.args : \A n \in parse_int(l.args[j]) : n >= 0 => 2^n > 0

(* What tokenize() keeps are such lines: by induction on the source.       *)
LEMMA TokenizeType ==
  ASSUME NEW source \in Sources
  PROVE  \E L : tokenize(source) \in Seq(L) /\ \A l \in L : LineOK(l)
<1> DEFINE line(s) == [label |-> s.label, op |-> s.op, args |-> s.args,
                       section |-> "text", pc |-> 0, size |-> 0]
           blank(i) == source[i].label = None /\ source[i].op = None
           L == {line(source[i]) : i \in DOMAIN source}
           N == Len(source)
           F(s) == [i \in 0 .. N |->
                      IF i = 0 THEN <<>>
                      ELSE IF blank(i) THEN s[i - 1]
                      ELSE Append(s[i - 1], line(source[i]))]
           out == CHOOSE s : s = F(s)
<1>1. /\ source \in Seq(Source) /\ N \in Nat /\ DOMAIN source = 1 .. N
      /\ \A i \in 1 .. N : source[i] \in Source
  <2>1. source \in Seq(Source)
    BY SourcesAssumption DEF Source
  <2>2. QED
    BY <2>1
<1>2. ASSUME NEW l \in L PROVE LineOK(l)
  <2>1. PICK i \in 1 .. N : l = line(source[i])
    BY <1>1
  <2>2. source[i] \in Source
    BY <1>1
  <2>3. l.op = source[i].op /\ l.args = source[i].args
    BY <2>1
  <2>4. l \in Line
    BY <2>1, <2>2 DEF Source, Line, Sections
  <2>5. QED
    BY <1>1, <2>3, <2>4, AlignPowers DEF LineOK
<1> DEFINE Good(g, n) ==
             /\ g \in [0 .. n -> Seq(L)] /\ g[0] = <<>>
             /\ \A i \in 1 .. n : g[i] = IF blank(i) THEN g[i - 1]
                                         ELSE Append(g[i - 1], line(source[i]))
<1> HIDE DEF L, line, blank
<1>3. \E g : Good(g, N)
  <2> DEFINE S == {n \in 0 .. N : ~\E g : Good(g, n)}
  <2>1. SUFFICES ASSUME S # {} PROVE FALSE
    <3>1. N \in 0 .. N
      BY <1>1
    <3>2. QED
      BY <3>1
  <2>2. S \in SUBSET Nat
    OBVIOUS
  <2>3. PICK m \in S : \A y \in S : m <= y
    BY <2>1, <2>2, Least
  <2>4. m # 0
    <3>1. Good([n \in 0 .. 0 |-> <<>>], 0)
      OBVIOUS
    <3>2. QED
      BY <3>1
  <2>5. m \in 1 .. N /\ m - 1 \in 0 .. N /\ m - 1 \notin S
    <3>1. m \in 1 .. N /\ m - 1 \in 0 .. N /\ ~(m <= m - 1)
      BY <2>4, <1>1
    <3>2. QED
      BY <2>3, <3>1, Zenon
  <2>6. PICK g : Good(g, m - 1)
    BY <2>5
  <2> DEFINE top == IF blank(m) THEN g[m - 1] ELSE Append(g[m - 1], line(source[m]))
             gm == [i \in 0 .. m |-> IF i = m THEN top ELSE g[i]]
  <2> HIDE DEF S
  <2>7. top \in Seq(L)
    <3>1. g[m - 1] \in Seq(L)
      BY <2>5, <2>6
    <3>2. line(source[m]) \in L
      BY <1>1, <2>5 DEF L
    <3>3. QED
      BY <3>1, <3>2
  <2>8. Good(gm, m)
    <3>1. gm \in [0 .. m -> Seq(L)] /\ gm[0] = <<>>
      BY <2>5, <2>6, <2>7
    <3>2. ASSUME NEW i \in 1 .. m
          PROVE  gm[i] = IF blank(i) THEN gm[i - 1] ELSE Append(gm[i - 1], line(source[i]))
      <4>1. gm[i - 1] = g[i - 1] /\ i - 1 \in 0 .. m /\ i \in 0 .. m
        BY <2>5
      <4>2. CASE i = m
        BY <4>1, <4>2
      <4>3. CASE i # m
        <5>1. i \in 1 .. (m - 1)
          BY <4>3, <2>5
        <5>2. QED
          BY <4>1, <4>3, <5>1, <2>6
      <4>4. QED
        BY <4>2, <4>3
    <3>3. QED
      BY <3>1, <3>2
  <2>9. QED
    BY <2>3, <2>8 DEF S
<1>4. PICK g : Good(g, N)
  BY <1>3
<1>5. g = F(g)
  <2>1. g \in [0 .. N -> Seq(L)] /\ F(g) = [i \in 0 .. N |-> F(g)[i]]
    BY <1>4
  <2>2. ASSUME NEW i \in 0 .. N PROVE g[i] = F(g)[i]
    <3>1. CASE i = 0
      BY <1>4, <3>1
    <3>2. CASE i # 0
      <4>1. i \in 1 .. N
        BY <1>1, <3>2
      <4>2. QED
        BY <1>4, <4>1, <3>2
    <3>3. QED
      BY <3>1, <3>2
  <2>3. QED
    BY <2>1, <2>2
<1>6. out = F(out)
  BY <1>5
<1> HIDE DEF out
<1>a. /\ out[0] = <<>>
      /\ \A i \in 1 .. N : out[i] = IF blank(i) THEN out[i - 1]
                                    ELSE Append(out[i - 1], line(source[i]))
  <2>1. \A i \in 0 .. N : out[i] = IF i = 0 THEN <<>>
                                    ELSE IF blank(i) THEN out[i - 1]
                                    ELSE Append(out[i - 1], line(source[i]))
    BY <1>6
  <2>2. 0 \in 0 .. N /\ \A i \in 1 .. N : i \in 0 .. N /\ i # 0
    BY <1>1
  <2>3. QED
    BY <2>1, <2>2
<1>7. tokenize(source) = out[N]
  BY DEF tokenize, out, line, blank
<1>8. out[N] \in Seq(L)
  <2> DEFINE S == {n \in 0 .. N : out[n] \notin Seq(L)}
  <2>1. SUFFICES ASSUME S # {} PROVE FALSE
    BY <1>1
  <2>2. S \in SUBSET Nat
    OBVIOUS
  <2>3. PICK m \in S : \A y \in S : m <= y
    BY <2>1, <2>2, Least
  <2>4. m # 0
    <3>1. out[0] \in Seq(L)
      BY <1>a
    <3>2. QED
      BY <3>1
  <2>5. m \in 1 .. N /\ m - 1 \in 0 .. N /\ m - 1 \notin S
    <3>1. m \in 1 .. N /\ m - 1 \in 0 .. N /\ ~(m <= m - 1)
      BY <2>4, <1>1
    <3>2. QED
      BY <2>3, <3>1, Zenon
  <2>6. out[m] = IF blank(m) THEN out[m - 1] ELSE Append(out[m - 1], line(source[m]))
    BY <1>a, <2>5
  <2>7. line(source[m]) \in L /\ out[m - 1] \in Seq(L) /\ out[m] \notin Seq(L)
    BY <1>1, <2>5 DEF L
  <2>8. Append(out[m - 1], line(source[m])) \in Seq(L)
    BY <2>7
  <2>9. QED
    BY <2>6, <2>7, <2>8
<1>9. QED
  BY <1>2, <1>7, <1>8

(***************************************************************************)
(* One line: what encode_line returns has the shape and the size that      *)
(* pass1 reserves.                                                         *)
(***************************************************************************)
LEMMA NoDirective == None \notin {".text", ".data", ".align", ".word", ".byte"}
BY NoneAssumption

SymsOK(st) == \A x \in DOMAIN st : st[x] \in Nat

LEMMA RegType == ASSUME NEW tok PROVE parse_reg(tok) \subseteq 0 .. 31
BY DEF _REG_ALIASES, parse_reg, XNames, AsmError

LEMMA ResolveType ==
  ASSUME NEW tok \in Token, NEW st, SymsOK(st)
  PROVE  _resolve(tok, st) \subseteq Int /\ parse_int(tok) \subseteq Int
BY DEF _resolve, parse_int, AsmError, Token, SymsOK

LEMMA WordR ==
  ASSUME NEW op \in Int, NEW rd \in Int, NEW f3 \in Int, NEW rs1 \in Int, NEW rs2 \in Int,
         NEW f7 \in Int
  PROVE  r_type(op, rd, f3, rs1, rs2, f7) \in Slices
BY SMT DEF Slices, r_type

LEMMA WordI ==
  ASSUME NEW op \in Int, NEW rd \in Int, NEW f3 \in Int, NEW rs1 \in Int, NEW n \in Int
  PROVE  i_type(op, rd, f3, rs1, n) \in Slices
BY SMT DEF Slices, i_type

LEMMA WordS ==
  ASSUME NEW op \in Int, NEW f3 \in Int, NEW rs1 \in Int, NEW rs2 \in Int, NEW n \in Int
  PROVE  s_type(op, f3, rs1, rs2, n) \in Slices
BY SMT DEF Slices, s_type

LEMMA WordB ==
  ASSUME NEW op \in Int, NEW f3 \in Int, NEW rs1 \in Int, NEW rs2 \in Int, NEW n \in Int
  PROVE  b_type(op, f3, rs1, rs2, n) \in Slices
BY SMT DEF Slices, b_type

LEMMA OpcType ==
  /\ OPC.LUI \in Int /\ OPC.AUIPC \in Int /\ OPC.JAL \in Int /\ OPC.JALR \in Int
  /\ OPC.BRANCH \in Int /\ OPC.LOAD \in Int /\ OPC.STORE \in Int /\ OPC.IMM \in Int
  /\ OPC.REG \in Int /\ OPC.FENCE \in Int /\ OPC.SYSTEM \in Int
  /\ F3Op.ADD_SUB \in Int /\ F3Op.XOR \in Int /\ F3Op.SLL \in Int /\ F3Op.SR \in Int
  /\ F3Branch.BEQ \in Int /\ F3Branch.BNE \in Int
  /\ F7_DEFAULT \in Int /\ F7_ALT \in Int
BY DEF OPC, F3Op, F3Branch, F7_DEFAULT, F7_ALT

LEMMA TableTypes ==
  /\ \A op \in DOMAIN _R_TABLE : _R_TABLE[op][1] \in Int /\ _R_TABLE[op][2] \in Int
  /\ \A op \in DOMAIN _I_ALU_TABLE : _I_ALU_TABLE[op] \in Int
  /\ \A op \in DOMAIN _LOAD_TABLE : _LOAD_TABLE[op] \in Int
  /\ \A op \in DOMAIN _STORE_TABLE : _STORE_TABLE[op] \in Int
  /\ \A op \in DOMAIN _BRANCH_TABLE : _BRANCH_TABLE[op] \in Int
<1>1. \A op \in DOMAIN _R_TABLE : _R_TABLE[op][1] \in Int /\ _R_TABLE[op][2] \in Int
  BY DEF _R_TABLE, F3Op, F7_DEFAULT, F7_ALT
<1>2. \A op \in DOMAIN _I_ALU_TABLE : _I_ALU_TABLE[op] \in Int
  BY DEF _I_ALU_TABLE, F3Op
<1>3. /\ \A op \in DOMAIN _LOAD_TABLE : _LOAD_TABLE[op] \in Int
      /\ \A op \in DOMAIN _STORE_TABLE : _STORE_TABLE[op] \in Int
  BY DEF _LOAD_TABLE, _STORE_TABLE, F3Load, F3Store
<1>4. \A op \in DOMAIN _BRANCH_TABLE : _BRANCH_TABLE[op] \in Int
  BY DEF _BRANCH_TABLE, F3Branch
<1>5. QED
  BY <1>1, <1>2, <1>3, <1>4

OneWord(out) == \E w \in Slices : out = <<w>>
TwoWords(out) == \E w, x \in Slices : out = <<w, x>>

(* The arguments of a line and what becomes of the immediates.             *)
LEMMA ArgType ==
  ASSUME NEW l, LineOK(l)
  PROVE  /\ l.args \in Seq(Token) /\ Len(l.args) \in Nat /\ DOMAIN l.args = 1 .. Len(l.args)
         /\ \A i \in 1 .. Len(l.args) : l.args[i] \in Token
<1>1. l.args \in Seq(Token)
  BY DEF LineOK, Line
<1>2. QED
  BY <1>1

LEMMA FitType ==
  ASSUME NEW n \in Int, NEW half \in {2048, 4096, 1048576}
  PROVE  FitSigned(n, half) \subseteq Int /\ fit_signed(n, half) \in Int
BY DEF FitSigned, fit_signed, FitsSigned, AsmError

LEMMA FitAllType ==
  ASSUME NEW tok \in Token, NEW st, SymsOK(st)
  PROVE  /\ UNION {FitSigned(n, 2048) : n \in _resolve(tok, st)} \subseteq Int
         /\ UNION {fit_unsigned(n, 32) : n \in _resolve(tok, st)} \subseteq Int
<1>1. _resolve(tok, st) \subseteq Int
  BY ResolveType
<1>2. \A n \in _resolve(tok, st) : FitSigned(n, 2048) \subseteq Int
  BY <1>1, FitType
<1>3. \A n \in _resolve(tok, st) : fit_unsigned(n, 32) \subseteq Int
  BY <1>1 DEF fit_unsigned, AsmError
<1>4. QED
  BY <1>2, <1>3, SMT

LEMMA OffsetType ==
  ASSUME NEW l, LineOK(l), NEW st, SymsOK(st), NEW tok \in Token,
         NEW half \in {2048, 4096, 1048576}
  PROVE  AnyOffset(l, tok, st, half) \subseteq Int /\ EvenOffset(l, tok, st, half) \subseteq Int
<1>1. l.pc \in Int
  BY DEF LineOK, Line
<1>2. \A x \in _resolve(tok, st) : x - l.pc \in Int /\ FitSigned(x - l.pc, half) \subseteq Int
  BY <1>1, ResolveType, FitType
<1>3. QED
  BY <1>2 DEF AnyOffset, EvenOffset

(* The encoders of one instruction, by format.                             *)
LEMMA EncodeOneA ==
  ASSUME NEW l, LineOK(l), NEW st, SymsOK(st), NEW out
  PROVE  /\ l.op \in DOMAIN _R_TABLE /\ out \in EncodeAlu(l) => OneWord(out)
         /\ l.op \in DOMAIN _I_ALU_TABLE /\ out \in EncodeAluImm(l, st) => OneWord(out)
         /\ out \in EncodeShift(l, st) => OneWord(out)
         /\ l.op \in DOMAIN _LOAD_TABLE /\ out \in EncodeLoad(l, st) => OneWord(out)
         /\ l.op \in DOMAIN _STORE_TABLE /\ out \in EncodeStore(l, st) => OneWord(out)
         /\ l.op \in DOMAIN _BRANCH_TABLE /\ out \in EncodeBranch(l, st) => OneWord(out)
<1>1. ASSUME Len(l.args) = 3
      PROVE  l.args[1] \in Token /\ l.args[2] \in Token /\ l.args[3] \in Token
  BY <1>1, ArgType, SMT
<1>2. \A tok : parse_reg(tok) \subseteq Int
  BY RegType
<1>3. ASSUME l.op \in DOMAIN _R_TABLE, out \in EncodeAlu(l) PROVE OneWord(out)
  <2>1. PICK rd \in Int, rs1 \in Int, rs2 \in Int :
          out = <<r_type(OPC.REG, rd, _R_TABLE[l.op][1], rs1, rs2, _R_TABLE[l.op][2])>>
    BY <1>2, <1>3, SMT DEF EncodeAlu, AsmError
  <2>2. QED
    BY <1>3, <2>1, WordR, OpcType, TableTypes DEF OneWord
<1>4. ASSUME l.op \in DOMAIN _I_ALU_TABLE, out \in EncodeAluImm(l, st) PROVE OneWord(out)
  <2>1. Len(l.args) = 3
    BY <1>4, SMT DEF EncodeAluImm, AsmError, _expect_args
  <2>2. PICK rd \in parse_reg(l.args[1]), rs1 \in parse_reg(l.args[2]),
             n \in UNION {FitSigned(z, 2048) : z \in _resolve(l.args[3], st)} :
          out = <<i_type(OPC.IMM, rd, _I_ALU_TABLE[l.op], rs1, n)>>
    BY <1>4, <2>1, SMT DEF EncodeAluImm, _expect_args
  <2>3. rd \in Int /\ rs1 \in Int /\ n \in Int
    BY <1>1, <1>2, <2>1, <2>2, FitAllType, SMT
  <2>4. QED
    BY <1>4, <2>2, <2>3, WordI, OpcType, TableTypes DEF OneWord
<1>5. ASSUME out \in EncodeShift(l, st) PROVE OneWord(out)
  <2>1. Len(l.args) = 3
    BY <1>5, SMT DEF EncodeShift, AsmError, _expect_args
  <2>2. PICK rd \in parse_reg(l.args[1]), rs1 \in parse_reg(l.args[2]),
             n \in UNION {fit_unsigned(z, 32) : z \in _resolve(l.args[3], st)},
             f3 \in Int, f7 \in Int : out = <<r_type(OPC.IMM, rd, f3, rs1, n, f7)>>
    <3> DEFINE f3 == IF l.op = "slli" THEN F3Op.SLL ELSE F3Op.SR
               f7 == IF l.op = "srai" THEN F7_ALT ELSE F7_DEFAULT
    <3>1. f3 \in Int /\ f7 \in Int
      BY OpcType
    <3>2. EncodeShift(l, st)
            = {<<r_type(OPC.IMM, rd, f3, rs1, n, f7)>> : rd \in parse_reg(l.args[1]),
                 rs1 \in parse_reg(l.args[2]),
                 n \in UNION {fit_unsigned(z, 32) : z \in _resolve(l.args[3], st)}}
      BY <2>1, SMT DEF EncodeShift, _expect_args
    <3> HIDE DEF f3, f7
    <3>3. QED
      BY <1>5, <3>1, <3>2, SMT
  <2>3. rd \in Int /\ rs1 \in Int /\ n \in Int
    BY <1>1, <1>2, <2>1, <2>2, FitAllType, SMT
  <2>4. QED
    BY <2>2, <2>3, WordR, OpcType DEF OneWord
<1>6. ASSUME l.op \in DOMAIN _LOAD_TABLE, out \in EncodeLoad(l, st) PROVE OneWord(out)
  <2>1. Len(l.args) = 3
    BY <1>6, SMT DEF EncodeLoad, AsmError, _expect_args
  <2>2. PICK rd \in parse_reg(l.args[1]), rs1 \in parse_reg(l.args[3]),
             n \in UNION {FitSigned(z, 2048) : z \in _resolve(l.args[2], st)} :
          out = <<i_type(OPC.LOAD, rd, _LOAD_TABLE[l.op], rs1, n)>>
    BY <1>6, <2>1, SMT DEF EncodeLoad, _expect_args
  <2>3. rd \in Int /\ rs1 \in Int /\ n \in Int
    BY <1>1, <1>2, <2>1, <2>2, FitAllType, SMT
  <2>4. QED
    BY <1>6, <2>2, <2>3, WordI, OpcType, TableTypes DEF OneWord
<1>7. ASSUME l.op \in DOMAIN _STORE_TABLE, out \in EncodeStore(l, st) PROVE OneWord(out)
  <2>1. Len(l.args) = 3
    BY <1>7, SMT DEF EncodeStore, AsmError, _expect_args
  <2>2. PICK rs2 \in parse_reg(l.args[1]), rs1 \in parse_reg(l.args[3]),
             n \in UNION {FitSigned(z, 2048) : z \in _resolve(l.args[2], st)} :
          out = <<s_type(OPC.STORE, _STORE_TABLE[l.op], rs1, rs2, n)>>
    BY <1>7, <2>1, SMT DEF EncodeStore, _expect_args
  <2>3. rs2 \in Int /\ rs1 \in Int /\ n \in Int
    BY <1>1, <1>2, <2>1, <2>2, FitAllType, SMT
  <2>4. QED
    BY <1>7, <2>2, <2>3, WordS, OpcType, TableTypes DEF OneWord
<1>8. ASSUME l.op \in DOMAIN _BRANCH_TABLE, out \in EncodeBranch(l, st) PROVE OneWord(out)
  <2>1. Len(l.args) = 3
    BY <1>8, SMT DEF EncodeBranch, AsmError, _expect_args
  <2>2. PICK rs1 \in parse_reg(l.args[1]), rs2 \in parse_reg(l.args[2]),
             n \in EvenOffset(l, l.args[3], st, 4096) :
          out = <<b_type(OPC.BRANCH, _BRANCH_TABLE[l.op], rs1, rs2, n)>>
    BY <1>8, <2>1, SMT DEF EncodeBranch, _expect_args
  <2>3. rs1 \in Int /\ rs2 \in Int /\ n \in Int
    BY <1>1, <1>2, <2>1, <2>2, OffsetType, SMT
  <2>4. OPC.BRANCH \in Int /\ _BRANCH_TABLE[l.op] \in Int
    BY <1>8, OpcType, TableTypes
  <2>5. b_type(OPC.BRANCH, _BRANCH_TABLE[l.op], rs1, rs2, n) \in Slices
    BY <2>3, <2>4, WordB
  <2>6. QED
    BY <2>2, <2>5 DEF OneWord
<1>9. QED
  BY <1>3, <1>4, <1>5, <1>6, <1>7, <1>8

LEMMA EncodeOneB ==
  ASSUME NEW l, LineOK(l), NEW st, SymsOK(st), NEW out
  PROVE  /\ out \in EncodeJal(l, st) => OneWord(out)
         /\ out \in EncodeJalr(l, st) => OneWord(out)
         /\ out \in EncodeUpper(l, st) => OneWord(out)
         /\ out \in EncodeJ(l, st) => OneWord(out)
         /\ out \in EncodeJr(l) => OneWord(out)
         /\ out \in EncodeRet(l) => OneWord(out)
         /\ out \in EncodeBranchZero(l, st) => OneWord(out)
         /\ l.op \in {"mv", "not", "neg"} /\ out \in EncodeMove(l) => OneWord(out)
         /\ l.op \in DOMAIN Fixed => OneWord(<<Fixed[l.op]>>)
<1>1. \A i \in 1 .. Len(l.args) :
        /\ l.args[i] \in Token
        /\ _resolve(l.args[i], st) \subseteq Int
        /\ \A half \in {4096, 1048576} :
             /\ AnyOffset(l, l.args[i], st, half) \subseteq Int
             /\ EvenOffset(l, l.args[i], st, half) \subseteq Int
  BY ArgType, ResolveType, OffsetType
<1>2. \A tok : parse_reg(tok) \subseteq Int
  BY RegType
<1>3. ASSUME out \in EncodeJal(l, st) PROVE OneWord(out)
  <2>1. Len(l.args) = 1 \/ Len(l.args) = 2
    BY <1>3, SMT DEF EncodeJal, AsmError
  <2>2. CASE Len(l.args) = 1
    <3>1. PICK n \in EvenOffset(l, l.args[1], st, 1048576) : out = <<j_type(OPC.JAL, 1, n)>>
      BY <1>3, <2>2, SMT DEF EncodeJal
    <3>2. n \in Int
      BY <1>1, <2>2, <3>1, SMT
    <3>3. QED
      BY <3>1, <3>2, PacksUJ, OpcType DEF OneWord
  <2>3. CASE Len(l.args) = 2
    <3>1. PICK rd \in parse_reg(l.args[1]), n \in EvenOffset(l, l.args[2], st, 1048576) :
            out = <<j_type(OPC.JAL, rd, n)>>
      BY <1>3, <2>3, SMT DEF EncodeJal
    <3>2. n \in Int /\ rd \in Int
      BY <1>1, <1>2, <2>3, <3>1, SMT
    <3>3. QED
      BY <3>1, <3>2, PacksUJ, OpcType DEF OneWord
  <2>4. QED
    BY <2>1, <2>2, <2>3
<1>4. ASSUME out \in EncodeJalr(l, st) PROVE OneWord(out)
  <2>a. \A m \in Int : fit_signed(m, 2048) \in Int
    BY SMT DEF fit_signed
  <2> DEFINE Pack(rds, pairs) ==
               {<<i_type(OPC.JALR, rd, 0, p[1], fit_signed(p[2], 2048))>> :
                  rd \in rds, p \in {q \in pairs : FitsSigned(q[2], 2048)}}
  <2>1. ASSUME NEW rds, rds \subseteq Int, NEW pairs, pairs \subseteq Int \X Int,
               out \in Pack(rds, pairs)
        PROVE  OneWord(out)
    <3> DEFINE fits == {q \in pairs : FitsSigned(q[2], 2048)}
    <3>a. out \in {<<i_type(OPC.JALR, rd, 0, p[1], fit_signed(p[2], 2048))>> :
                     rd \in rds, p \in fits}
      BY <2>1
    <3>b. fits \subseteq pairs
      OBVIOUS
    <3> HIDE DEF fits
    <3>1. PICK rd \in rds, p \in pairs :
            out = <<i_type(OPC.JALR, rd, 0, p[1], fit_signed(p[2], 2048))>>
      BY <3>a, <3>b, SMT
    <3>2. rd \in Int /\ p[1] \in Int /\ p[2] \in Int
      BY <2>1, <3>1
    <3>3. fit_signed(p[2], 2048) \in Int
      BY <3>2, <2>a, SMT
    <3>4. i_type(OPC.JALR, rd, 0, p[1], fit_signed(p[2], 2048)) \in Slices
      BY <3>2, <3>3, SMTT(15) DEF OPC, Slices, i_type
    <3>5. QED
      BY <3>1, <3>4 DEF OneWord
  <2>2. Len(l.args) = 1 \/ Len(l.args) = 3
    BY <1>4, SMT DEF EncodeJalr, AsmError
  <2>3. CASE Len(l.args) = 1
    <3>1. EncodeJalr(l, st) = Pack({1}, parse_reg(l.args[1]) \X {0})
      BY <2>3, SMT DEF EncodeJalr
    <3> HIDE DEF Pack
    <3>2. parse_reg(l.args[1]) \X {0} \subseteq Int \X Int
      BY <1>2
    <3>3. QED
      BY <1>4, <2>1, <3>1, <3>2
  <2>4. CASE Len(l.args) = 3
    <3> DEFINE first == parse_reg(l.args[2]) \X _resolve(l.args[3], st)
               other == parse_reg(l.args[3]) \X _resolve(l.args[2], st)
    <3>1. EncodeJalr(l, st) = Pack(parse_reg(l.args[1]), IF first # AsmError THEN first ELSE other)
      BY <2>4, SMT DEF EncodeJalr
    <3> HIDE DEF Pack
    <3>2. first \subseteq Int \X Int /\ other \subseteq Int \X Int
      <4>1. _resolve(l.args[3], st) \subseteq Int /\ _resolve(l.args[2], st) \subseteq Int
        BY <1>1, <2>4, SMT
      <4>2. QED
        BY <4>1, <1>2
    <3> HIDE DEF first, other
    <3>3. QED
      BY <1>2, <1>4, <2>1, <3>1, <3>2
  <2>5. QED
    BY <2>2, <2>3, <2>4
<1>5. ASSUME out \in EncodeUpper(l, st) PROVE OneWord(out)
  <2>1. Len(l.args) = 2
    BY <1>5, SMT DEF EncodeUpper, AsmError, _expect_args
  <2> DEFINE opc == IF l.op = "lui" THEN OPC.LUI ELSE OPC.AUIPC
  <2>2. PICK rd \in parse_reg(l.args[1]), n \in _resolve(l.args[2], st) :
          out = <<u_type(opc, rd, n % 1048576)>>
    BY <1>5, <2>1, SMT DEF EncodeUpper, _expect_args
  <2>3. rd \in Int /\ n % 1048576 \in Int /\ opc \in Int
    BY <1>1, <1>2, <2>1, <2>2, OpcType, SMT
  <2> HIDE DEF opc
  <2>4. QED
    BY <2>2, <2>3, PacksUJ DEF OneWord
<1>6. ASSUME out \in EncodeJ(l, st) PROVE OneWord(out)
  <2>1. Len(l.args) = 1
    BY <1>6, SMT DEF EncodeJ, AsmError, _expect_args
  <2>2. PICK n \in AnyOffset(l, l.args[1], st, 1048576) : out = <<j_type(OPC.JAL, 0, n)>>
    BY <1>6, <2>1, SMT DEF EncodeJ, _expect_args
  <2>3. n \in Int
    BY <1>1, <2>1, <2>2, SMT
  <2>4. QED
    BY <2>2, <2>3, PacksUJ, OpcType DEF OneWord
<1>7. ASSUME out \in EncodeJr(l) \/ out \in EncodeRet(l) PROVE OneWord(out)
  <2>1. PICK rs1 \in Int : out = <<i_type(OPC.JALR, 0, 0, rs1, 0)>>
    BY <1>2, <1>7, SMT DEF EncodeJr, EncodeRet, AsmError
  <2>2. i_type(OPC.JALR, 0, 0, rs1, 0) \in Slices
    BY SMT DEF OPC, Slices, i_type
  <2>3. QED
    BY <2>1, <2>2 DEF OneWord
<1>8. ASSUME out \in EncodeBranchZero(l, st) PROVE OneWord(out)
  <2>1. Len(l.args) = 2
    BY <1>8, SMT DEF EncodeBranchZero, AsmError, _expect_args
  <2> DEFINE f3 == IF l.op = "beqz" THEN F3Branch.BEQ ELSE F3Branch.BNE
  <2>2. PICK rs1 \in parse_reg(l.args[1]), n \in AnyOffset(l, l.args[2], st, 4096) :
          out = <<b_type(OPC.BRANCH, f3, rs1, 0, n)>>
    BY <1>8, <2>1, SMT DEF EncodeBranchZero, _expect_args
  <2>3. rs1 \in Int /\ n \in Int /\ f3 \in Int
    BY <1>1, <1>2, <2>1, <2>2, OpcType, SMT
  <2> HIDE DEF f3
  <2>4. b_type(OPC.BRANCH, f3, rs1, 0, n) \in Slices
    BY <2>3, SMT DEF OPC, Slices, b_type
  <2>5. QED
    BY <2>2, <2>4 DEF OneWord
<1>9. ASSUME l.op \in {"mv", "not", "neg"}, out \in EncodeMove(l) PROVE OneWord(out)
  <2> DEFINE w(rd, rs) == CASE l.op = "mv"  -> i_type(OPC.IMM, rd, F3Op.ADD_SUB, rs, 0)
                            [] l.op = "not" -> i_type(OPC.IMM, rd, F3Op.XOR, rs, 4095)
                            [] l.op = "neg" -> r_type(OPC.REG, rd, F3Op.ADD_SUB, 0, rs, F7_ALT)
  <2>1. ASSUME NEW rd \in Int, NEW rs \in Int PROVE w(rd, rs) \in Slices
    <3>1. /\ i_type(OPC.IMM, rd, F3Op.ADD_SUB, rs, 0) \in Slices
          /\ i_type(OPC.IMM, rd, F3Op.XOR, rs, 4095) \in Slices
          /\ r_type(OPC.REG, rd, F3Op.ADD_SUB, 0, rs, F7_ALT) \in Slices
      BY SMT DEF OPC, F3Op, F7_ALT, Slices, i_type, r_type
    <3>2. QED
      BY <1>9, <3>1
  <2>2. PICK rd \in parse_reg(l.args[1]), rs \in parse_reg(l.args[2]) : out = <<w(rd, rs)>>
    BY <1>9, SMT DEF EncodeMove, AsmError
  <2> HIDE DEF w
  <2>3. QED
    BY <1>2, <2>1, <2>2, SMT DEF OneWord
<1>10. ASSUME l.op \in DOMAIN Fixed PROVE OneWord(<<Fixed[l.op]>>)
  <2>1. /\ i_type(OPC.FENCE, 0, 0, 0, 255) \in Slices
        /\ i_type(OPC.FENCE, 0, 1, 0, 0) \in Slices
        /\ i_type(OPC.SYSTEM, 0, 0, 0, F12_ECALL) \in Slices
        /\ i_type(OPC.SYSTEM, 0, 0, 0, F12_EBREAK) \in Slices
        /\ Nop \in Slices
    BY SMT DEF OPC, F3Op, Slices, i_type, Nop, F12_ECALL, F12_EBREAK
  <2>2. Fixed[l.op] \in Slices
    BY <1>10, <2>1 DEF Fixed
  <2>3. QED
    BY <2>2 DEF OneWord
<1>11. QED
  BY <1>3, <1>4, <1>5, <1>6, <1>7, <1>8, <1>9, <1>10

LEMMA WordPair == ASSUME NEW n \in Int PROVE Word32(n) \in Pair
BY SMT DEF Word32, Pair

LEMMA PartTypes ==
  ASSUME NEW p \in Pair PROVE HiPart(p) \in Int /\ LoPart(p) \in Int
BY SMT DEF HiPart, LoPart, Pair

(* The pseudo-instructions of two words.                                   *)
LEMMA EncodeTwo ==
  ASSUME NEW l, LineOK(l), NEW st, SymsOK(st), NEW out
  PROVE  /\ out \in EncodeLi(l, st) => TwoWords(out)
         /\ out \in EncodeLa(l, st) => TwoWords(out)
         /\ out \in EncodeCall(l, st) => TwoWords(out)
<1>1. \A i \in 1 .. Len(l.args) : _resolve(l.args[i], st) \subseteq Int
  BY ArgType, ResolveType
<1>2. \A tok : parse_reg(tok) \subseteq Int
  BY RegType
<1>3. l.pc \in Int
  BY DEF LineOK, Line
<1>4. ASSUME out \in EncodeLi(l, st) PROVE TwoWords(out)
  <2>1. Len(l.args) = 2
    BY <1>4, SMT DEF EncodeLi, AsmError, _expect_args
  <2> DEFINE short(rd, n) == <<i_type(OPC.IMM, rd, F3Op.ADD_SUB, 0, n % 4096), Nop>>
             long(rd, n) == <<u_type(OPC.LUI, rd, HiPart(Word32(n))),
                              i_type(OPC.IMM, rd, F3Op.ADD_SUB, rd, LoPart(Word32(n)))>>
  <2>2. PICK rd \in parse_reg(l.args[1]), n \in _resolve(l.args[2], st) :
          out = IF FitsSigned(n, 2048) THEN short(rd, n) ELSE long(rd, n)
    BY <1>4, <2>1, SMT DEF EncodeLi, _expect_args
  <2>3. rd \in Int /\ n \in Int
    BY <1>1, <1>2, <2>1, <2>2, SMT
  <2>4. TwoWords(short(rd, n))
    <3>1. i_type(OPC.IMM, rd, F3Op.ADD_SUB, 0, n % 4096) \in Slices /\ Nop \in Slices
      BY <2>3, SMT DEF OPC, F3Op, Slices, i_type, Nop
    <3>2. QED
      BY <3>1 DEF TwoWords
  <2>5. TwoWords(long(rd, n))
    <3>1. HiPart(Word32(n)) \in Int /\ LoPart(Word32(n)) \in Int
      BY <2>3, WordPair, PartTypes
    <3>2. u_type(OPC.LUI, rd, HiPart(Word32(n))) \in Slices
      BY <2>3, <3>1, PacksUJ, OpcType
    <3>3. i_type(OPC.IMM, rd, F3Op.ADD_SUB, rd, LoPart(Word32(n))) \in Slices
      BY <2>3, <3>1, WordI, OpcType
    <3>4. QED
      BY <3>2, <3>3 DEF TwoWords
  <2> HIDE DEF short, long
  <2>6. QED
    BY <2>2, <2>4, <2>5
<1>5. ASSUME NEW op \in {OPC.IMM, OPC.JALR}, NEW rd \in Int, NEW f3 \in {F3Op.ADD_SUB, 0},
             NEW n \in Int
      PROVE  TwoWords(<<u_type(OPC.AUIPC, rd, HiPart(Word32(n))),
                        i_type(op, rd, f3, rd, LoPart(Word32(n)))>>)
  <2>1. HiPart(Word32(n)) \in Int /\ LoPart(Word32(n)) \in Int
    BY WordPair, PartTypes
  <2>2. u_type(OPC.AUIPC, rd, HiPart(Word32(n))) \in Slices
    BY <2>1, PacksUJ, OpcType
  <2>3. i_type(op, rd, f3, rd, LoPart(Word32(n))) \in Slices
    <3>1. op \in Int /\ f3 \in Int
      BY OpcType
    <3>2. QED
      BY <2>1, <3>1, WordI
  <2>4. QED
    BY <2>2, <2>3 DEF TwoWords
<1>6. ASSUME out \in EncodeLa(l, st) PROVE TwoWords(out)
  <2>1. Len(l.args) = 2
    BY <1>6, SMT DEF EncodeLa, AsmError, _expect_args
  <2>2. PICK rd \in parse_reg(l.args[1]), n \in _resolve(l.args[2], st) :
          out = <<u_type(OPC.AUIPC, rd, HiPart(Word32(n - l.pc))),
                  i_type(OPC.IMM, rd, F3Op.ADD_SUB, rd, LoPart(Word32(n - l.pc)))>>
    BY <1>6, <2>1, SMT DEF EncodeLa, _expect_args
  <2>3. rd \in Int /\ n - l.pc \in Int
    BY <1>1, <1>2, <1>3, <2>1, <2>2, SMT
  <2>4. QED
    BY <1>5, <2>2, <2>3
<1>7. ASSUME out \in EncodeCall(l, st) PROVE TwoWords(out)
  <2>1. Len(l.args) = 1
    BY <1>7, SMT DEF EncodeCall, AsmError, _expect_args
  <2>2. PICK n \in _resolve(l.args[1], st) :
          out = <<u_type(OPC.AUIPC, 1, HiPart(Word32(n - l.pc))),
                  i_type(OPC.JALR, 1, 0, 1, LoPart(Word32(n - l.pc)))>>
    BY <1>7, <2>1, SMT DEF EncodeCall, _expect_args
  <2>3. n - l.pc \in Int
    BY <1>1, <1>3, <2>1, <2>2, SMT
  <2>4. QED
    BY <1>5, <2>2, <2>3
<1>8. QED
  BY <1>4, <1>6, <1>7

(* The values of a .word or .byte.                                         *)
LEMMA DataType ==
  ASSUME NEW l, LineOK(l), NEW st, SymsOK(st), NEW out \in EncodeData(l, st)
  PROVE  /\ \A i \in DOMAIN l.args : _resolve(l.args[i], st) # {}
         /\ out = [i \in DOMAIN l.args |->
                     IF l.op = ".word" THEN Word32(CHOOSE n \in _resolve(l.args[i], st) : TRUE)
                     ELSE (CHOOSE n \in _resolve(l.args[i], st) : TRUE) % 256]
         /\ l.op = ".word" => out \in [1 .. Len(l.args) -> Pair]
         /\ l.op # ".word" => out \in [1 .. Len(l.args) -> 0 .. 255]
<1> DEFINE resolved == [i \in DOMAIN l.args |-> _resolve(l.args[i], st)]
           value(i) == CHOOSE n \in _resolve(l.args[i], st) : TRUE
<1>1. \A i \in DOMAIN l.args : _resolve(l.args[i], st) \subseteq Int
  BY ArgType, ResolveType
<1>2. AsmError \notin Range(resolved)
  BY DEF EncodeData, AsmError
<1>3. ASSUME NEW i \in DOMAIN l.args PROVE _resolve(l.args[i], st) # {}
  <2>1. resolved[i] \in Range(resolved)
    BY DEF Range
  <2>2. QED
    BY <1>2, <2>1 DEF AsmError
<1>4. out = [i \in DOMAIN l.args |-> IF l.op = ".word" THEN Word32(value(i))
                                     ELSE value(i) % 256]
  BY <1>2 DEF EncodeData
<1>5. \A i \in DOMAIN l.args : value(i) \in Int
  BY <1>1, <1>3
<1>6. \A i \in DOMAIN l.args : Word32(value(i)) \in Pair /\ value(i) % 256 \in 0 .. 255
  <2> HIDE DEF value
  <2>1. QED
    BY <1>5, WordPair
<1>7. DOMAIN l.args = 1 .. Len(l.args)
  BY ArgType
<1>8. QED
  <2> HIDE DEF value
  <2>1. /\ l.op = ".word" => out \in [1 .. Len(l.args) -> Pair]
        /\ l.op # ".word" => out \in [1 .. Len(l.args) -> 0 .. 255]
    BY <1>4, <1>6, <1>7
  <2>2. QED
    BY <1>3, <1>4, <2>1 DEF value

(* encode_line, all mnemonics: the shape of what it returns.               *)
LEMMA EncodeShape ==
  ASSUME NEW l, LineOK(l), NEW st, SymsOK(st), NEW out \in encode_line(l, st)
  PROVE  CASE l.op \in {".text", ".data", ".align"} -> out = <<>>
           [] l.op = ".word" -> out \in [1 .. Len(l.args) -> Pair]
           [] l.op = ".byte" -> out \in [1 .. Len(l.args) -> 0 .. 255]
           [] l.op \in {"li", "la", "call"} -> TwoWords(out)
           [] OTHER -> OneWord(out)
<1>1. CASE l.op \in {".text", ".data", ".align"}
  <2>1. out \in {<<>>}
    BY <1>1 DEF encode_line, _R_TABLE, _I_ALU_TABLE, _LOAD_TABLE, _STORE_TABLE,
                _BRANCH_TABLE, Shifts, Fixed
  <2>2. QED
    BY <1>1, <2>1
<1>2. CASE l.op \in {".word", ".byte"}
  <2>1. out \in EncodeData(l, st)
    BY <1>2 DEF encode_line, _R_TABLE, _I_ALU_TABLE, _LOAD_TABLE, _STORE_TABLE,
                _BRANCH_TABLE, Shifts, Fixed
  <2>2. QED
    BY <1>2, <2>1, DataType
<1>3. CASE l.op \in {"li", "la", "call"}
  <2>1. \/ out \in EncodeLi(l, st) \/ out \in EncodeLa(l, st) \/ out \in EncodeCall(l, st)
    BY <1>3 DEF encode_line, _R_TABLE, _I_ALU_TABLE, _LOAD_TABLE, _STORE_TABLE,
                _BRANCH_TABLE, Shifts, Fixed
  <2>2. QED
    BY <1>3, <2>1, EncodeTwo
<1>4. CASE l.op \notin {".text", ".data", ".align", ".word", ".byte", "li", "la", "call"}
  <2>1. \/ l.op \in DOMAIN _R_TABLE /\ out \in EncodeAlu(l)
        \/ l.op \in DOMAIN _I_ALU_TABLE /\ out \in EncodeAluImm(l, st)
        \/ out \in EncodeShift(l, st)
        \/ l.op \in DOMAIN _LOAD_TABLE /\ out \in EncodeLoad(l, st)
        \/ l.op \in DOMAIN _STORE_TABLE /\ out \in EncodeStore(l, st)
        \/ l.op \in DOMAIN _BRANCH_TABLE /\ out \in EncodeBranch(l, st)
        \/ out \in EncodeJal(l, st)
        \/ out \in EncodeJalr(l, st)
        \/ out \in EncodeUpper(l, st)
        \/ l.op \in DOMAIN Fixed /\ out = <<Fixed[l.op]>>
        \/ l.op \in {"mv", "not", "neg"} /\ out \in EncodeMove(l)
        \/ out \in EncodeJ(l, st)
        \/ out \in EncodeJr(l)
        \/ out \in EncodeRet(l)
        \/ out \in EncodeBranchZero(l, st)
    BY <1>4 DEF encode_line, AsmError
  <2>2. OneWord(out)
    BY <2>1, EncodeOneA, EncodeOneB
  <2>3. QED
    BY <1>4, <2>2
<1>5. QED
  BY <1>1, <1>2, <1>3, <1>4

(***************************************************************************)
(* The bytes of one line.                                                  *)
(***************************************************************************)
(* The size of a line, wherever it lies; .align takes what it needs.       *)
Reserved(l) ==
  CASE l.op \in {None, ".text", ".data", ".align"} -> 0
    [] l.op = ".word" -> 4 * Len(l.args)
    [] l.op = ".byte" -> Len(l.args)
    [] OTHER          -> _instruction_size(l.op)

LEMMA FcnSeq ==
  ASSUME NEW S, NEW n \in Nat, NEW f \in [1 .. n -> S]
  PROVE  f \in Seq(S) /\ Len(f) = n /\ DOMAIN f = 1 .. n
<1>1. f \in Seq(S)
  BY SeqDef
<1>2. Len(f) \in Nat /\ DOMAIN f = 1 .. Len(f) /\ DOMAIN f = 1 .. n
  BY <1>1, LenProperties
<1>3. QED
  BY <1>1, <1>2, SMT

LEMMA FourBytes ==
  ASSUME NEW b1 \in 0 .. 255, NEW b2 \in 0 .. 255, NEW b3 \in 0 .. 255, NEW b4 \in 0 .. 255
  PROVE  <<b1, b2, b3, b4>> \in [1 .. 4 -> 0 .. 255]
OBVIOUS

LEMMA InsnBytesType ==
  ASSUME NEW w \in Slices
  PROVE  InsnBytes(w) \in [1 .. 4 -> 0 .. 255]
<1>1. /\ w.opcode + 128 * w.b7 \in 0 .. 255
      /\ w.b11_8 + 16 * w.b14_12 + 128 * (w.b19_15 % 2) \in 0 .. 255
      /\ (w.b19_15 \div 2) + 16 * w.b20 + 32 * (w.b24_21 % 8) \in 0 .. 255
      /\ (w.b24_21 \div 8) + 2 * w.b30_25 + 128 * w.b31 \in 0 .. 255
  BY SMT DEF Slices
<1>2. QED
  <2> DEFINE b1 == w.opcode + 128 * w.b7
             b2 == w.b11_8 + 16 * w.b14_12 + 128 * (w.b19_15 % 2)
             b3 == (w.b19_15 \div 2) + 16 * w.b20 + 32 * (w.b24_21 % 8)
             b4 == (w.b24_21 \div 8) + 2 * w.b30_25 + 128 * w.b31
  <2>1. InsnBytes(w) = <<b1, b2, b3, b4>>
    BY DEF InsnBytes
  <2> HIDE DEF b1, b2, b3, b4
  <2>2. b1 \in 0 .. 255 /\ b2 \in 0 .. 255 /\ b3 \in 0 .. 255 /\ b4 \in 0 .. 255
    BY <1>1 DEF b1, b2, b3, b4
  <2>3. <<b1, b2, b3, b4>> \in [1 .. 4 -> 0 .. 255]
    BY <2>2, FourBytes, Zenon
  <2>4. QED
    BY <2>1, <2>3, Zenon

LEMMA PairBytesType ==
  ASSUME NEW p \in Pair
  PROVE  PairBytes(p) \in [1 .. 4 -> 0 .. 255]
<1> DEFINE b1 == p.lo % 256
           b2 == (p.lo \div 256) + 16 * (p.hi % 16)
           b3 == (p.hi \div 16) % 256
           b4 == p.hi \div 4096
<1>1. p.hi \in Int /\ p.lo \in Int /\ 0 <= p.hi /\ p.hi < 1048576 /\ 0 <= p.lo /\ p.lo < 4096
  BY DEF Pair
<1>2. b1 \in 0 .. 255 /\ b3 \in 0 .. 255
  BY <1>1, SMT
<1>3. b2 \in 0 .. 255
  <2>1. p.lo \div 256 \in 0 .. 15 /\ p.hi % 16 \in 0 .. 15
    BY <1>1, SMT
  <2>2. QED
    BY <2>1, SMT
<1>4. b4 \in 0 .. 255
  BY <1>1, SMT
<1>5. PairBytes(p) = <<b1, b2, b3, b4>>
  BY DEF PairBytes
<1> HIDE DEF b1, b2, b3, b4
<1>6. <<b1, b2, b3, b4>> \in [1 .. 4 -> 0 .. 255]
  BY <1>2, <1>3, <1>4, FourBytes, Zenon
<1>7. QED
  BY <1>5, <1>6, Zenon

LEMMA Quarters ==
  ASSUME NEW n \in Nat, NEW i \in 1 .. 4 * n
  PROVE  ((i - 1) \div 4) + 1 \in 1 .. n /\ ((i - 1) % 4) + 1 \in 1 .. 4
BY SMT

(* What pass2 writes for a line is as long as what pass1 reserves.         *)
LEMMA BytesFit ==
  ASSUME NEW l, LineOK(l), NEW st, SymsOK(st),
         NEW out \in (IF l.op = None THEN {<<>>} ELSE encode_line(l, st))
  PROVE  /\ Reserved(l) \in Nat
         /\ BytesOf(l.op, out) \in [1 .. Reserved(l) -> 0 .. 255]
         /\ Len(BytesOf(l.op, out)) = Reserved(l)
<1>1. SUFFICES Reserved(l) \in Nat /\ BytesOf(l.op, out) \in [1 .. Reserved(l) -> 0 .. 255]
  BY FcnSeq
<1>2. Len(l.args) \in Nat
  BY ArgType
<1>3. CASE l.op \in {None, ".text", ".data", ".align"}
  <2>1. out = <<>>
    BY <1>3, EncodeShape
  <2>2. Reserved(l) = 0
    BY <1>3, NoDirective DEF Reserved
  <2>3. BytesOf(l.op, out) = [i \in 1 .. 4 * Len(out) |->
                                InsnBytes(out[((i - 1) \div 4) + 1])[((i - 1) % 4) + 1]]
    BY <1>3, NoDirective DEF BytesOf
  <2>4. 4 * Len(out) = 0
    BY <2>1
  <2>5. QED
    BY <2>2, <2>3, <2>4
<1>4. CASE l.op = ".byte"
  <2>1. l.op # None
    BY <1>4, NoDirective
  <2>2. out \in [1 .. Len(l.args) -> 0 .. 255]
    BY <1>4, <2>1, EncodeShape
  <2>3. Reserved(l) = Len(l.args) /\ BytesOf(l.op, out) = out
    BY <1>4, NoDirective DEF Reserved, BytesOf
  <2>4. QED
    BY <1>2, <2>2, <2>3
<1>5. CASE l.op = ".word"
  <2>1. l.op # None
    BY <1>5, NoDirective
  <2>2. out \in [1 .. Len(l.args) -> Pair]
    BY <1>5, <2>1, EncodeShape
  <2>3. Len(out) = Len(l.args)
    BY <1>2, <2>2, FcnSeq
  <2>4. /\ Reserved(l) = 4 * Len(l.args)
        /\ BytesOf(l.op, out) = [i \in 1 .. 4 * Len(l.args) |->
                                   PairBytes(out[((i - 1) \div 4) + 1])[((i - 1) % 4) + 1]]
    BY <1>5, <2>3, NoDirective DEF Reserved, BytesOf
  <2>5. ASSUME NEW i \in 1 .. 4 * Len(l.args)
        PROVE  PairBytes(out[((i - 1) \div 4) + 1])[((i - 1) % 4) + 1] \in 0 .. 255
    <3>1. ((i - 1) \div 4) + 1 \in 1 .. Len(l.args) /\ ((i - 1) % 4) + 1 \in 1 .. 4
      BY <1>2, Quarters
    <3>2. PairBytes(out[((i - 1) \div 4) + 1]) \in [1 .. 4 -> 0 .. 255]
      BY <2>2, <3>1, PairBytesType
    <3>3. QED
      BY <3>1, <3>2
  <2>6. [i \in 1 .. 4 * Len(l.args) |->
           PairBytes(out[((i - 1) \div 4) + 1])[((i - 1) % 4) + 1]]
          \in [1 .. 4 * Len(l.args) -> 0 .. 255]
    BY <2>5, Zenon
  <2>7. 4 * Len(l.args) \in Nat
    BY <1>2
  <2>8. QED
    BY <2>4, <2>6, <2>7, Zenon
<1>6. CASE l.op \notin {None, ".text", ".data", ".align", ".word", ".byte"}
  <2>1. PICK n \in {1, 2} : out \in [1 .. n -> Slices] /\ Reserved(l) = 4 * n
    <3>1. CASE l.op \in {"li", "la", "call"}
      <4>1. PICK w \in Slices, x \in Slices : out = <<w, x>>
        BY <1>6, <3>1, EncodeShape DEF TwoWords
      <4>2. Reserved(l) = 4 * 2
        BY <1>6, <3>1 DEF Reserved, _instruction_size, _TWO_INSN_PSEUDOS
      <4>3. out \in [1 .. 2 -> Slices]
        BY <4>1
      <4>4. QED
        BY <4>2, <4>3
    <3>2. CASE l.op \notin {"li", "la", "call"}
      <4>1. PICK w \in Slices : out = <<w>>
        BY <1>6, <3>2, EncodeShape DEF OneWord
      <4>2. Reserved(l) = 4 * 1
        BY <1>6, <3>2 DEF Reserved, _instruction_size, _TWO_INSN_PSEUDOS
      <4>3. out \in [1 .. 1 -> Slices]
        BY <4>1
      <4>4. QED
        BY <4>2, <4>3
    <3>3. QED
      BY <3>1, <3>2
  <2>2. n \in Nat /\ Len(out) = n
    BY <2>1, FcnSeq
  <2>3. BytesOf(l.op, out) = [i \in 1 .. 4 * n |->
                                InsnBytes(out[((i - 1) \div 4) + 1])[((i - 1) % 4) + 1]]
    BY <1>6, <2>2 DEF BytesOf
  <2>4. ASSUME NEW i \in 1 .. 4 * n
        PROVE  InsnBytes(out[((i - 1) \div 4) + 1])[((i - 1) % 4) + 1] \in 0 .. 255
    <3>1. ((i - 1) \div 4) + 1 \in 1 .. n /\ ((i - 1) % 4) + 1 \in 1 .. 4
      BY <2>2, Quarters
    <3>2. InsnBytes(out[((i - 1) \div 4) + 1]) \in [1 .. 4 -> 0 .. 255]
      BY <2>1, <3>1, InsnBytesType
    <3>3. QED
      BY <3>1, <3>2
  <2>5. BytesOf(l.op, out) \in [1 .. 4 * n -> 0 .. 255]
    <3> DEFINE F(i) == InsnBytes(out[((i - 1) \div 4) + 1])[((i - 1) % 4) + 1]
    <3>1. \A i \in 1 .. 4 * n : F(i) \in 0 .. 255
      BY <2>4
    <3>2. BytesOf(l.op, out) = [i \in 1 .. 4 * n |-> F(i)]
      BY <2>3
    <3> HIDE DEF F
    <3>3. QED
      BY <3>1, <3>2
  <2>6. QED
    BY <2>1, <2>5
<1>7. QED
  BY <1>3, <1>4, <1>5, <1>6

(***************************************************************************)
(* Moving the point of alignment by a multiple of the boundary, and the    *)
(* bounds of the rounding.                                                 *)
(***************************************************************************)
LEMMA AlignBounds ==
  ASSUME NEW x \in Nat, NEW n \in Nat, 2^n > 0
  PROVE  AlignUp(x, n) \in Nat /\ x <= AlignUp(x, n)
<1>1. ASSUME NEW b \in Int, b > 0
      PROVE  ((x + b - 1) \div b) * b \in Nat /\ x <= ((x + b - 1) \div b) * b
  BY <1>1, SMT
<1>2. 2^n \in Int
  BY SMT
<1>3. QED
  BY <1>1, <1>2 DEF AlignUp

OnPage(base) == base % 4096 = 0

LEMMA AlignShift ==
  ASSUME NEW x \in Nat, NEW n \in 0 .. 12, NEW base \in Nat, OnPage(base)
  PROVE  AlignUp(base + x, n) = base + AlignUp(x, n)
<1>1. ASSUME NEW b \in Int, b > 0, base % b = 0
      PROVE  ((base + x + b - 1) \div b) * b = base + ((x + b - 1) \div b) * b
  <2> DEFINE q == base \div b
             y == x + b - 1
  <2>1. base = b * q /\ q \in Int /\ y \in Int /\ base + x + b - 1 = b * q + y
    BY <1>1, SMT
  <2> HIDE DEF q, y
  <2>2. (b * q + y) \div b = q + (y \div b)
    BY <1>1, <2>1, SMT
  <2>3. (q + (y \div b)) * b = b * q + (y \div b) * b
    BY <1>1, <2>1, SMT
  <2>4. QED
    BY <1>1, <2>1, <2>2, <2>3 DEF y
<1>2. 2^n \in Int /\ 2^n > 0 /\ base % 2^n = 0
  <2>1. n \in {0, 1, 2, 3, 4, 5, 6, 7, 8, 9, 10, 11, 12}
    BY SMT
  <2>2. /\ base % 1 = 0 /\ base % 2 = 0 /\ base % 4 = 0 /\ base % 8 = 0 /\ base % 16 = 0
        /\ base % 32 = 0 /\ base % 64 = 0 /\ base % 128 = 0 /\ base % 256 = 0
        /\ base % 512 = 0 /\ base % 1024 = 0 /\ base % 2048 = 0 /\ base % 4096 = 0
    BY SMT DEF OnPage
  <2>c0. CASE n = 0
    BY <2>2, <2>c0, SMT
  <2>c1. CASE n = 1
    BY <2>2, <2>c1, SMT
  <2>c2. CASE n = 2
    BY <2>2, <2>c2, SMT
  <2>c3. CASE n = 3
    BY <2>2, <2>c3, SMT
  <2>c4. CASE n = 4
    BY <2>2, <2>c4, SMT
  <2>c5. CASE n = 5
    BY <2>2, <2>c5, SMT
  <2>c6. CASE n = 6
    BY <2>2, <2>c6, SMT
  <2>c7. CASE n = 7
    BY <2>2, <2>c7, SMT
  <2>c8. CASE n = 8
    BY <2>2, <2>c8, SMT
  <2>c9. CASE n = 9
    BY <2>2, <2>c9, SMT
  <2>c10. CASE n = 10
    BY <2>2, <2>c10, SMT
  <2>c11. CASE n = 11
    BY <2>2, <2>c11, SMT
  <2>c12. CASE n = 12
    BY <2>2, <2>c12, SMT
  <2>3. QED
    BY <2>1, <2>c0, <2>c1, <2>c2, <2>c3, <2>c4, <2>c5, <2>c6, <2>c7, <2>c8, <2>c9, <2>c10, <2>c11, <2>c12
<1>3. QED
  BY <1>1, <1>2 DEF AlignUp

(***************************************************************************)
(* What a line adds to its section, and the walk over the lines: S[i] is   *)
(* the size of .text after line i, C[i] the section.                       *)
(***************************************************************************)
GrownBy(op, args, n) ==
  CASE op = None     -> n
    [] op = ".align" ->
         IF args = <<>> THEN n ELSE AlignUp(n, CHOOSE b \in parse_int(args[1]) : TRUE)
    [] op = ".word"  -> n + 4 * Len(args)
    [] op = ".byte"  -> n + Len(args)
    [] OTHER         -> n + _instruction_size(op)

TurnedBy(op, c) == IF op = ".text" THEN "text" ELSE IF op = ".data" THEN "data" ELSE c

Grown(l, n) == GrownBy(l.op, l.args, n)
Turned(l, c) == TurnedBy(l.op, c)

(* .align has an argument that can be a shift count.                       *)
Alignable(l) == l.op = ".align" /\ l.args # <<>> => \E n \in parse_int(l.args[1]) : n >= 0

LEMMA SameGrown ==
  ASSUME NEW l, NEW m, l.op = m.op, l.args = m.args, NEW n, NEW c
  PROVE  Grown(l, n) = Grown(m, n) /\ Turned(l, c) = Turned(m, c)
BY Zenon DEF Grown, Turned

LEMMA GrownType ==
  ASSUME NEW l, LineOK(l), Alignable(l), NEW n \in Nat
  PROVE  Grown(l, n) \in Nat /\ n <= Grown(l, n)
<1>1. Len(l.args) \in Nat
  BY ArgType
<1>2. CASE l.op = ".align" /\ l.args # <<>>
  <2>1. PICK b \in parse_int(l.args[1]) : b >= 0
    BY <1>2 DEF Alignable
  <2>2. (CHOOSE x \in parse_int(l.args[1]) : TRUE) = b
    BY <2>1 DEF parse_int, AsmError
  <2>3. 1 \in DOMAIN l.args
    BY <1>2, ArgType
  <2>4. l.args[1] \in Token
    BY <2>3, ArgType
  <2>5. b \in Nat /\ 2^b > 0
    <3>1. 2^b > 0
      BY <1>2, <2>1, <2>3 DEF LineOK
    <3>2. b \in Int
      BY <2>1, <2>4 DEF parse_int, Token, AsmError
    <3>3. QED
      BY <2>1, <3>1, <3>2
  <2>6. AlignUp(n, b) \in Nat /\ n <= AlignUp(n, b)
    BY <2>5, AlignBounds
  <2>7. Grown(l, n) = AlignUp(n, b)
    BY <1>2, <2>2, NoDirective DEF Grown, GrownBy, GrownBy
  <2>8. QED
    BY <2>6, <2>7
<1>3. CASE ~(l.op = ".align" /\ l.args # <<>>)
  BY <1>1, <1>3, NoDirective, SMTT(30) DEF Grown, GrownBy, _instruction_size
<1>4. QED
  BY <1>2, <1>3

(* pass1 measures a line as the first walk does.                           *)
LEMMA SizeOfFits ==
  ASSUME LineOK(ln), ~Pass1Refuses, NEW at \in Nat
  PROVE  /\ SizeOf(at) \in Nat /\ Alignable(ln)
         /\ ln.op # ".align" => SizeOf(at) = Reserved(ln)
         /\ ln.op \notin {".text", ".data"} => at + SizeOf(at) = Grown(ln, at)
         /\ ln.op = ".align" =>
              \E n \in 0 .. 12 : \A x \in Nat : Grown(ln, x) = AlignUp(x, n)
<1>1. Len(ln.args) \in Nat
  BY ArgType
<1>2. CASE ln.op = ".align"
  <2>1. PICK n \in parse_int(ln.args[1]) : n \in 0 .. 12
    BY <1>2 DEF Pass1Refuses
  <2>2. (CHOOSE x \in parse_int(ln.args[1]) : TRUE) = n
    BY <2>1 DEF parse_int, AsmError
  <2>3. Len(ln.args) = 1
    BY <1>2 DEF Pass1Refuses
  <2>4. 1 \in DOMAIN ln.args /\ ln.args # <<>>
    BY <2>3, ArgType
  <2>5. n \in Nat /\ 2^n > 0
    <3>1. n \in Nat /\ n >= 0
      BY <2>1
    <3>2. \A j \in DOMAIN ln.args : \A i \in parse_int(ln.args[j]) : i >= 0 => 2^i > 0
      BY <1>2 DEF LineOK
    <3>3. QED
      BY <2>1, <2>4, <3>1, <3>2
  <2>6. AlignUp(at, n) \in Nat /\ at <= AlignUp(at, n)
    BY <2>5, AlignBounds
  <2>7. \A x \in Nat : Grown(ln, x) = AlignUp(x, n)
    BY <1>2, <2>2, <2>4, NoDirective DEF Grown, GrownBy, GrownBy
  <2>8. SizeOf(at) = AlignUp(at, n) - at
    BY <1>2, <2>2, NoDirective DEF SizeOf
  <2>9. Alignable(ln)
    BY <2>1, <2>5 DEF Alignable
  <2>10. SizeOf(at) \in Nat /\ at + SizeOf(at) = Grown(ln, at)
    BY <2>6, <2>7, <2>8, SMT
  <2>11. QED
    BY <1>2, <2>1, <2>7, <2>9, <2>10
<1>3. CASE ln.op # ".align"
  <2>1. Alignable(ln)
    BY <1>3 DEF Alignable
  <2>2. SizeOf(at) = Reserved(ln) /\ Reserved(ln) \in Nat
    BY <1>1, <1>3, NoDirective DEF SizeOf, Reserved, _instruction_size
  <2>3. ln.op \notin {".text", ".data"} => at + SizeOf(at) = Grown(ln, at)
    BY <1>1, <1>3, NoDirective DEF SizeOf, Grown, GrownBy, _instruction_size
  <2>4. QED
    BY <1>3, <2>1, <2>2, <2>3
<1>4. QED
  BY <1>2, <1>3

(***************************************************************************)
(* The inductive invariant.                                                *)
(***************************************************************************)
Placed == stage = "pass2" \/ Written

SizeFits(l) == l.op # ".align" => l.size = Reserved(l)

Walks(S, C, n) ==
  \A i \in 1 .. n :
    /\ C[i] = Turned(lines[i], C[i - 1])
    /\ S[i] = IF C[i] = "text" /\ lines[i].op # ".text"
              THEN Grown(lines[i], S[i - 1]) ELSE S[i - 1]

(* sizes is the walk so far, and then pass1 follows it from text_base.     *)
Follows(S, C) ==
  /\ S[0] = 0 /\ C[0] = "text"
  /\ stage = "size" => /\ Walks(S, C, k - 1)
                       /\ sizes["text"] = S[k - 1] /\ current = C[k - 1]
  /\ stage = "pass1" => /\ Walks(S, C, Len(lines))
                        /\ sizes["text"] = S[Len(lines)] /\ current = C[k - 1]
                        /\ text_base % 4096 = 0 => pc["text"] = text_base + S[k - 1]

WalkInv ==
  \E S \in [0 .. Len(lines) -> Nat], C \in [0 .. Len(lines) -> Sections] : Follows(S, C)

LinesInv == lines \in Seq(Line) /\ \A i \in DOMAIN lines : LineOK(lines[i])

StageInv ==
  /\ text_base \in Nat /\ data_base \in Nat \cup {None}
  /\ stage \in {"pass1", "pass2"} \/ Written => data_base \in Nat
  /\ stage = "read" => k = 1 /\ current = "text" /\ sizes["text"] = 0
  /\ (stage = "done") = (result # "running")
  /\ stage \in {"read", "size", "pass1"} => DOMAIN image = {}
  /\ stage = "pass1" => \A i \in 1 .. k - 1 : SizeFits(lines[i])
  /\ Placed => \A i \in DOMAIN lines : SizeFits(lines[i])
  /\ Written => k = Len(lines) + 1 /\ hex = to_hex_lines(PackWords)
  /\ IsFiniteSet(DOMAIN image) /\ DOMAIN image \subseteq Nat
  /\ \E n \in Nat : \A a \in DOMAIN image : a <= n

AsmInv ==
  AsmTypeOK /\ LinesInv /\ StageInv /\ WalkInv /\ LayoutPassAgrees /\ ReservedIsFilled

LEMMA LinesFacts ==
  ASSUME LinesInv
  PROVE  /\ Len(lines) \in Nat /\ DOMAIN lines = 1 .. Len(lines)
         /\ \A i \in 1 .. Len(lines) : LineOK(lines[i]) /\ lines[i] \in Line
BY DEF LinesInv, LineOK

LEMMA AsmInitInv == ASSUME Init PROVE AsmInv
<1>1. PICK source \in Sources : lines = tokenize(source)
  BY DEF Init
<1>2. PICK L : lines \in Seq(L) /\ \A l \in L : LineOK(l)
  BY <1>1, TokenizeType
<1>3. LinesInv
  <2>1. \A i \in DOMAIN lines : LineOK(lines[i])
    BY <1>2
  <2>2. \A l \in L : l \in Line
    BY <1>2 DEF LineOK
  <2>3. lines \in Seq(Line)
    BY <1>2, <2>2
  <2>4. QED
    BY <2>1, <2>3 DEF LinesInv
<1>4. AsmTypeOK
  <2>1. Len(lines) \in Nat /\ \A i \in DOMAIN lines : lines[i].pc \in Nat /\ lines[i].size \in Nat
    BY <1>3, LinesFacts DEF Line
  <2>2. DOMAIN syms = {} /\ DOMAIN image = {} /\ DOMAIN hex = {}
    BY DEF Init, EmptyFcn
  <2>3. QED
    BY <2>1, <2>2 DEF Init, AsmTypeOK, Sections
<1>5. StageInv
  <2>1. DOMAIN image = {} /\ text_base \in Nat /\ data_base \in Nat \cup {None}
    BY BasesAssumption DEF Init, EmptyFcn
  <2>2. IsFiniteSet(DOMAIN image)
    BY <2>1, FS_EmptySet
  <2>3. \E n \in Nat : \A a \in DOMAIN image : a <= n
    BY <2>1
  <2>4. QED
    BY <2>1, <2>2, <2>3 DEF Init, StageInv, Placed, Written, Sections
<1>6. WalkInv
  <2> DEFINE S == [i \in 0 .. Len(lines) |-> 0]
             C == [i \in 0 .. Len(lines) |-> "text"]
  <2>1. S \in [0 .. Len(lines) -> Nat] /\ C \in [0 .. Len(lines) -> Sections]
    BY DEF Sections
  <2>2. Follows(S, C)
    <3>1. 0 \in 0 .. Len(lines)
      BY <1>3, LinesFacts
    <3>2. QED
      BY <3>1 DEF Follows, Init
  <2>3. QED
    BY <2>1, <2>2 DEF WalkInv
<1>7. QED
  BY <1>3, <1>4, <1>5, <1>6 DEF AsmInv, LayoutPassAgrees, ReservedIsFilled, Init

LEMMA StopInv ==
  ASSUME AsmInv, NEW outcome \in {"asm_error", "crash", "unreadable"}, Stop(outcome)
  PROVE  AsmInv'
<1>1. /\ stage' = "done" /\ result' = outcome /\ lines' = lines /\ text_base' = text_base
      /\ data_base' = data_base /\ k' = k /\ current' = current /\ sizes' = sizes /\ pc' = pc
      /\ syms' = syms /\ image' = image /\ hex' = hex
  BY DEF Stop
<1>2. AsmTypeOK'
  BY <1>1 DEF AsmInv, AsmTypeOK
<1>3. LinesInv'
  BY <1>1 DEF AsmInv, LinesInv
<1>4. StageInv'
  BY <1>1 DEF AsmInv, StageInv, Placed, Written
<1>5. WalkInv'
  <2>1. PICK S \in [0 .. Len(lines) -> Nat], C \in [0 .. Len(lines) -> Sections] : Follows(S, C)
    BY DEF AsmInv, WalkInv
  <2>2. Follows(S, C)'
    BY <1>1, <2>1 DEF Follows
  <2>3. QED
    BY <1>1, <2>2 DEF WalkInv
<1>6. QED
  BY <1>1, <1>2, <1>3, <1>4, <1>5 DEF AsmInv, LayoutPassAgrees, ReservedIsFilled

LEMMA ReadInv == ASSUME AsmInv, ReadSource PROVE AsmInv'
<1>1. /\ stage = "read" /\ stage' = "size" /\ result' = result /\ lines' = lines
      /\ text_base' = text_base /\ data_base' = data_base /\ k' = k /\ current' = current
      /\ sizes' = sizes /\ pc' = pc /\ syms' = syms /\ image' = image /\ hex' = hex
  BY DEF ReadSource
<1>2. AsmTypeOK'
  BY <1>1 DEF AsmInv, AsmTypeOK
<1>3. LinesInv'
  BY <1>1 DEF AsmInv, LinesInv
<1>4. StageInv'
  BY <1>1 DEF AsmInv, StageInv, Placed, Written
<1>5. WalkInv'
  <2>1. PICK S \in [0 .. Len(lines) -> Nat], C \in [0 .. Len(lines) -> Sections] : Follows(S, C)
    BY DEF AsmInv, WalkInv
  <2>2. k = 1 /\ k - 1 = 0 /\ current = "text" /\ sizes["text"] = 0 /\ S[0] = 0 /\ C[0] = "text"
    BY <1>1, <2>1 DEF AsmInv, StageInv, Follows
  <2>3. Follows(S, C)'
    BY <1>1, <2>2 DEF Follows, Walks
  <2>4. QED
    BY <1>1, <2>3 DEF WalkInv
<1>6. QED
  BY <1>1, <1>2, <1>3, <1>4, <1>5 DEF AsmInv, LayoutPassAgrees, ReservedIsFilled

LEMMA SizeLineInv == ASSUME AsmInv, SizeLine PROVE AsmInv'
<1>1. /\ stage = "size" /\ k \in DOMAIN lines /\ k' = k + 1 /\ stage' = stage
      /\ result' = result /\ lines' = lines /\ text_base' = text_base /\ data_base' = data_base
      /\ pc' = pc /\ syms' = syms /\ image' = image /\ hex' = hex
  BY DEF SizeLine, At
<1>2. /\ Len(lines) \in Nat /\ k \in 1 .. Len(lines) /\ LineOK(ln) /\ current \in Sections
      /\ sizes \in [Sections -> Nat]
  BY <1>1, LinesFacts DEF AsmInv, AsmTypeOK, ln
<1>3. Alignable(ln)
  BY DEF SizeLine, AlignArg, Alignable
<1>4. \A n \in Nat : SizedTo(n) = Grown(ln, n) /\ SizedTo(n) \in Nat
  <2>1. \A n \in Nat : SizedTo(n) = Grown(ln, n)
    BY DEF SizedTo, Grown, GrownBy
  <2>2. QED
    BY <1>2, <1>3, <2>1, GrownType
<1>5. /\ current' = Turned(ln, current) /\ current' \in Sections
      /\ sizes' \in [Sections -> Nat]
      /\ sizes'["text"] = IF current' = "text" /\ ln.op # ".text"
                          THEN Grown(ln, sizes["text"]) ELSE sizes["text"]
  <2>1. CASE ln.op \in {".text", ".data"}
    BY <1>2, <2>1 DEF SizeLine, Turned, TurnedBy, Sections
  <2>2. CASE ln.op \notin {".text", ".data"}
    <3>1. current' = current /\ sizes' = [sizes EXCEPT ![current] = SizedTo(sizes[current])]
      BY <2>2 DEF SizeLine
    <3>2. sizes["text"] \in Nat /\ sizes[current] \in Nat
      BY <1>2 DEF Sections
    <3>3. sizes' \in [Sections -> Nat]
      BY <1>2, <1>4, <3>1, <3>2
    <3>4. sizes'["text"] = IF current = "text" THEN Grown(ln, sizes["text"]) ELSE sizes["text"]
      BY <1>2, <1>4, <3>1, <3>2 DEF Sections
    <3>5. QED
      BY <1>2, <2>2, <3>1, <3>3, <3>4 DEF Turned, TurnedBy
  <2>3. QED
    BY <2>1, <2>2
<1>6. AsmTypeOK'
  BY <1>1, <1>2, <1>5 DEF AsmInv, AsmTypeOK
<1>7. LinesInv'
  BY <1>1 DEF AsmInv, LinesInv
<1>8. StageInv'
  BY <1>1 DEF AsmInv, StageInv, Placed, Written
<1>9. WalkInv'
  <2>1. PICK S \in [0 .. Len(lines) -> Nat], C \in [0 .. Len(lines) -> Sections] : Follows(S, C)
    BY DEF AsmInv, WalkInv
  <2>2. PICK S2 \in [0 .. Len(lines) -> Nat], C2 \in [0 .. Len(lines) -> Sections] :
          /\ S2[k] = sizes'["text"] /\ C2[k] = current'
          /\ \A i \in 0 .. Len(lines) : i # k => S2[i] = S[i] /\ C2[i] = C[i]
    <3> DEFINE S2 == [S EXCEPT ![k] = sizes'["text"]]
               C2 == [C EXCEPT ![k] = current']
    <3>1. /\ S2 \in [0 .. Len(lines) -> Nat] /\ C2 \in [0 .. Len(lines) -> Sections]
          /\ S2[k] = sizes'["text"] /\ C2[k] = current'
          /\ \A i \in 0 .. Len(lines) : i # k => S2[i] = S[i] /\ C2[i] = C[i]
      BY <1>2, <1>5 DEF Sections
    <3> HIDE DEF S2, C2
    <3>2. QED
      BY <3>1
  <2>3. /\ S[0] = 0 /\ C[0] = "text" /\ Walks(S, C, k - 1)
        /\ sizes["text"] = S[k - 1] /\ current = C[k - 1]
    BY <1>1, <2>1 DEF Follows
  <2>4. 0 # k /\ 0 \in 0 .. Len(lines) /\ k - 1 \in 0 .. Len(lines) /\ k - 1 # k
    BY <1>2
  <2>5. Walks(S2, C2, k)
    <3> SUFFICES ASSUME NEW i \in 1 .. k
                 PROVE  /\ C2[i] = Turned(lines[i], C2[i - 1])
                        /\ S2[i] = IF C2[i] = "text" /\ lines[i].op # ".text"
                                   THEN Grown(lines[i], S2[i - 1]) ELSE S2[i - 1]
      BY DEF Walks
    <3>1. CASE i = k
      BY <1>5, <2>2, <2>3, <2>4, <3>1 DEF ln
    <3>2. CASE i # k
      <4>1. i \in 1 .. k - 1 /\ i \in 0 .. Len(lines) /\ i - 1 \in 0 .. Len(lines) /\ i - 1 # k
        BY <1>2, <3>2
      <4>2. /\ C[i] = Turned(lines[i], C[i - 1])
            /\ S[i] = IF C[i] = "text" /\ lines[i].op # ".text"
                      THEN Grown(lines[i], S[i - 1]) ELSE S[i - 1]
        BY <2>3, <4>1 DEF Walks
      <4>3. QED
        BY <2>2, <3>2, <4>1, <4>2
    <3>3. QED
      BY <3>1, <3>2
  <2>6. k' - 1 = k
    BY <1>1, <1>2
  <2>7. Follows(S2, C2)'
    <3>1. Walks(S2, C2, k - 1)'
      BY <1>1, <2>5, <2>6 DEF Walks
    <3>2. S2[0] = 0 /\ C2[0] = "text" /\ sizes'["text"] = S2[k' - 1] /\ current' = C2[k' - 1]
      BY <2>2, <2>3, <2>4, <2>6
    <3>3. QED
      BY <1>1, <3>1, <3>2 DEF Follows
  <2>8. QED
    BY <1>1, <2>2, <2>7 DEF WalkInv
<1>10. QED
  BY <1>1, <1>6, <1>7, <1>8, <1>9 DEF AsmInv, LayoutPassAgrees, ReservedIsFilled

LEMMA PlaceSectionsInv == ASSUME AsmInv, PlaceSections PROVE AsmInv'
<1>1. /\ stage = "size" /\ k > Len(lines) /\ stage' = "pass1" /\ k' = 1 /\ current' = "text"
      /\ result' = result /\ lines' = lines /\ text_base' = text_base
      /\ sizes' = sizes /\ syms' = syms /\ image' = image /\ hex' = hex
      /\ pc' = [text |-> text_base, data |-> data_base']
      /\ data_base' = IF data_base = None THEN DefaultDataBase ELSE data_base
  BY DEF PlaceSections
<1>2. Len(lines) \in Nat /\ k = Len(lines) + 1 /\ text_base \in Nat /\ sizes["text"] \in Nat
  BY <1>1, LinesFacts, SMT DEF AsmInv, AsmTypeOK, StageInv, Sections
<1>3. data_base' \in Nat
  <2>1. DefaultDataBase \in Nat
    BY <1>2, SMT DEF DefaultDataBase
  <2>2. QED
    BY <1>1, <2>1 DEF AsmInv, StageInv
<1>4. pc' \in [Sections -> Nat] /\ pc'["text"] = text_base
  BY <1>1, <1>2, <1>3 DEF Sections
<1>5. AsmTypeOK'
  BY <1>1, <1>2, <1>4 DEF AsmInv, AsmTypeOK, Sections
<1>6. LinesInv'
  BY <1>1 DEF AsmInv, LinesInv
<1>7. StageInv'
  <2>1. 1 .. k' - 1 = {}
    BY <1>1
  <2>2. QED
    BY <1>1, <1>3, <2>1 DEF AsmInv, StageInv, Placed, Written
<1>8. WalkInv'
  <2>1. PICK S \in [0 .. Len(lines) -> Nat], C \in [0 .. Len(lines) -> Sections] : Follows(S, C)
    BY DEF AsmInv, WalkInv
  <2>2. /\ S[0] = 0 /\ C[0] = "text" /\ Walks(S, C, Len(lines)) /\ sizes["text"] = S[Len(lines)]
    <3>1. k - 1 = Len(lines)
      BY <1>2
    <3>2. QED
      BY <1>1, <2>1, <3>1 DEF Follows
  <2>3. k' - 1 = 0 /\ pc'["text"] = text_base + S[0]
    BY <1>1, <1>2, <1>4, <2>2
  <2>4. Walks(S, C, Len(lines))'
    BY <1>1, <2>2 DEF Walks
  <2>5. Follows(S, C)'
    BY <1>1, <2>2, <2>3, <2>4 DEF Follows
  <2>6. QED
    BY <1>1, <2>5 DEF WalkInv
<1>9. QED
  BY <1>1, <1>5, <1>6, <1>7, <1>8 DEF AsmInv, LayoutPassAgrees, ReservedIsFilled

(* pass1 moves the current line to its place and leaves the text alone.    *)
LEMMA PlaceLineFacts ==
  ASSUME AsmInv, PlaceLine
  PROVE  /\ stage = "pass1" /\ k \in 1 .. Len(lines) /\ k' = k + 1 /\ stage' = stage
         /\ result' = result /\ text_base' = text_base /\ data_base' = data_base
         /\ sizes' = sizes /\ image' = image /\ hex' = hex
         /\ current' = Turned(ln, current) /\ current' \in Sections
         /\ SizeOf(pc[current']) \in Nat /\ pc[current'] \in Nat
         /\ pc' = [pc EXCEPT ![current'] = @ + SizeOf(@)] /\ pc' \in [Sections -> Nat]
         /\ lines'[k] = [lines[k] EXCEPT !.section = current', !.pc = pc[current'],
                                         !.size = SizeOf(pc[current'])]
         /\ lines'[k].op = ln.op /\ lines'[k].args = ln.args /\ lines'[k].label = ln.label
         /\ lines'[k].pc = pc[current'] /\ lines'[k].section = current'
         /\ lines'[k].size = SizeOf(pc[current'])
         /\ \A i \in 1 .. Len(lines) : i # k => lines'[i] = lines[i]
         /\ Len(lines') = Len(lines) /\ LinesInv' /\ SymsOK(syms')
<1>1. /\ stage = "pass1" /\ k \in DOMAIN lines /\ k' = k + 1 /\ stage' = stage
      /\ result' = result /\ text_base' = text_base /\ data_base' = data_base
      /\ sizes' = sizes /\ image' = image /\ hex' = hex
      /\ current' = Turned(ln, current)
      /\ lines' = [lines EXCEPT ![k].section = current', ![k].pc = pc[current'],
                                ![k].size = SizeOf(pc[current'])]
      /\ pc' = [pc EXCEPT ![current'] = @ + SizeOf(@)]
      /\ ~Pass1Refuses
  BY DEF PlaceLine, At, Turned, TurnedBy
<1>2. /\ Len(lines) \in Nat /\ DOMAIN lines = 1 .. Len(lines) /\ k \in 1 .. Len(lines)
      /\ LineOK(ln) /\ ln \in Line /\ lines \in Seq(Line)
      /\ \A i \in 1 .. Len(lines) : lines[i] \in Line /\ LineOK(lines[i])
  BY <1>1, LinesFacts DEF AsmInv, LinesInv, ln
<1>3. current' \in Sections /\ pc[current'] \in Nat
  BY <1>1 DEF AsmInv, AsmTypeOK, Turned, TurnedBy, Sections
<1>4. SizeOf(pc[current']) \in Nat
  BY <1>1, <1>2, <1>3, SizeOfFits
<1>5. pc' \in [Sections -> Nat]
  BY <1>1, <1>3, <1>4 DEF AsmInv, AsmTypeOK
<1> DEFINE new == [lines[k] EXCEPT !.section = current', !.pc = pc[current'],
                                   !.size = SizeOf(pc[current'])]
<1>6. lines' = [lines EXCEPT ![k] = new]
  BY <1>1, <1>2
<1>7. /\ new \in Line /\ new.op = ln.op /\ new.args = ln.args /\ new.label = ln.label
      /\ new.pc = pc[current'] /\ new.section = current' /\ new.size = SizeOf(pc[current'])
  BY <1>2, <1>3, <1>4 DEF Line, ln
<1>8. LineOK(new)
  BY <1>2, <1>7 DEF LineOK
<1> HIDE DEF new
<1>9. lines' \in Seq(Line) /\ Len(lines') = Len(lines) /\ DOMAIN lines' = 1 .. Len(lines)
  BY <1>2, <1>6, <1>7
<1>10. lines'[k] = new /\ \A i \in 1 .. Len(lines) : i # k => lines'[i] = lines[i]
  BY <1>2, <1>6
<1>11. \A i \in DOMAIN lines' : LineOK(lines'[i])
  BY <1>2, <1>8, <1>9, <1>10
<1>12. LinesInv'
  BY <1>9, <1>11 DEF LinesInv, LineOK
<1>13. SymsOK(syms')
  <2>1. SymsOK(syms) /\ pc[current] \in Nat
    BY DEF AsmInv, AsmTypeOK, SymsOK, Sections
  <2>2. QED
    BY <2>1 DEF PlaceLine, SymsOK
<1>14. QED
  BY <1>1, <1>2, <1>3, <1>4, <1>5, <1>7, <1>9, <1>10, <1>12, <1>13 DEF new

LEMMA PlaceLineInv == ASSUME AsmInv, PlaceLine PROVE AsmInv'
<1>1. /\ stage = "pass1" /\ k \in 1 .. Len(lines) /\ k' = k + 1 /\ stage' = stage
      /\ result' = result /\ text_base' = text_base /\ data_base' = data_base
      /\ sizes' = sizes /\ image' = image /\ hex' = hex /\ Len(lines) \in Nat
      /\ current' = Turned(ln, current) /\ current' \in Sections
      /\ pc' = [pc EXCEPT ![current'] = @ + SizeOf(@)] /\ pc' \in [Sections -> Nat]
      /\ Len(lines') = Len(lines) /\ LinesInv' /\ SymsOK(syms') /\ pc[current'] \in Nat
  BY PlaceLineFacts, LinesFacts DEF AsmInv
<1>2. /\ lines'[k].op = ln.op /\ lines'[k].args = ln.args
      /\ lines'[k].size = SizeOf(pc[current'])
      /\ \A i \in 1 .. Len(lines) : i # k => lines'[i] = lines[i]
  BY PlaceLineFacts
<1>3. LineOK(ln) /\ ~Pass1Refuses
  BY <1>1, LinesFacts DEF AsmInv, ln, PlaceLine
<1>4. DOMAIN lines' = 1 .. Len(lines) /\ \A i \in 1 .. Len(lines) : lines'[i] \in Line
  BY <1>1 DEF LinesInv
<1>5. AsmTypeOK'
  <2>1. \A i \in DOMAIN lines' : lines'[i].pc \in Nat /\ lines'[i].size \in Nat
    BY <1>4 DEF Line
  <2>2. QED
    BY <1>1, <2>1 DEF AsmInv, AsmTypeOK, SymsOK
<1>6. StageInv'
  <2>1. SizeFits(lines'[k])
    BY <1>1, <1>2, <1>3, SizeOfFits DEF SizeFits, Reserved
  <2>2. \A i \in 1 .. k - 1 : SizeFits(lines'[i])
    BY <1>1, <1>2 DEF AsmInv, StageInv
  <2>3. \A i \in 1 .. k' - 1 : SizeFits(lines'[i])
    BY <1>1, <2>1, <2>2
  <2>4. ~Placed' /\ ~Written'
    BY <1>1 DEF AsmInv, StageInv, Placed, Written
  <2>5. (\A i \in 1 .. k - 1 : SizeFits(lines[i]))'
    BY <2>3 DEF SizeFits, Reserved
  <2>6. QED
    BY <1>1, <2>4, <2>5 DEF AsmInv, StageInv
<1>7. WalkInv'
  <2>1. PICK S \in [0 .. Len(lines) -> Nat], C \in [0 .. Len(lines) -> Sections] : Follows(S, C)
    BY DEF AsmInv, WalkInv
  <2>2. /\ S[0] = 0 /\ C[0] = "text" /\ Walks(S, C, Len(lines))
        /\ sizes["text"] = S[Len(lines)] /\ current = C[k - 1]
        /\ text_base % 4096 = 0 => pc["text"] = text_base + S[k - 1]
    BY <1>1, <2>1 DEF Follows
  <2>3. \A i \in 1 .. Len(lines) : lines'[i].op = lines[i].op /\ lines'[i].args = lines[i].args
    BY <1>2 DEF ln
  <2>4. Walks(S, C, Len(lines))'
    <3>1. ASSUME NEW i \in 1 .. Len(lines)
          PROVE  /\ \A c \in Sections : Turned(lines'[i], c) = Turned(lines[i], c)
                 /\ \A n \in Nat : Grown(lines'[i], n) = Grown(lines[i], n)
      <4>1. lines'[i].op = lines[i].op /\ lines'[i].args = lines[i].args
        BY <2>3
      <4>2. QED
        BY <4>1, SameGrown, Zenon
    <3>2. ASSUME NEW i \in 1 .. Len(lines)
          PROVE  /\ C[i] = Turned(lines'[i], C[i - 1])
                 /\ S[i] = IF C[i] = "text" /\ lines'[i].op # ".text"
                           THEN Grown(lines'[i], S[i - 1]) ELSE S[i - 1]
      <4>1. i - 1 \in 0 .. Len(lines)
        BY <1>1
      <4>2. C[i - 1] \in Sections /\ S[i - 1] \in Nat
        BY <4>1
      <4>3. QED
        BY <2>2, <2>3, <3>1, <4>2 DEF Walks
    <3>3. QED
      BY <1>1, <3>2 DEF Walks, Turned, TurnedBy, Grown, GrownBy
  <2>5. k' - 1 = k /\ current' = C[k]
    <3>1. C[k] = Turned(ln, C[k - 1])
      BY <1>1, <2>2 DEF Walks, ln
    <3>2. QED
      BY <1>1, <2>2, <3>1
  <2>6. ASSUME text_base % 4096 = 0 PROVE pc'["text"] = text_base + S[k]
    <3>1. S[k] = IF C[k] = "text" /\ ln.op # ".text" THEN Grown(ln, S[k - 1]) ELSE S[k - 1]
      BY <1>1, <2>2 DEF Walks, ln
    <3>2. k - 1 \in 0 .. Len(lines) /\ text_base \in Nat
      BY <1>1 DEF AsmInv, StageInv
    <3>3. S[k - 1] \in Nat /\ pc["text"] = text_base + S[k - 1] /\ pc["text"] \in Nat
      BY <2>2, <2>6, <3>2
    <3>4. pc \in [Sections -> Nat]
      BY DEF AsmInv, AsmTypeOK
    <3>5. CASE current' = "data"
      BY <1>1, <2>5, <3>1, <3>3, <3>4, <3>5 DEF Sections
    <3>6. CASE current' = "text"
      <4>1. pc'["text"] = pc["text"] + SizeOf(pc["text"])
        BY <1>1, <3>4, <3>6
      <4>2. CASE ln.op = ".text"
        <5>1. SizeOf(pc["text"]) = 0
          BY <4>2 DEF SizeOf
        <5>2. QED
          BY <2>5, <3>1, <3>3, <4>1, <4>2, <5>1
      <4>3. CASE ln.op # ".text"
        <5>1. ln.op # ".data"
          BY <1>1, <3>6 DEF Turned, TurnedBy
        <5>2. pc'["text"] = Grown(ln, pc["text"]) /\ S[k] = Grown(ln, S[k - 1])
          BY <1>3, <2>5, <3>1, <3>3, <3>6, <4>1, <4>3, <5>1, SizeOfFits
        <5>3. ASSUME NEW x \in Nat PROVE Grown(ln, text_base + x) = text_base + Grown(ln, x)
          <6>1. CASE ln.op = ".align"
            <7>1. PICK n \in 0 .. 12 : \A y \in Nat : Grown(ln, y) = AlignUp(y, n)
              BY <1>1, <1>3, <6>1, SizeOfFits
            <7>2. text_base + x \in Nat
              BY <3>2
            <7>3. AlignUp(text_base + x, n) = text_base + AlignUp(x, n)
              <8>1. text_base \in Nat /\ OnPage(text_base)
                BY <2>6, <3>2 DEF OnPage
              <8>2. QED
                BY <8>1, AlignShift, Zenon
            <7>4. QED
              BY <7>1, <7>2, <7>3
          <6>2. CASE ln.op # ".align"
            <7>1. Len(ln.args) \in Nat
              BY <1>3, ArgType
            <7>2. QED
              BY <3>2, <6>2, <7>1, NoDirective DEF Grown, GrownBy, _instruction_size
          <6>3. QED
            BY <6>1, <6>2
        <5>4. QED
          BY <3>3, <5>2, <5>3
      <4>4. QED
        BY <4>2, <4>3
    <3>7. QED
      BY <1>1, <3>5, <3>6 DEF Sections
  <2>7. Follows(S, C)'
    BY <1>1, <2>2, <2>4, <2>5, <2>6 DEF Follows
  <2>8. QED
    BY <1>1, <2>7 DEF WalkInv
<1>8. QED
  BY <1>1, <1>5, <1>6, <1>7 DEF AsmInv, LayoutPassAgrees, ReservedIsFilled

LEMMA BeginInv == ASSUME AsmInv, BeginPass2 PROVE AsmInv'
<1>1. /\ stage = "pass1" /\ k > Len(lines) /\ stage' = "pass2" /\ k' = 1
      /\ result' = result /\ lines' = lines /\ text_base' = text_base /\ data_base' = data_base
      /\ current' = current /\ sizes' = sizes /\ pc' = pc /\ syms' = syms /\ image' = image
      /\ hex' = hex
  BY DEF BeginPass2
<1>2. Len(lines) \in Nat /\ k = Len(lines) + 1 /\ DOMAIN lines = 1 .. Len(lines)
  BY <1>1, LinesFacts, SMT DEF AsmInv, AsmTypeOK
<1>3. AsmTypeOK'
  BY <1>1, <1>2 DEF AsmInv, AsmTypeOK
<1>4. LinesInv'
  BY <1>1 DEF AsmInv, LinesInv
<1>5. StageInv'
  <2>1. k - 1 = Len(lines)
    BY <1>2
  <2>2. QED
    BY <1>1, <1>2, <2>1 DEF AsmInv, StageInv, Placed, Written
<1>6. PICK S \in [0 .. Len(lines) -> Nat], C \in [0 .. Len(lines) -> Sections] : Follows(S, C)
  BY DEF AsmInv, WalkInv
<1>7. WalkInv'
  <2>1. Follows(S, C)'
    BY <1>1, <1>6 DEF Follows
  <2>2. QED
    BY <1>1, <2>1 DEF WalkInv
<1>8. LayoutPassAgrees'
  <2>1. k - 1 = Len(lines)
    BY <1>2
  <2>2. QED
    BY <1>1, <1>6, <2>1 DEF Follows, LayoutPassAgrees
<1>9. ReservedIsFilled'
  <2>1. {j \in 1 .. k' - 1 : lines'[j].op # ".align"} = {}
    BY <1>1
  <2>2. DOMAIN image' = {}
    BY <1>1 DEF AsmInv, StageInv
  <2>3. UNION {lines'[i].pc .. lines'[i].pc + lines'[i].size - 1 :
                 i \in {j \in 1 .. k' - 1 : lines'[j].op # ".align"}} = {}
    BY <2>1
  <2>4. QED
    BY <2>2, <2>3 DEF ReservedIsFilled
<1>10. QED
  BY <1>3, <1>4, <1>5, <1>7, <1>8, <1>9 DEF AsmInv

(* pass2 lays the bytes of the current line over the image.                *)
LEMMA EncodeLineFacts ==
  ASSUME AsmInv, EncodeLine
  PROVE  /\ stage = "pass2" /\ k \in 1 .. Len(lines) /\ k' = k + 1 /\ stage' = stage
         /\ result' = result /\ lines' = lines /\ text_base' = text_base
         /\ data_base' = data_base /\ current' = current /\ sizes' = sizes /\ pc' = pc
         /\ syms' = syms /\ hex' = hex /\ LineOK(ln) /\ SymsOK(syms)
         /\ ln.pc \in Nat /\ Reserved(ln) \in Nat
         /\ DOMAIN image' = DOMAIN image \cup (ln.pc .. ln.pc + Reserved(ln) - 1)
         /\ \E out \in (IF ln.op = None THEN {<<>>} ELSE encode_line(ln, syms)) :
              /\ BytesOf(ln.op, out) \in [1 .. Reserved(ln) -> 0 .. 255]
              /\ \A a \in DOMAIN image' :
                   image'[a] = IF a \in ln.pc .. ln.pc + Reserved(ln) - 1
                               THEN BytesOf(ln.op, out)[a - ln.pc + 1] ELSE image[a]
<1>1. /\ stage = "pass2" /\ k \in DOMAIN lines /\ k' = k + 1 /\ stage' = stage
      /\ result' = result /\ lines' = lines /\ text_base' = text_base
      /\ data_base' = data_base /\ current' = current /\ sizes' = sizes /\ pc' = pc
      /\ syms' = syms /\ hex' = hex
  BY DEF EncodeLine, At
<1>2. k \in 1 .. Len(lines) /\ LineOK(ln) /\ ln.pc \in Nat
  BY <1>1, LinesFacts DEF AsmInv, ln, Line
<1>3. SymsOK(syms)
  BY DEF AsmInv, AsmTypeOK, SymsOK
<1>4. PICK out \in (IF ln.op = None THEN {<<>>} ELSE encode_line(ln, syms)) :
        image' = Overlay(BytesOf(ln.op, out), ln.pc)
  BY DEF EncodeLine
<1>5. /\ Reserved(ln) \in Nat /\ BytesOf(ln.op, out) \in [1 .. Reserved(ln) -> 0 .. 255]
      /\ Len(BytesOf(ln.op, out)) = Reserved(ln)
  BY <1>2, <1>3, BytesFit
<1>6. image' = [a \in DOMAIN image \cup (ln.pc .. ln.pc + Reserved(ln) - 1) |->
                  IF a \in ln.pc .. ln.pc + Reserved(ln) - 1
                  THEN BytesOf(ln.op, out)[a - ln.pc + 1] ELSE image[a]]
  BY <1>4, <1>5 DEF Overlay
<1>7. QED
  BY <1>1, <1>2, <1>3, <1>5, <1>6

LEMMA EncodeLineInv == ASSUME AsmInv, EncodeLine PROVE AsmInv'
<1>1. /\ stage = "pass2" /\ k \in 1 .. Len(lines) /\ k' = k + 1 /\ stage' = stage
      /\ result' = result /\ lines' = lines /\ text_base' = text_base
      /\ data_base' = data_base /\ current' = current /\ sizes' = sizes /\ pc' = pc
      /\ syms' = syms /\ hex' = hex /\ ln.pc \in Nat /\ Reserved(ln) \in Nat
      /\ DOMAIN image' = DOMAIN image \cup (ln.pc .. ln.pc + Reserved(ln) - 1)
  BY EncodeLineFacts
<1>2. Len(lines) \in Nat /\ DOMAIN lines = 1 .. Len(lines)
  BY LinesFacts DEF AsmInv
<1>3. \A a \in DOMAIN image' : image'[a] \in 0 .. 255
  <2>1. PICK out \in (IF ln.op = None THEN {<<>>} ELSE encode_line(ln, syms)) :
          /\ BytesOf(ln.op, out) \in [1 .. Reserved(ln) -> 0 .. 255]
          /\ \A a \in DOMAIN image' :
               image'[a] = IF a \in ln.pc .. ln.pc + Reserved(ln) - 1
                           THEN BytesOf(ln.op, out)[a - ln.pc + 1] ELSE image[a]
    BY EncodeLineFacts
  <2>2. \A a \in DOMAIN image : image[a] \in 0 .. 255
    BY DEF AsmInv, AsmTypeOK
  <2>3. ASSUME NEW a \in ln.pc .. ln.pc + Reserved(ln) - 1
        PROVE  BytesOf(ln.op, out)[a - ln.pc + 1] \in 0 .. 255
    <3>1. a - ln.pc + 1 \in 1 .. Reserved(ln)
      BY <1>1
    <3>2. QED
      BY <2>1, <3>1
  <2>4. QED
    BY <1>1, <2>1, <2>2, <2>3
<1>4. AsmTypeOK'
  BY <1>1, <1>2, <1>3 DEF AsmInv, AsmTypeOK
<1>5. LinesInv'
  BY <1>1 DEF AsmInv, LinesInv
<1>6. StageInv'
  <2>1. IsFiniteSet(DOMAIN image')
    <3>1. IsFiniteSet(ln.pc .. ln.pc + Reserved(ln) - 1)
      <4>1. ln.pc \in Int /\ ln.pc + Reserved(ln) - 1 \in Int
        BY <1>1
      <4>2. QED
        BY <4>1, FS_Interval
    <3>2. IsFiniteSet(DOMAIN image)
      BY DEF AsmInv, StageInv
    <3>3. IsFiniteSet(DOMAIN image \cup (ln.pc .. ln.pc + Reserved(ln) - 1))
      BY <3>1, <3>2, FS_Union, Zenon
    <3>4. DOMAIN image' = DOMAIN image \cup (ln.pc .. ln.pc + Reserved(ln) - 1)
      BY <1>1
    <3>5. QED
      BY <3>3, <3>4, Zenon
  <2>2. DOMAIN image' \subseteq Nat
    <3>1. DOMAIN image \subseteq Nat
      BY DEF AsmInv, StageInv
    <3>2. ln.pc .. ln.pc + Reserved(ln) - 1 \subseteq Nat
      BY <1>1
    <3>3. QED
      BY <1>1, <3>1, <3>2
  <2>3. ~Written' /\ ~Written
    BY <1>1 DEF AsmInv, StageInv, Written
  <2>4. \E n \in Nat : \A a \in DOMAIN image' : a <= n
    <3>1. PICK n \in Nat : \A a \in DOMAIN image : a <= n
      BY DEF AsmInv, StageInv
    <3>2. DOMAIN image \subseteq Nat
      BY DEF AsmInv, StageInv
    <3> DEFINE top == n + ln.pc + Reserved(ln)
    <3>3. top \in Nat /\ \A a \in DOMAIN image : a <= top
      BY <1>1, <3>1, <3>2
    <3>4. \A a \in ln.pc .. ln.pc + Reserved(ln) - 1 : a <= top
      BY <1>1
    <3> HIDE DEF top
    <3>5. QED
      BY <1>1, <3>3, <3>4
  <2>5. QED
    BY <1>1, <2>1, <2>2, <2>3, <2>4 DEF AsmInv, StageInv, Placed
<1>7. WalkInv'
  <2>1. PICK S \in [0 .. Len(lines) -> Nat], C \in [0 .. Len(lines) -> Sections] : Follows(S, C)
    BY DEF AsmInv, WalkInv
  <2>2. Follows(S, C)'
    BY <1>1, <2>1 DEF Follows
  <2>3. QED
    BY <1>1, <2>2 DEF WalkInv
<1>8. ReservedIsFilled'
  <2> DEFINE Of(i) == lines[i].pc .. lines[i].pc + lines[i].size - 1
  <2>1. DOMAIN image = UNION {Of(i) : i \in {j \in 1 .. k - 1 : lines[j].op # ".align"}}
    BY <1>1 DEF AsmInv, ReservedIsFilled
  <2>2. CASE ln.op # ".align"
    <3>1. ln.pc .. ln.pc + Reserved(ln) - 1 = Of(k)
      BY <1>1, <1>2, <2>2 DEF AsmInv, StageInv, Placed, SizeFits, ln
    <3>2. {j \in 1 .. k : lines[j].op # ".align"}
            = {j \in 1 .. k - 1 : lines[j].op # ".align"} \cup {k}
      BY <1>1, <1>2, <2>2 DEF ln
    <3> HIDE DEF Of
    <3>3. DOMAIN image' = UNION {Of(i) : i \in {j \in 1 .. k : lines[j].op # ".align"}}
      BY <1>1, <2>1, <3>1, <3>2
    <3>4. k' - 1 = k
      BY <1>1
    <3>5. QED
      BY <1>1, <3>3, <3>4 DEF ReservedIsFilled, Of
  <2>3. CASE ln.op = ".align"
    <3>1. Reserved(ln) = 0
      BY <2>3, NoDirective DEF Reserved
    <3>2. ln.pc .. ln.pc + Reserved(ln) - 1 = {}
      BY <1>1, <3>1
    <3>3. {j \in 1 .. k : lines[j].op # ".align"} = {j \in 1 .. k - 1 : lines[j].op # ".align"}
      BY <1>1, <1>2, <2>3 DEF ln
    <3> HIDE DEF Of
    <3>4. DOMAIN image' = UNION {Of(i) : i \in {j \in 1 .. k : lines[j].op # ".align"}}
      BY <1>1, <2>1, <3>2, <3>3
    <3>5. k' - 1 = k
      BY <1>1
    <3>6. QED
      BY <1>1, <3>4, <3>5 DEF ReservedIsFilled, Of
  <2>4. QED
    BY <2>2, <2>3
<1>9. QED
  BY <1>1, <1>4, <1>5, <1>6, <1>7, <1>8 DEF AsmInv, LayoutPassAgrees

LEMMA HexType ==
  ASSUME \A a \in DOMAIN image : image[a] \in 0 .. 255
  PROVE  \A i \in DOMAIN to_hex_lines(PackWords) :
           to_hex_lines(PackWords)[i] \in [1 .. 4 -> 0 .. 255]
<1>1. \A a : ByteOr0(a) \in 0 .. 255
  BY DEF ByteOr0
<1>2. SUFFICES ASSUME NEW i \in DOMAIN PackWords
               PROVE  Reverse(PackWords[i]) \in [1 .. 4 -> 0 .. 255]
  BY DEF to_hex_lines
<1> DEFINE word == [b \in 1 .. 4 |-> ByteOr0(ImageLo + 4 * (i - 1) + b - 1)]
<1>3. PackWords[i] = word
  BY DEF PackWords
<1>4. word \in [1 .. 4 -> 0 .. 255]
  BY <1>1
<1> HIDE DEF word
<1>5. Len(word) = 4
  BY <1>4, FcnSeq
<1>6. Reverse(word) = [j \in 1 .. 4 |-> word[(4 - j) + 1]]
  BY <1>5 DEF Reverse
<1>7. \A j \in 1 .. 4 : word[(4 - j) + 1] \in 0 .. 255
  BY <1>4
<1>8. QED
  BY <1>3, <1>6, <1>7

LEMMA WriteInv == ASSUME AsmInv, WriteHex PROVE AsmInv'
<1>1. /\ stage = "pass2" /\ k > Len(lines) /\ stage' = "done" /\ result' = "written"
      /\ lines' = lines /\ text_base' = text_base /\ data_base' = data_base /\ k' = k
      /\ current' = current /\ sizes' = sizes /\ pc' = pc /\ syms' = syms /\ image' = image
      /\ hex' = to_hex_lines(PackWords)
  BY DEF WriteHex
<1>2. Len(lines) \in Nat /\ k = Len(lines) + 1
  BY <1>1, LinesFacts, SMT DEF AsmInv, AsmTypeOK
<1>3. AsmTypeOK'
  <2>1. \A i \in DOMAIN hex' : hex'[i] \in [1 .. 4 -> 0 .. 255]
    BY <1>1, HexType DEF AsmInv, AsmTypeOK
  <2>2. QED
    BY <1>1, <2>1 DEF AsmInv, AsmTypeOK
<1>4. LinesInv'
  BY <1>1 DEF AsmInv, LinesInv
<1>5. StageInv'
  <2>1. PackWords' = PackWords
    BY <1>1 DEF PackWords, ImageLo, ImageHi, ByteOr0
  <2>2. QED
    BY <1>1, <1>2, <2>1 DEF AsmInv, StageInv, Placed, Written, to_hex_lines
<1>6. WalkInv'
  <2>1. PICK S \in [0 .. Len(lines) -> Nat], C \in [0 .. Len(lines) -> Sections] : Follows(S, C)
    BY DEF AsmInv, WalkInv
  <2>2. Follows(S, C)'
    BY <1>1, <2>1 DEF Follows
  <2>3. QED
    BY <1>1, <2>2 DEF WalkInv
<1>7. QED
  BY <1>1, <1>3, <1>4, <1>5, <1>6 DEF AsmInv, LayoutPassAgrees, ReservedIsFilled

LEMMA AsmStutter == ASSUME AsmInv, UNCHANGED vars PROVE AsmInv'
<1>1. /\ stage' = stage /\ result' = result /\ lines' = lines /\ text_base' = text_base
      /\ data_base' = data_base /\ k' = k /\ current' = current /\ sizes' = sizes /\ pc' = pc
      /\ syms' = syms /\ image' = image /\ hex' = hex
  BY DEF vars
<1>2. AsmTypeOK' /\ LinesInv' /\ LayoutPassAgrees' /\ ReservedIsFilled'
  BY <1>1 DEF AsmInv, AsmTypeOK, LinesInv, LayoutPassAgrees, ReservedIsFilled
<1>3. StageInv'
  <2>1. PackWords' = PackWords
    BY <1>1 DEF PackWords, ImageLo, ImageHi, ByteOr0
  <2>2. QED
    BY <1>1, <2>1 DEF AsmInv, StageInv, Placed, Written, to_hex_lines
<1>4. WalkInv'
  <2>1. PICK S \in [0 .. Len(lines) -> Nat], C \in [0 .. Len(lines) -> Sections] : Follows(S, C)
    BY DEF AsmInv, WalkInv
  <2>2. Follows(S, C)'
    BY <1>1, <2>1 DEF Follows, Walks
  <2>3. QED
    BY <1>1, <2>2 DEF WalkInv
<1>5. QED
  BY <1>2, <1>3, <1>4 DEF AsmInv

LEMMA AsmNextInv == ASSUME AsmInv, [Next]_vars PROVE AsmInv'
<1>1. CASE ReadFails \/ SizeLineFails \/ PlaceLineFails \/ EncodeLineFails
  <2>1. PICK outcome \in {"asm_error", "crash", "unreadable"} : Stop(outcome)
    BY <1>1 DEF ReadFails, SizeLineFails, PlaceLineFails, EncodeLineFails
  <2>2. QED
    BY <2>1, StopInv
<1>2. CASE ~(ReadFails \/ SizeLineFails \/ PlaceLineFails \/ EncodeLineFails)
  BY <1>2, ReadInv, SizeLineInv, PlaceSectionsInv, PlaceLineInv, BeginInv, EncodeLineInv,
     WriteInv, AsmStutter DEF Next
<1>3. QED
  BY <1>1, <1>2

(* The invariant holds of every run of the assembler, for every source,    *)
(* text_base and data_base.                                                *)
THEOREM AsmInvariant == Spec => []AsmInv
<1>1. Init => AsmInv
  BY AsmInitInv
<1>2. AsmInv /\ [Next]_vars => AsmInv'
  BY AsmNextInv
<1>3. QED
  BY <1>1, <1>2, PTL DEF Spec

(* Addresses and sizes never go negative; the image and the hex file hold  *)
(* bytes.                                                                  *)
THEOREM AsmTypes == Spec => []AsmTypeOK
<1>1. AsmInv => AsmTypeOK
  BY DEF AsmInv
<1>2. QED
  BY <1>1, AsmInvariant, PTL

(* The size walk of assemble() and the placing walk of pass1 agree on the  *)
(* end of .text, for every program.                                        *)
THEOREM LayoutsAgree == Spec => []LayoutPassAgrees
<1>1. AsmInv => LayoutPassAgrees
  BY DEF AsmInv
<1>2. QED
  BY <1>1, AsmInvariant, PTL

(* No encoder of encode_line returns more or fewer bytes than pass1        *)
(* reserved for its line.                                                  *)
THEOREM EveryByteReserved == Spec => []ReservedIsFilled
<1>1. AsmInv => ReservedIsFilled
  BY DEF AsmInv
<1>2. QED
  BY <1>1, AsmInvariant, PTL

(***************************************************************************)
(* The lines of a section lie one after the other, from its base to pc.    *)
(***************************************************************************)
Base(s) == IF s = "text" THEN text_base ELSE data_base

InOrder(n) ==
  /\ \A s \in Sections : Base(s) <= pc[s]
  /\ \A i \in 1 .. n : /\ Base(lines[i].section) <= lines[i].pc
                       /\ lines[i].pc + lines[i].size <= pc[lines[i].section]
  /\ \A i, j \in 1 .. n : i < j /\ lines[i].section = lines[j].section =>
                            lines[i].pc + lines[i].size <= lines[j].pc

OrderInv ==
  /\ stage = "pass1" => InOrder(k - 1)
  /\ Placed => InOrder(Len(lines))
               /\ (OnPage(text_base) => pc["text"] = text_base + sizes["text"])

(* .data begins after .text, as it does when the caller pins nothing.      *)
SectionsApart == OnPage(text_base) /\ text_base + sizes["text"] <= data_base

LEMMA OrderNext == ASSUME AsmInv, OrderInv, [Next]_vars PROVE OrderInv'
<1>1. CASE ReadFails \/ SizeLineFails \/ PlaceLineFails \/ EncodeLineFails
  <2>1. PICK outcome \in {"asm_error", "crash", "unreadable"} : Stop(outcome)
    BY <1>1 DEF ReadFails, SizeLineFails, PlaceLineFails, EncodeLineFails
  <2>2. stage' = "done" /\ result' = outcome
    BY <2>1 DEF Stop
  <2>3. QED
    BY <2>2 DEF OrderInv, Placed, Written
<1>2. CASE ReadSource \/ SizeLine
  <2>1. stage' = "size" /\ result' = result /\ result = "running"
    BY <1>2 DEF ReadSource, SizeLine, At, AsmInv, StageInv
  <2>2. QED
    BY <2>1 DEF OrderInv, Placed, Written
<1>3. CASE PlaceSections
  <2>1. /\ stage' = "pass1" /\ k' = 1 /\ text_base' = text_base
        /\ pc' = [text |-> text_base, data |-> data_base'] /\ result' = result
        /\ result = "running" /\ text_base \in Nat
    BY <1>3 DEF PlaceSections, AsmInv, StageInv
  <2>2. data_base' \in Nat
    BY <1>3, <2>1, PlaceSectionsInv DEF AsmInv, StageInv
  <2>3. InOrder(k - 1)'
    <3>1. 1 .. k' - 1 = {}
      BY <2>1
    <3>2. \A s \in Sections : Base(s)' <= pc'[s]
      BY <2>1, <2>2 DEF Base, Sections
    <3>3. QED
      BY <3>1, <3>2 DEF InOrder, Base
  <2>4. QED
    BY <2>1, <2>3 DEF OrderInv, Placed, Written
<1>4. CASE PlaceLine
  <2> DEFINE c == current'
             at == pc[current']
             size == SizeOf(pc[current'])
  <2>1. /\ stage = "pass1" /\ stage' = stage /\ k \in 1 .. Len(lines) /\ k' = k + 1
        /\ text_base' = text_base /\ data_base' = data_base /\ result' = result
        /\ c \in Sections /\ at \in Nat /\ size \in Nat
        /\ pc' = [pc EXCEPT ![c] = at + size]
        /\ lines'[k].pc = at /\ lines'[k].section = c /\ lines'[k].size = size
    BY <1>4, PlaceLineFacts
  <2>2. \A i \in 1 .. Len(lines) : i # k => lines'[i] = lines[i]
    BY <1>4, PlaceLineFacts
  <2>3. /\ pc \in [Sections -> Nat] /\ Len(lines) \in Nat /\ text_base \in Nat
        /\ data_base \in Nat /\ result = "running"
        /\ \A i \in 1 .. Len(lines) : /\ lines[i].pc \in Nat /\ lines[i].size \in Nat
                                      /\ lines[i].section \in Sections
    BY <2>1, LinesFacts DEF AsmInv, AsmTypeOK, StageInv, Line
  <2>4. InOrder(k - 1)
    BY <2>1 DEF OrderInv
  <2>5. /\ \A s \in Sections : Base(s)' = Base(s) /\ pc[s] <= pc'[s] /\ pc[s] \in Nat /\ pc'[s] \in Nat
        /\ pc'[c] = at + size /\ at = pc[c]
        /\ \A s \in Sections : Base(s) \in Nat
    BY <2>1, <2>3 DEF Base
  <2>6. \A i \in 1 .. k - 1 : i \in 1 .. Len(lines) /\ i # k
    BY <2>1, <2>3
  <2> HIDE DEF c, at, size
  <2>7. ASSUME NEW i \in 1 .. k
        PROVE  /\ Base(lines'[i].section) <= lines'[i].pc
               /\ lines'[i].pc + lines'[i].size <= pc'[lines'[i].section]
               /\ lines'[i].section \in Sections
    <3>1. CASE i = k
      BY <2>1, <2>4, <2>5, <3>1 DEF InOrder
    <3>2. CASE i # k
      <4>1. i \in 1 .. k - 1
        BY <2>1, <3>2
      <4>2. lines'[i] = lines[i] /\ i \in 1 .. Len(lines)
        BY <2>2, <2>6, <4>1
      <4>3. /\ Base(lines[i].section) <= lines[i].pc
            /\ lines[i].pc + lines[i].size <= pc[lines[i].section]
            /\ lines[i].section \in Sections /\ lines[i].pc \in Nat /\ lines[i].size \in Nat
        BY <2>3, <2>4, <4>1, <4>2 DEF InOrder
      <4>4. pc[lines[i].section] <= pc'[lines[i].section]
            /\ pc[lines[i].section] \in Nat /\ pc'[lines[i].section] \in Nat
        BY <2>5, <4>3
      <4>5. lines[i].pc + lines[i].size <= pc'[lines[i].section]
        BY <4>3, <4>4
      <4>6. QED
        BY <4>2, <4>3, <4>5
    <3>3. QED
      BY <3>1, <3>2
  <2>8. ASSUME NEW i \in 1 .. k, NEW j \in 1 .. k, i < j, lines'[i].section = lines'[j].section
        PROVE  lines'[i].pc + lines'[i].size <= lines'[j].pc
    <3>1. i \in 1 .. k - 1 /\ i \in 1 .. Len(lines)
      BY <2>1, <2>3, <2>8
    <3>2. lines'[i] = lines[i]
      BY <2>2, <2>6, <3>1
    <3>3. CASE j = k
      BY <2>1, <2>4, <2>5, <2>8, <3>1, <3>2, <3>3 DEF InOrder
    <3>4. CASE j # k
      <4>1. j \in 1 .. k - 1
        BY <2>1, <3>4
      <4>2. lines'[j] = lines[j]
        BY <2>2, <2>6, <4>1
      <4>3. QED
        BY <2>4, <2>8, <3>1, <3>2, <4>1, <4>2 DEF InOrder
    <3>5. QED
      BY <3>3, <3>4
  <2>9. \A s \in Sections : Base(s) <= pc'[s]
    BY <2>4, <2>5 DEF InOrder
  <2>10. k' - 1 = k
    BY <2>1
  <2>11. InOrder(k - 1)'
    <3>1. \A s : Base(s)' = Base(s)
      BY <2>1 DEF Base
    <3>2. QED
      BY <2>1, <2>7, <2>8, <2>9, <2>10, <3>1 DEF InOrder, Base
  <2>12. QED
    BY <2>1, <2>3, <2>11 DEF OrderInv, Placed, Written
<1>5. CASE BeginPass2
  <2>1. /\ stage = "pass1" /\ stage' = "pass2" /\ lines' = lines /\ text_base' = text_base
        /\ data_base' = data_base /\ pc' = pc /\ sizes' = sizes /\ k > Len(lines)
    BY <1>5 DEF BeginPass2
  <2>2. Len(lines) \in Nat /\ k - 1 = Len(lines)
    BY <2>1, LinesFacts, SMT DEF AsmInv, AsmTypeOK
  <2>3. InOrder(Len(lines))
    BY <2>1, <2>2 DEF OrderInv
  <2>4. InOrder(Len(lines))'
    BY <2>1, <2>3 DEF InOrder, Base
  <2>5. OnPage(text_base) => pc["text"] = text_base + sizes["text"]
    BY <1>5, <2>1, BeginInv DEF AsmInv, LayoutPassAgrees, OnPage
  <2>6. QED
    BY <2>1, <2>4, <2>5 DEF OrderInv, OnPage
<1>6. CASE EncodeLine \/ WriteHex \/ UNCHANGED vars
  <2>1. /\ lines' = lines /\ text_base' = text_base /\ data_base' = data_base /\ pc' = pc
        /\ sizes' = sizes
    BY <1>6 DEF EncodeLine, WriteHex, vars
  <2>2. /\ Placed' => Placed
        /\ stage' = "pass1" => stage = "pass1" /\ k' = k
    BY <1>6 DEF EncodeLine, WriteHex, vars, Placed, Written, At
  <2>3. (stage = "pass1" => InOrder(k - 1))'
    <3>1. SUFFICES ASSUME stage' = "pass1" PROVE InOrder(k - 1)'
      OBVIOUS
    <3>2. InOrder(k - 1) /\ k' = k
      BY <2>2, <3>1 DEF OrderInv
    <3>3. QED
      BY <2>1, <3>2 DEF InOrder, Base
  <2>4. Placed' => InOrder(Len(lines))'
    BY <2>1, <2>2 DEF OrderInv, InOrder, Base
  <2>5. QED
    BY <2>1, <2>2, <2>3, <2>4 DEF OrderInv, OnPage
<1>7. QED
  BY <1>1, <1>2, <1>3, <1>4, <1>5, <1>6 DEF Next

LEMMA OrderInit == ASSUME Init PROVE OrderInv
BY DEF Init, OrderInv, Placed, Written

(* No two lines share an address.                                          *)
LEMMA LinesApart ==
  ASSUME AsmInv, OrderInv, Placed, SectionsApart,
         NEW i \in 1 .. Len(lines), NEW j \in 1 .. Len(lines), i # j,
         NEW a \in lines[i].pc .. lines[i].pc + lines[i].size - 1
  PROVE  a \notin lines[j].pc .. lines[j].pc + lines[j].size - 1
<1>1. /\ InOrder(Len(lines)) /\ pc["text"] = text_base + sizes["text"]
      /\ text_base + sizes["text"] <= data_base
  BY DEF OrderInv, SectionsApart
<1>2. /\ text_base \in Nat /\ data_base \in Nat /\ sizes["text"] \in Nat
      /\ Len(lines) \in Nat /\ pc["text"] \in Nat /\ pc["data"] \in Nat
  BY LinesFacts DEF AsmInv, AsmTypeOK, StageInv, Placed, Sections
<1>3. ASSUME NEW m \in 1 .. Len(lines)
      PROVE  /\ lines[m].pc \in Nat /\ lines[m].size \in Nat
             /\ lines[m].section = "text" \/ lines[m].section = "data"
             /\ lines[m].section = "text" => lines[m].pc + lines[m].size <= data_base
             /\ lines[m].section = "data" => data_base <= lines[m].pc
  <2>1. /\ lines[m].pc \in Nat /\ lines[m].size \in Nat
        /\ lines[m].section = "text" \/ lines[m].section = "data"
    BY LinesFacts DEF AsmInv, Line, Sections
  <2>2. /\ Base(lines[m].section) <= lines[m].pc
        /\ lines[m].pc + lines[m].size <= pc[lines[m].section]
    BY <1>1 DEF InOrder
  <2>3. ASSUME lines[m].section = "text" PROVE lines[m].pc + lines[m].size <= data_base
    BY <1>1, <1>2, <2>1, <2>2, <2>3, SMTT(20)
  <2>4. ASSUME lines[m].section = "data" PROVE data_base <= lines[m].pc
    BY <2>2, <2>4 DEF Base
  <2>5. QED
    BY <2>1, <2>3, <2>4
<1>4. \/ lines[i].pc + lines[i].size <= lines[j].pc
      \/ lines[j].pc + lines[j].size <= lines[i].pc
  <2>1. CASE lines[i].section = lines[j].section
    <3>1. i < j \/ j < i
      BY <1>2
    <3>2. QED
      BY <1>1, <2>1, <3>1 DEF InOrder
  <2>2. CASE lines[i].section # lines[j].section
    <3>1. \/ lines[i].section = "text" /\ lines[j].section = "data"
          \/ lines[j].section = "text" /\ lines[i].section = "data"
      BY <1>3, <2>2
    <3>2. ASSUME NEW m \in 1 .. Len(lines), NEW n \in 1 .. Len(lines),
                 lines[m].section = "text", lines[n].section = "data"
          PROVE  lines[m].pc + lines[m].size <= lines[n].pc
      <4>1. /\ lines[m].pc \in Nat /\ lines[m].size \in Nat
            /\ lines[m].pc + lines[m].size <= data_base
        BY <1>3, <3>2
      <4>2. lines[n].pc \in Nat /\ data_base <= lines[n].pc
        BY <1>3, <3>2
      <4>3. QED
        BY <1>2, <4>1, <4>2, SMTT(30)
    <3>3. QED
      BY <3>1, <3>2
  <2>3. QED
    BY <2>1, <2>2
<1>5. /\ lines[i].pc \in Nat /\ lines[i].size \in Nat
      /\ lines[j].pc \in Nat /\ lines[j].size \in Nat
  BY <1>3
<1>6. ASSUME NEW p \in Nat, NEW s \in Nat, NEW q \in Nat, NEW t \in Nat,
             p + s <= q \/ q + t <= p, NEW x \in p .. p + s - 1
      PROVE  x \notin q .. q + t - 1
  BY <1>6, SMT
<1>7. QED
  BY <1>4, <1>5, <1>6, Zenon

(* A step of the assembler writes only where nothing was written.          *)
LEMMA FreshBytes ==
  ASSUME AsmInv, OrderInv, SectionsApart, EncodeLine
  PROVE  (ln.pc .. ln.pc + Reserved(ln) - 1) \cap DOMAIN image = {}
<1>1. /\ stage = "pass2" /\ k \in 1 .. Len(lines) /\ ln.pc \in Nat /\ Reserved(ln) \in Nat
      /\ Len(lines) \in Nat /\ DOMAIN lines = 1 .. Len(lines)
  BY EncodeLineFacts, LinesFacts DEF AsmInv
<1>2. CASE ln.op = ".align"
  <2>1. Reserved(ln) = 0
    BY <1>2, NoDirective DEF Reserved
  <2>2. QED
    BY <1>1, <2>1
<1>3. CASE ln.op # ".align"
  <2>1. Reserved(ln) = lines[k].size /\ ln = lines[k]
    BY <1>1, <1>3 DEF AsmInv, StageInv, Placed, SizeFits, ln
  <2>2. SUFFICES ASSUME NEW a \in lines[k].pc .. lines[k].pc + lines[k].size - 1,
                        a \in DOMAIN image
                 PROVE  FALSE
    BY <2>1
  <2>3. PICK i \in 1 .. k - 1 : a \in lines[i].pc .. lines[i].pc + lines[i].size - 1
    BY <1>1, <2>2 DEF AsmInv, ReservedIsFilled
  <2>4. i \in 1 .. Len(lines) /\ i # k
    BY <1>1
  <2>5. QED
    BY <1>1, <2>3, <2>4, LinesApart DEF Placed
<1>4. QED
  BY <1>2, <1>3

LEMMA CountsUp ==
  ASSUME AsmInv, OrderInv, Placed => SectionsApart, Next
  PROVE  Cardinality(DOMAIN image') = Cardinality(DOMAIN image) +
           (IF stage = "pass2" /\ k' > k /\ ln.op # ".align" THEN ln.size ELSE 0)
<1>1. IsFiniteSet(DOMAIN image) /\ k \in Nat
  BY LinesFacts DEF AsmInv, StageInv, AsmTypeOK
<1>2. Cardinality(DOMAIN image) \in Nat
  BY <1>1, FS_CardinalityType
<1>3. CASE EncodeLine
  <2> DEFINE new == ln.pc .. ln.pc + Reserved(ln) - 1
  <2>1. /\ stage = "pass2" /\ k \in 1 .. Len(lines) /\ k' = k + 1
        /\ ln.pc \in Nat /\ Reserved(ln) \in Nat /\ DOMAIN image' = DOMAIN image \cup new
    BY <1>3, EncodeLineFacts
  <2>2. new \cap DOMAIN image = {}
    BY <1>3, <2>1, FreshBytes DEF Placed
  <2>3. IsFiniteSet(new) /\ Cardinality(new) = Reserved(ln)
    <3> DEFINE top == ln.pc + Reserved(ln) - 1
    <3>1. ln.pc \in Int /\ top \in Int /\ new = ln.pc .. top
      BY <2>1
    <3> HIDE DEF new, top
    <3>2. /\ IsFiniteSet(ln.pc .. top)
          /\ Cardinality(ln.pc .. top) = IF ln.pc > top THEN 0 ELSE top - ln.pc + 1
      BY <3>1, FS_Interval
    <3>3. (IF ln.pc > top THEN 0 ELSE top - ln.pc + 1) = Reserved(ln)
      BY <2>1 DEF top
    <3>4. QED
      BY <3>1, <3>2, <3>3
  <2> HIDE DEF new
  <2>4. Cardinality(DOMAIN image \cup new)
          = Cardinality(DOMAIN image) + Cardinality(new) - Cardinality(DOMAIN image \cap new)
    BY <1>1, <2>3, FS_Union
  <2>5. Cardinality(DOMAIN image \cap new) = 0
    <3>1. DOMAIN image \cap new = {}
      BY <2>2
    <3>2. QED
      BY <3>1, FS_EmptySet, Zenon
  <2>6. Cardinality(DOMAIN image') = Cardinality(DOMAIN image \cup new)
    BY <2>1, Zenon
  <2>7. Cardinality(DOMAIN image') = Cardinality(DOMAIN image) + Reserved(ln)
    BY <1>2, <2>1, <2>3, <2>4, <2>5, <2>6
  <2>8. Reserved(ln) = IF ln.op # ".align" THEN ln.size ELSE 0
    <3>1. CASE ln.op = ".align"
      BY <3>1, NoDirective DEF Reserved
    <3>2. CASE ln.op # ".align"
      BY <2>1, <3>2, LinesFacts DEF AsmInv, StageInv, Placed, SizeFits, ln
    <3>3. QED
      BY <3>1, <3>2
  <2>9. k' > k
    BY <1>1, <2>1
  <2>10. QED
    BY <2>1, <2>7, <2>8, <2>9
<1>4. CASE ~EncodeLine
  <2>1. image' = image
    BY <1>4 DEF Next, ReadFails, ReadSource, SizeLine, SizeLineFails, PlaceSections, PlaceLine,
                PlaceLineFails, BeginPass2, EncodeLineFails, WriteHex, Stop
  <2>2. ~(stage = "pass2" /\ k' > k)
    <3>1. stage = "pass2" => k' = k
      BY <1>4 DEF Next, ReadFails, ReadSource, SizeLine, SizeLineFails, PlaceSections, PlaceLine,
                  PlaceLineFails, BeginPass2, EncodeLineFails, WriteHex, Stop, At
    <3>2. QED
      BY <1>1, <3>1
  <2>3. Cardinality(DOMAIN image') = Cardinality(DOMAIN image)
    BY <2>1, Zenon
  <2>4. QED
    BY <1>2, <2>2, <2>3
<1>5. QED
  BY <1>3, <1>4

(***************************************************************************)
(* The layout of a call that pins no data_base and gives a text_base at    *)
(* which every .align boundary falls.                                      *)
(***************************************************************************)
DefaultLayout == Pins = {None} /\ \A base \in Bases : OnPage(base)

LayoutInv ==
  /\ text_base \in Bases
  /\ stage \in {"read", "size"} => data_base \in Pins
  /\ stage = "pass1" \/ Placed => data_base = DefaultDataBase

LEMMA LayoutNext == ASSUME DefaultLayout, AsmInv, LayoutInv, [Next]_vars PROVE LayoutInv'
<1>1. CASE PlaceSections
  <2>1. stage = "size" /\ stage' = "pass1" /\ text_base' = text_base /\ sizes' = sizes
        /\ data_base' = (IF data_base = None THEN DefaultDataBase ELSE data_base)
    BY <1>1 DEF PlaceSections
  <2>2. data_base' = DefaultDataBase
    BY <2>1 DEF LayoutInv, DefaultLayout
  <2>3. QED
    BY <2>1, <2>2 DEF LayoutInv, DefaultDataBase
<1>2. CASE ~PlaceSections
  <2>1. text_base' = text_base /\ data_base' = data_base
    BY <1>2 DEF Next, ReadFails, ReadSource, SizeLine, SizeLineFails, PlaceLine,
                PlaceLineFails, BeginPass2, EncodeLine, EncodeLineFails, WriteHex, Stop, vars
  <2>2. stage' \in {"read", "size"} => stage \in {"read", "size"}
    BY <1>2 DEF Next, ReadFails, ReadSource, SizeLine, SizeLineFails, PlaceLine,
                PlaceLineFails, BeginPass2, EncodeLine, EncodeLineFails, WriteHex, Stop, vars, At
  <2>3. stage' = "pass1" \/ Placed' => (stage = "pass1" \/ Placed) /\ sizes' = sizes
    BY <1>2 DEF Next, ReadFails, ReadSource, SizeLine, SizeLineFails, PlaceLine,
                PlaceLineFails, BeginPass2, EncodeLine, EncodeLineFails, WriteHex, Stop, vars, At,
                Placed, Written, AsmInv, StageInv
  <2>4. QED
    BY <2>1, <2>2, <2>3 DEF LayoutInv, DefaultDataBase
<1>3. QED
  BY <1>1, <1>2

LEMMA LayoutApart ==
  ASSUME DefaultLayout, AsmInv, LayoutInv PROVE stage = "pass1" \/ Placed => SectionsApart
<1>1. SUFFICES ASSUME stage = "pass1" \/ Placed PROVE SectionsApart
  OBVIOUS
<1>2. data_base = text_base + ((sizes["text"] + 3) \div 4) * 4 /\ OnPage(text_base)
  BY <1>1 DEF LayoutInv, DefaultLayout, DefaultDataBase
<1>3. text_base \in Nat /\ sizes["text"] \in Nat
  BY DEF AsmInv, AsmTypeOK, StageInv, Sections
<1>4. sizes["text"] <= ((sizes["text"] + 3) \div 4) * 4
  BY <1>3, SMT
<1>5. QED
  BY <1>2, <1>3, <1>4, SMT DEF SectionsApart

(* With the default layout no line of any program writes over another's    *)
(* bytes: pass2 grows the image by what pass1 reserved.                    *)
THEOREM NoOverwriting ==
  ASSUME DefaultLayout PROVE Spec => NothingOverwritten
<1> DEFINE J == AsmInv /\ OrderInv /\ LayoutInv
           A == Cardinality(DOMAIN image') = Cardinality(DOMAIN image) +
                  (IF stage = "pass2" /\ k' > k /\ ln.op # ".align" THEN ln.size ELSE 0)
<1>1. Init => J
  <2>1. Init => LayoutInv
    BY DEF Init, LayoutInv, Placed, Written
  <2>2. QED
    BY <2>1, AsmInitInv, OrderInit
<1>2. J /\ [Next]_vars => J'
  BY AsmNextInv, OrderNext, LayoutNext
<1>3. J /\ [Next]_vars => [A]_vars
  <2>1. SUFFICES ASSUME J, Next PROVE A
    OBVIOUS
  <2>2. QED
    BY <2>1, LayoutApart, CountsUp
<1>4. QED
  BY <1>1, <1>2, <1>3, PTL DEF Spec, NothingOverwritten

(***************************************************************************)
(* The image holds what encode_line returned for every line before k, and  *)
(* the hex file holds the image.                                           *)
(***************************************************************************)
Holds(i) ==
  \E out \in encode_line(lines[i], syms) :
    \A b \in 1 .. Reserved(lines[i]) :
      /\ lines[i].pc + b - 1 \in DOMAIN image
      /\ image[lines[i].pc + b - 1] = BytesOf(lines[i].op, out)[b]

ContentInv ==
  Placed /\ SectionsApart => \A i \in 1 .. k - 1 : lines[i].op # None => Holds(i)

LEMMA ContentStep ==
  ASSUME AsmInv, OrderInv, ContentInv, SectionsApart, EncodeLine,
         NEW i \in 1 .. k, lines[i].op # None
  PROVE  Holds(i)'
<1>1. /\ stage = "pass2" /\ k \in 1 .. Len(lines) /\ lines' = lines /\ syms' = syms
      /\ ln.pc \in Nat /\ Reserved(ln) \in Nat
      /\ DOMAIN image' = DOMAIN image \cup (ln.pc .. ln.pc + Reserved(ln) - 1)
  BY EncodeLineFacts
<1>2. PICK out \in (IF ln.op = None THEN {<<>>} ELSE encode_line(ln, syms)) :
        \A a \in DOMAIN image' :
          image'[a] = IF a \in ln.pc .. ln.pc + Reserved(ln) - 1
                      THEN BytesOf(ln.op, out)[a - ln.pc + 1] ELSE image[a]
  BY EncodeLineFacts
<1>3. Len(lines) \in Nat /\ lines[i].pc \in Nat
  BY <1>1, LinesFacts DEF AsmInv, Line
<1>4. CASE i = k
  <2>1. lines[i] = ln /\ out \in encode_line(ln, syms)
    BY <1>2, <1>4 DEF ln
  <2>2. ASSUME NEW b \in 1 .. Reserved(ln)
        PROVE  /\ ln.pc + b - 1 \in DOMAIN image'
               /\ image'[ln.pc + b - 1] = BytesOf(ln.op, out)[b]
    <3> DEFINE a == ln.pc + b - 1
    <3>1. a \in ln.pc .. ln.pc + Reserved(ln) - 1 /\ a - ln.pc + 1 = b
      BY <1>1, SMTT(20)
    <3> HIDE DEF a
    <3>2. a \in DOMAIN image' /\ image'[a] = BytesOf(ln.op, out)[a - ln.pc + 1]
      BY <1>1, <1>2, <3>1
    <3>3. QED
      BY <3>1, <3>2 DEF a
  <2>3. QED
    BY <1>1, <2>1, <2>2 DEF Holds
<1>5. CASE i # k
  <2>1. i \in 1 .. k - 1
    BY <1>1, <1>5
  <2>2. Holds(i)
    BY <1>1, <2>1 DEF ContentInv, Placed
  <2>3. PICK was \in encode_line(lines[i], syms) :
          \A b \in 1 .. Reserved(lines[i]) :
            /\ lines[i].pc + b - 1 \in DOMAIN image
            /\ image[lines[i].pc + b - 1] = BytesOf(lines[i].op, was)[b]
    BY <2>2 DEF Holds
  <2>4. (ln.pc .. ln.pc + Reserved(ln) - 1) \cap DOMAIN image = {}
    BY FreshBytes
  <2>5. \A b \in 1 .. Reserved(lines[i]) :
          /\ lines[i].pc + b - 1 \in DOMAIN image'
          /\ image'[lines[i].pc + b - 1] = BytesOf(lines[i].op, was)[b]
    BY <1>1, <1>2, <2>3, <2>4
  <2>6. QED
    BY <1>1, <2>5 DEF Holds
<1>6. QED
  BY <1>4, <1>5

LEMMA ContentNext ==
  ASSUME AsmInv, OrderInv, ContentInv, [Next]_vars PROVE ContentInv'
<1>1. SUFFICES ASSUME Placed', SectionsApart', NEW i \in (1 .. k - 1)', lines'[i].op # None
               PROVE  Holds(i)'
  BY DEF ContentInv
<1>2. CASE EncodeLine
  <2>1. k' - 1 = k /\ lines' = lines /\ text_base' = text_base /\ sizes' = sizes
        /\ data_base' = data_base
    BY <1>2, EncodeLineFacts, LinesFacts, SMT DEF AsmInv
  <2>2. SectionsApart /\ i \in 1 .. k /\ lines[i].op # None
    BY <1>1, <2>1 DEF SectionsApart, OnPage
  <2>3. QED
    BY <1>2, <2>2, ContentStep
<1>3. CASE BeginPass2
  BY <1>1, <1>3 DEF BeginPass2
<1>4. CASE WriteHex \/ UNCHANGED vars
  <2>1. /\ lines' = lines /\ text_base' = text_base /\ data_base' = data_base /\ sizes' = sizes
        /\ syms' = syms /\ image' = image /\ k' = k
    BY <1>4 DEF WriteHex, vars
  <2>2. Placed
    BY <1>1, <1>4 DEF WriteHex, vars, Placed, Written
  <2>3. Holds(i)
    BY <1>1, <2>1, <2>2 DEF ContentInv, SectionsApart, OnPage
  <2>4. QED
    BY <2>1, <2>3 DEF Holds
<1>5. CASE ~(EncodeLine \/ BeginPass2 \/ WriteHex \/ UNCHANGED vars)
  <2>1. ~Placed'
    BY <1>5 DEF Next, ReadFails, ReadSource, SizeLine, SizeLineFails, PlaceSections, PlaceLine,
                PlaceLineFails, EncodeLineFails, Stop, Placed, Written, At, AsmInv, StageInv
  <2>2. QED
    BY <1>1, <2>1
<1>6. QED
  BY <1>2, <1>3, <1>4, <1>5

LEMMA LeastIsMin ==
  ASSUME NEW S \in SUBSET Nat, S # {}
  PROVE  Min(S) \in S /\ \A y \in S : Min(S) <= y
<1>1. \E x \in S : \A y \in S : x <= y
  BY Least
<1>2. QED
  BY <1>1 DEF Min

LEMMA GreatestIsMax ==
  ASSUME NEW n \in Nat, NEW S \in SUBSET (0 .. n), S # {}
  PROVE  Max(S) \in S /\ \A y \in S : Max(S) >= y
<1> DEFINE T == {n - x : x \in S}
<1>1. T \in SUBSET Nat /\ T # {}
  <2>1. \A x \in S : x \in 0 .. n /\ n - x \in Nat
    OBVIOUS
  <2>2. QED
    BY <2>1
<1>2. PICK t \in T : \A y \in T : t <= y
  BY <1>1, Least
<1>3. PICK x \in S : t = n - x
  OBVIOUS
<1>4. \A y \in S : x >= y
  BY <1>2, <1>3
<1>5. QED
  BY <1>4 DEF Max

(* A line of the file read back is the bytes of the image.                 *)
LEMMA LoadedIs ==
  ASSUME AsmInv, Written, NEW a \in DOMAIN image
  PROVE  Loaded(a) = image[a]
<1> DEFINE lo == ImageLo
           hi == ImageHi
           D == DOMAIN image
           i == ((a - lo) \div 4) + 1
           r == (a - lo) % 4
           word == [b \in 1 .. 4 |-> ByteOr0(lo + 4 * (i - 1) + b - 1)]
<1>1. PICK n \in Nat : \A x \in D : x <= n
  BY DEF AsmInv, StageInv
<1>2. D \in SUBSET Nat /\ D \in SUBSET (0 .. n) /\ D # {} /\ a \in D
  BY <1>1 DEF AsmInv, StageInv
<1>3. Min(D) \in Nat /\ Max(D) \in Nat /\ a \in Nat /\ Min(D) <= a /\ a <= Max(D)
  <2> HIDE DEF D
  <2>1. Min(D) \in D /\ Min(D) <= a
    BY <1>2, LeastIsMin
  <2>2. Max(D) \in D /\ Max(D) >= a
    BY <1>2, GreatestIsMax
  <2>3. QED
    BY <1>2, <2>1, <2>2
<1>4. lo = (Min(D) \div 4) * 4 /\ hi = ((Max(D) + 4) \div 4) * 4
  BY DEF ImageLo, ImageHi
<1> HIDE DEF lo, hi, D
<1>6. lo \in Int /\ hi \in Int
  BY <1>3, <1>4, SMT
<1>7. i \in 1 .. (hi - lo) \div 4 /\ r \in 0 .. 3 /\ lo + 4 * (i - 1) + (r + 1) - 1 = a
  <2> DEFINE mn == Min(D)
             mx == Max(D)
  <2>1. /\ mn \in Nat /\ mx \in Nat /\ mn <= a /\ a <= mx /\ a \in Nat
        /\ lo = (mn \div 4) * 4 /\ hi = ((mx + 4) \div 4) * 4
    BY <1>3, <1>4, Zenon
  <2> HIDE DEF mn, mx
  <2>2. PICK p \in Int, q \in Int : lo = 4 * p /\ hi = 4 * q /\ 4 * p <= a /\ a < 4 * q
    <3>1. mn \div 4 \in Int /\ (mx + 4) \div 4 \in Int
      BY <2>1, SMT
    <3>2. 4 * (mn \div 4) <= a /\ a < 4 * ((mx + 4) \div 4)
      BY <2>1, SMT
    <3>3. lo = 4 * (mn \div 4) /\ hi = 4 * ((mx + 4) \div 4)
      BY <2>1, SMT
    <3>4. QED
      BY <3>1, <3>2, <3>3
  <2>3. ASSUME NEW x \in Nat, 4 * p <= x, x < 4 * q
        PROVE  /\ ((x - 4 * p) \div 4) + 1 \in 1 .. (4 * q - 4 * p) \div 4
               /\ (x - 4 * p) % 4 \in 0 .. 3
               /\ 4 * p + 4 * ((((x - 4 * p) \div 4) + 1) - 1) + (((x - 4 * p) % 4) + 1) - 1 = x
    BY <2>3, SMT
  <2>4. QED
    BY <2>1, <2>2, <2>3
<1>8. PackWords[i] = word /\ i \in DOMAIN PackWords
  BY <1>2, <1>7 DEF PackWords, lo, hi, D
<1>9. Reverse(word) = [j \in 1 .. 4 |-> word[(4 - j) + 1]]
  <2>1. word \in [1 .. 4 -> {ByteOr0(lo + 4 * (i - 1) + b - 1) : b \in 1 .. 4}]
    OBVIOUS
  <2> HIDE DEF word
  <2>2. Len(word) = 4
    BY <2>1, FcnSeq
  <2>3. QED
    BY <2>2 DEF Reverse
<1>10. hex[i] = Reverse(word)
  BY <1>8 DEF AsmInv, StageInv, to_hex_lines
<1>11. 4 - r \in 1 .. 4 /\ (4 - (4 - r)) + 1 = r + 1 /\ r + 1 \in 1 .. 4
  BY <1>7
<1>12. Reverse(word)[4 - r] = word[r + 1]
  <2> HIDE DEF word, r, i
  <2>1. QED
    BY <1>9, <1>11
<1>13. word[r + 1] = ByteOr0(a)
  <2> HIDE DEF r, i
  <2>1. QED
    BY <1>7, <1>11
<1>14. Loaded(a) = hex[i][4 - r]
  BY DEF Loaded, lo
<1>15. QED
  BY <1>10, <1>12, <1>13, <1>14 DEF ByteOr0

(***************************************************************************)
(* Reading the words back.                                                 *)
(***************************************************************************)
LEMMA InsnBack ==
  ASSUME NEW a, NEW w \in Slices,
         Loaded(a) = InsnBytes(w)[1], Loaded(a + 1) = InsnBytes(w)[2],
         Loaded(a + 2) = InsnBytes(w)[3], Loaded(a + 3) = InsnBytes(w)[4]
  PROVE  Insn(a) = w
<1> DEFINE b0 == w.opcode + 128 * w.b7
           b1 == w.b11_8 + 16 * w.b14_12 + 128 * (w.b19_15 % 2)
           b2 == (w.b19_15 \div 2) + 16 * w.b20 + 32 * (w.b24_21 % 8)
           b3 == (w.b24_21 \div 8) + 2 * w.b30_25 + 128 * w.b31
<1>1. Loaded(a) = b0 /\ Loaded(a + 1) = b1 /\ Loaded(a + 2) = b2 /\ Loaded(a + 3) = b3
  BY DEF InsnBytes
<1>2. /\ w.opcode \in 0 .. 127 /\ w.b7 \in 0 .. 1 /\ w.b11_8 \in 0 .. 15 /\ w.b14_12 \in 0 .. 7
      /\ w.b19_15 \in 0 .. 31 /\ w.b20 \in 0 .. 1 /\ w.b24_21 \in 0 .. 15
      /\ w.b30_25 \in 0 .. 63 /\ w.b31 \in 0 .. 1
  BY DEF Slices
<1>3. b0 \div 128 = w.b7 /\ b0 % 128 = w.opcode
  BY <1>2, SMT
<1>4. b1 % 16 = w.b11_8 /\ (b1 \div 16) % 8 = w.b14_12 /\ b1 \div 128 = w.b19_15 % 2
  BY <1>2, SMT
<1>5. b2 % 16 = w.b19_15 \div 2 /\ (b2 \div 16) % 2 = w.b20 /\ b2 \div 32 = w.b24_21 % 8
  BY <1>2, SMT
<1>6. b3 % 2 = w.b24_21 \div 8 /\ (b3 \div 2) % 64 = w.b30_25 /\ b3 \div 128 = w.b31
  BY <1>2, SMT
<1>7. /\ (b2 % 16) * 2 + (b1 \div 128) = w.b19_15
      /\ (b3 % 2) * 8 + (b2 \div 32) = w.b24_21
  <2>1. /\ (w.b19_15 \div 2) * 2 + (w.b19_15 % 2) = w.b19_15
        /\ (w.b24_21 \div 8) * 8 + (w.b24_21 % 8) = w.b24_21
    BY <1>2, SMT
  <2> HIDE DEF b1, b2, b3
  <2>2. QED
    BY <1>4, <1>5, <1>6, <2>1
<1> HIDE DEF b0, b1, b2, b3
<1>8. Insn(a) = [b31 |-> b3 \div 128, b30_25 |-> (b3 \div 2) % 64,
                 b24_21 |-> (b3 % 2) * 8 + (b2 \div 32), b20 |-> (b2 \div 16) % 2,
                 b19_15 |-> (b2 % 16) * 2 + (b1 \div 128), b14_12 |-> (b1 \div 16) % 8,
                 b11_8 |-> b1 % 16, b7 |-> b0 \div 128, opcode |-> b0 % 128]
  BY <1>1 DEF Insn
<1>9. Insn(a) = [b31 |-> w.b31, b30_25 |-> w.b30_25, b24_21 |-> w.b24_21, b20 |-> w.b20,
                 b19_15 |-> w.b19_15, b14_12 |-> w.b14_12, b11_8 |-> w.b11_8, b7 |-> w.b7,
                 opcode |-> w.opcode]
  BY <1>3, <1>4, <1>5, <1>6, <1>7, <1>8, Zenon
<1>10. QED
  BY <1>9 DEF Slices

(* Every instruction of the file is the one that encode_line returned.     *)
LEMMA WordsBack ==
  ASSUME AsmInv, ContentInv, SectionsApart, Written, NEW i \in DOMAIN lines,
         lines[i].op \notin {None, ".text", ".data", ".align", ".word", ".byte"}
  PROVE  \E out \in encode_line(lines[i], syms) :
           /\ OneWord(out) \/ TwoWords(out)
           /\ Insn(lines[i].pc) = out[1]
           /\ TwoWords(out) => Insn(lines[i].pc + 4) = out[2]
<1> DEFINE l == lines[i]
<1>1. /\ i \in 1 .. k - 1 /\ LineOK(l) /\ SymsOK(syms) /\ l.pc \in Nat
  BY LinesFacts DEF AsmInv, StageInv, AsmTypeOK, SymsOK, Line
<1>2. PICK out \in encode_line(l, syms) :
        \A b \in 1 .. Reserved(l) : /\ l.pc + b - 1 \in DOMAIN image
                                    /\ image[l.pc + b - 1] = BytesOf(l.op, out)[b]
  BY <1>1 DEF ContentInv, Placed, Holds
<1> HIDE DEF l
<1>3. /\ Reserved(l) \in Nat /\ Len(BytesOf(l.op, out)) = Reserved(l)
      /\ BytesOf(l.op, out) \in [1 .. Reserved(l) -> 0 .. 255]
  BY <1>1, <1>2, BytesFit DEF l
<1>4. ASSUME NEW n \in {1, 2}, out \in [1 .. n -> Slices], Len(out) = n, NEW m \in 1 .. n
      PROVE  Insn(l.pc + 4 * (m - 1)) = out[m]
  <2>1. BytesOf(l.op, out) = [b \in 1 .. 4 * n |->
                                InsnBytes(out[((b - 1) \div 4) + 1])[((b - 1) % 4) + 1]]
    BY <1>4 DEF BytesOf, l
  <2>2. Reserved(l) = 4 * n
    <3>1. DOMAIN BytesOf(l.op, out) = 1 .. 4 * n /\ DOMAIN BytesOf(l.op, out) = 1 .. Reserved(l)
      BY <1>3, <2>1
    <3>2. QED
      BY <1>3, <3>1, SMT
  <2>3. ASSUME NEW c \in 1 .. 4 PROVE Loaded(l.pc + 4 * (m - 1) + c - 1) = InsnBytes(out[m])[c]
    <3> DEFINE b == 4 * (m - 1) + c
    <3>1. /\ b \in 1 .. 4 * n /\ ((b - 1) \div 4) + 1 = m /\ ((b - 1) % 4) + 1 = c
          /\ l.pc + b - 1 = l.pc + 4 * (m - 1) + c - 1
      BY <1>1, <1>4, SMTT(20)
    <3> HIDE DEF b
    <3>2. /\ l.pc + b - 1 \in DOMAIN image /\ image[l.pc + b - 1] = BytesOf(l.op, out)[b]
      BY <1>2, <2>2, <3>1
    <3>3. BytesOf(l.op, out)[b] = InsnBytes(out[m])[c]
      BY <2>1, <3>1
    <3>4. Loaded(l.pc + b - 1) = image[l.pc + b - 1]
      BY <3>2, LoadedIs
    <3>5. QED
      BY <3>1, <3>2, <3>3, <3>4, Zenon
  <2> DEFINE a == l.pc + 4 * (m - 1)
  <2>4. a \in Int /\ a + 1 - 1 = a /\ a + 2 - 1 = a + 1 /\ a + 3 - 1 = a + 2 /\ a + 4 - 1 = a + 3
    BY <1>1
  <2>5. /\ Loaded(a + 1 - 1) = InsnBytes(out[m])[1] /\ Loaded(a + 2 - 1) = InsnBytes(out[m])[2]
        /\ Loaded(a + 3 - 1) = InsnBytes(out[m])[3] /\ Loaded(a + 4 - 1) = InsnBytes(out[m])[4]
    BY <2>3
  <2> HIDE DEF a
  <2>6. /\ Loaded(a) = InsnBytes(out[m])[1] /\ Loaded(a + 1) = InsnBytes(out[m])[2]
        /\ Loaded(a + 2) = InsnBytes(out[m])[3] /\ Loaded(a + 3) = InsnBytes(out[m])[4]
    BY <2>4, <2>5, Zenon
  <2>7. out[m] \in Slices
    BY <1>4
  <2>8. Insn(a) = out[m]
    BY <2>6, <2>7, InsnBack
  <2>9. QED
    BY <2>8 DEF a
<1>5. CASE OneWord(out)
  <2>1. out \in [1 .. 1 -> Slices] /\ Len(out) = 1
    BY <1>5 DEF OneWord
  <2>2. Insn(l.pc + 4 * (1 - 1)) = out[1]
    BY <1>4, <2>1
  <2>3. l.pc + 4 * (1 - 1) = l.pc
    BY <1>1
  <2>4. ~TwoWords(out)
    BY <2>1 DEF TwoWords
  <2>5. QED
    BY <1>2, <1>5, <2>2, <2>3, <2>4 DEF l
<1>6. CASE TwoWords(out)
  <2>1. out \in [1 .. 2 -> Slices] /\ Len(out) = 2
    BY <1>6 DEF TwoWords
  <2>2. Insn(l.pc + 4 * (1 - 1)) = out[1] /\ Insn(l.pc + 4 * (2 - 1)) = out[2]
    BY <1>4, <2>1
  <2>3. l.pc + 4 * (1 - 1) = l.pc /\ l.pc + 4 * (2 - 1) = l.pc + 4
    BY <1>1
  <2>4. QED
    BY <1>2, <1>6, <2>2, <2>3 DEF l
<1>7. OneWord(out) \/ TwoWords(out)
  BY <1>1, <1>2, EncodeShape DEF l
<1>8. QED
  BY <1>5, <1>6, <1>7

(* The immediates of what li, la, call, jumps and branches pack.           *)
LEMMA ImmLow ==
  ASSUME NEW m \in Int, 0 <= m, m < 4096, NEW op, NEW rd, NEW f3, NEW rs1
  PROVE  imm_i(i_type(op, rd, f3, rs1, m)) = Sext(m, 2048)
<1> DEFINE w == i_type(op, rd, f3, rs1, m)
<1>1. w.b31 * 2048 + w.b30_25 * 32 + w.b24_21 * 2 + w.b20
      = ((m \div 2048) % 2) * 2048 + ((m \div 32) % 64) * 32
          + ((m \div 2) % 16) * 2 + (m % 2)
  BY SMT DEF i_type
<1> HIDE DEF w
<1>2. imm_i(w) = Sext(m, 2048)
  BY <1>1, Cut12, SMT DEF imm_i
<1>3. QED
  BY <1>2 DEF w

LEMMA NopImm == imm_i(Nop) = 0
BY SMT DEF imm_i, Nop, i_type, Sext, OPC, F3Op

LEMMA PlusZero == ASSUME NEW p \in Pair PROVE Plus12(p, 0) = p
BY SMT DEF Pair, Plus12

(* What the two words leave in their register; a NOP adds nothing.         *)
OnPc(p, a) == [hi |-> (p.hi + Word32(a).hi) % 1048576, lo |-> Word32(a).lo]

LEMMA PairLui ==
  ASSUME NEW a, NEW w, NEW x, NEW p \in Pair, Insn(a) = w, Insn(a + 4) = x,
         w.opcode = OPC.LUI, p = imm_u(w)
  PROVE  PairValue(a) = Plus12(p, imm_i(x))
<1>1. PairValue(a) = IF x = Nop THEN p ELSE Plus12(p, imm_i(x))
  BY SMT DEF PairValue, OPC
<1>2. QED
  BY <1>1, NopImm, PlusZero, SMT

LEMMA PairAuipc ==
  ASSUME NEW a, NEW w, NEW x, NEW p \in Pair, Insn(a) = w, Insn(a + 4) = x,
         w.opcode = OPC.AUIPC, p = OnPc(imm_u(w), a)
  PROVE  PairValue(a) = Plus12(p, imm_i(x))
<1>1. PairValue(a) = IF x = Nop THEN p ELSE Plus12(p, imm_i(x))
  BY SMT DEF PairValue, OPC, OnPc
<1>2. QED
  BY <1>1, NopImm, PlusZero, SMT

LEMMA PairAddi ==
  ASSUME NEW a, NEW w, NEW x, NEW p \in Pair, Insn(a) = w, Insn(a + 4) = x,
         w.opcode \notin {OPC.LUI, OPC.AUIPC}, p = Word32(imm_i(w))
  PROVE  PairValue(a) = Plus12(p, imm_i(x))
<1>1. PairValue(a) = IF x = Nop THEN p ELSE Plus12(p, imm_i(x))
  BY SMT DEF PairValue, OPC
<1>2. QED
  BY <1>1, NopImm, PlusZero, SMT

(* The upper part of an offset added to a pc, and then its lower part.     *)
LEMMA PcSum ==
  ASSUME NEW o \in Int, NEW a \in Int
  PROVE  Plus12([hi |-> (HiPart(Word32(o)) + Word32(a).hi) % 1048576, lo |-> Word32(a).lo],
                Sext(LoPart(Word32(o)), 2048)) = Word32(o + a)
<1> DEFINE h == (o \div 4096)
           l == o % 4096
           g == (a \div 4096)
           m == a % 4096
           e == Sext(l, 2048)
<1>1. /\ h \in Int /\ l \in Int /\ 0 <= l /\ l < 4096 /\ o = 4096 * h + l
      /\ g \in Int /\ m \in Int /\ 0 <= m /\ m < 4096 /\ a = 4096 * g + m
  BY SMT
<1>2. /\ LoPart(Word32(o)) = l /\ Word32(a).lo = m /\ Word32(a).hi = g % 1048576
      /\ HiPart(Word32(o)) = IF l >= 2048 THEN ((h % 1048576) + 1) % 1048576 ELSE h % 1048576
  BY SMT DEF HiPart, LoPart, Word32
<1>3. Word32(o + a) = [hi |-> ((o + a) \div 4096) % 1048576, lo |-> (o + a) % 4096]
  BY DEF Word32
<1> HIDE DEF h, l, g, m
<1> DEFINE c == IF l >= 2048 THEN 1 ELSE 0
           d == (m + e) \div 4096
<1>4. e = l - 4096 * c /\ c \in Int /\ e \in Int /\ d \in Int
  BY <1>1, SextOfLow, SMT
<1>5. HiPart(Word32(o)) = (h + c) % 1048576
  BY <1>1, <1>2, SMT
<1> HIDE DEF c, d, e
<1>6. (o + a) % 4096 = (m + e) % 4096 /\ (o + a) \div 4096 = h + c + g + d
  <2> DEFINE t == m + e
             q == h + c + g
  <2>1. t \in Int /\ q \in Int /\ o + a = 4096 * q + t
    BY <1>1, <1>4, SMT
  <2>2. d = t \div 4096
    BY DEF d
  <2> HIDE DEF t, q
  <2>3. (4096 * q + t) % 4096 = t % 4096 /\ (4096 * q + t) \div 4096 = q + (t \div 4096)
    BY <2>1, SMT
  <2>4. QED
    BY <2>1, <2>2, <2>3 DEF t, q
<1>7. (((((h + c) % 1048576) + (g % 1048576)) % 1048576) + d) % 1048576 = (h + c + g + d) % 1048576
  BY <1>1, <1>4, SMT
<1>8. Plus12([hi |-> (HiPart(Word32(o)) + Word32(a).hi) % 1048576, lo |-> Word32(a).lo], e)
      = [hi |-> (((((h + c) % 1048576) + (g % 1048576)) % 1048576) + d) % 1048576,
         lo |-> (m + e) % 4096]
  BY <1>2, <1>5 DEF Plus12, d
<1>9. QED
  BY <1>2, <1>3, <1>6, <1>7, <1>8 DEF e

(***************************************************************************)
(* What the words in the file do.                                          *)
(***************************************************************************)
LEMMA ResolveOne ==
  ASSUME NEW tok, NEW st, NEW n \in _resolve(tok, st)
  PROVE  (CHOOSE x \in _resolve(tok, st) : TRUE) = n
<1>1. \A x \in _resolve(tok, st) : x = n
  BY DEF _resolve, parse_int, AsmError
<1>2. QED
  BY <1>1

LEMMA UpperOpcode ==
  ASSUME NEW rd, NEW n
  PROVE  /\ u_type(OPC.LUI, rd, n).opcode = OPC.LUI
         /\ u_type(OPC.AUIPC, rd, n).opcode = OPC.AUIPC
         /\ OPC.LUI # OPC.AUIPC
BY SMT DEF u_type, OPC

LEMMA AddiOpcode ==
  ASSUME NEW rd, NEW f3, NEW rs1, NEW n
  PROVE  i_type(OPC.IMM, rd, f3, rs1, n).opcode \notin {OPC.LUI, OPC.AUIPC}
BY SMT DEF i_type, OPC

(* The fields of the words that build a value in rd.                       *)
LEMMA FiveBits ==
  ASSUME NEW rd \in 0 .. 31
  PROVE  rd % 32 = rd /\ ((rd \div 2) % 16) * 2 + (rd % 2) = rd
BY SMT

LEMMA OpcodeBits ==
  ASSUME NEW op \in {OPC.IMM, OPC.JALR, OPC.LUI, OPC.AUIPC}
  PROVE  op % 128 = op
BY SMT DEF OPC

LEMMA BuildsShort ==
  ASSUME NEW a, NEW rd \in 0 .. 31, NEW n,
         Insn(a) = i_type(OPC.IMM, rd, 0, 0, n), Insn(a + 4) = Nop
  PROVE  BuildsIn(a, rd, OPC.IMM)
<1> DEFINE w == Insn(a)
<1>1. /\ rd_of(w) = ((rd \div 2) % 16) * 2 + (rd % 2) /\ rs1_of(w) = 0 % 32
      /\ funct3_of(w) = 0 % 8 /\ w.opcode = OPC.IMM % 128
  BY SMT DEF rd_of, rs1_of, funct3_of, i_type
<1>2. 0 % 32 = 0 /\ 0 % 8 = 0
  BY SMT
<1>3. OPC.IMM % 128 = OPC.IMM
  BY OpcodeBits
<1> HIDE DEF w
<1>4. w.opcode = OPC.IMM /\ funct3_of(w) = 0 /\ rd_of(w) = rd /\ rs1_of(w) = 0
  BY <1>1, <1>2, <1>3, FiveBits, Zenon
<1>5. QED
  BY <1>4, Zenon DEF BuildsIn, w

LEMMA BuildsLong ==
  ASSUME NEW a, NEW rd \in 0 .. 31, NEW upper \in {OPC.LUI, OPC.AUIPC},
         NEW op \in {OPC.IMM, OPC.JALR}, NEW n, NEW m,
         Insn(a) = u_type(upper, rd, n), Insn(a + 4) = i_type(op, rd, 0, rd, m)
  PROVE  BuildsIn(a, rd, op)
<1> DEFINE w == Insn(a)
           x == Insn(a + 4)
<1>1. rd_of(w) = ((rd \div 2) % 16) * 2 + (rd % 2) /\ w.opcode = upper % 128
  BY SMT DEF rd_of, u_type
<1>2. /\ rd_of(x) = ((rd \div 2) % 16) * 2 + (rd % 2) /\ rs1_of(x) = rd % 32
      /\ funct3_of(x) = 0 % 8 /\ x.opcode = op % 128
  BY SMT DEF rd_of, rs1_of, funct3_of, i_type
<1>3. 0 % 8 = 0 /\ upper % 128 = upper /\ op % 128 = op
  BY OpcodeBits
<1> HIDE DEF w, x
<1>4. w.opcode \in {OPC.LUI, OPC.AUIPC} /\ rd_of(w) = rd
  BY <1>1, <1>3, FiveBits, Zenon
<1>5. x.opcode = op /\ funct3_of(x) = 0 /\ rd_of(x) = rd /\ rs1_of(x) = rd
  BY <1>2, <1>3, FiveBits, Zenon
<1>6. QED
  BY <1>4, <1>5, Zenon DEF BuildsIn, w, x

LEMMA AddIsZero == F3Op.ADD_SUB = 0
BY DEF F3Op

(* li in one instruction and a NOP, or in two.                             *)
LEMMA ShortLi ==
  ASSUME NEW a \in Nat, NEW n \in Int, FitsSigned(n, 2048), NEW rd, NEW f3, NEW rs1,
         Insn(a) = i_type(OPC.IMM, rd, f3, rs1, n % 4096), Insn(a + 4) = Nop
  PROVE  PairValue(a) = Word32(n)
<1>1. n % 4096 = fit_signed(n, 2048)
  BY SMT DEF fit_signed
<1>2. imm_i(Insn(a)) = n
  BY <1>1, RoundTripI, SMT
<1>3. Insn(a).opcode \notin {OPC.LUI, OPC.AUIPC}
  BY AddiOpcode, SMT
<1> DEFINE p == Word32(n)
<1>4. p \in Pair
  BY WordPair
<1>5. PairValue(a) = Plus12(p, imm_i(Insn(a + 4)))
  <2>1. p = Word32(imm_i(Insn(a)))
    BY <1>2
  <2> HIDE DEF p
  <2>2. QED
    BY <1>3, <1>4, <2>1, PairAddi
<1> HIDE DEF p
<1>6. QED
  BY <1>4, <1>5, NopImm, PlusZero, SMT DEF p

LEMMA LongLi ==
  ASSUME NEW a \in Nat, NEW n \in Int, NEW rd,
         Insn(a) = u_type(OPC.LUI, rd, HiPart(Word32(n))),
         Insn(a + 4) = i_type(OPC.IMM, rd, F3Op.ADD_SUB, rd, LoPart(Word32(n)))
  PROVE  PairValue(a) = Word32(n)
<1> DEFINE p == Word32(n)
           q == [hi |-> HiPart(p), lo |-> 0]
<1>1. p \in Pair
  BY WordPair
<1> HIDE DEF p
<1>2. /\ HiPart(p) \in Int /\ 0 <= HiPart(p) /\ HiPart(p) < 1048576
      /\ Plus12(q, Sext(LoPart(p), 2048)) = p
  BY <1>1, CutAndAdd
<1>3. LoPart(p) \in Int /\ 0 <= LoPart(p) /\ LoPart(p) < 4096
  BY <1>1, PairParts DEF LoPart
<1>4. imm_i(Insn(a + 4)) = Sext(LoPart(p), 2048)
  BY <1>3, ImmLow DEF p
<1>5. imm_u(Insn(a)) = q /\ q \in Pair
  BY <1>2, RoundTripU DEF Pair, p
<1>6. Insn(a).opcode = OPC.LUI
  BY UpperOpcode, SMT
<1> HIDE DEF q
<1>7. PairValue(a) = Plus12(q, imm_i(Insn(a + 4)))
  BY <1>5, <1>6, PairLui
<1>8. QED
  BY <1>2, <1>4, <1>7 DEF p

LEMMA LiLoads ==
  ASSUME AsmInv, ContentInv, SectionsApart, Written, NEW i \in DOMAIN lines,
         lines[i].op = "li"
  PROVE  Holds32(lines[i], TargetOf(lines[i]))
<1> DEFINE l == lines[i]
<1>1. LineOK(l) /\ SymsOK(syms) /\ l.pc \in Nat
  BY LinesFacts DEF AsmInv, StageInv, AsmTypeOK, SymsOK, Line
<1>2. l.op \notin {None, ".text", ".data", ".align", ".word", ".byte"}
  BY NoneAssumption
<1>3. PICK out \in encode_line(l, syms) :
        /\ Insn(l.pc) = out[1]
        /\ TwoWords(out) => Insn(l.pc + 4) = out[2]
  BY <1>2, WordsBack
<1> HIDE DEF l
<1>4. out \in EncodeLi(l, syms)
  BY <1>3 DEF encode_line, _R_TABLE, _I_ALU_TABLE, _LOAD_TABLE, _STORE_TABLE,
              _BRANCH_TABLE, Shifts, Fixed, l
<1>5. Insn(l.pc + 4) = out[2]
  BY <1>1, <1>3, <1>4, EncodeTwo
<1>6. Len(l.args) = 2
  BY <1>4, SMT DEF EncodeLi, AsmError, _expect_args
<1> DEFINE short(rd, n) == <<i_type(OPC.IMM, rd, F3Op.ADD_SUB, 0, n % 4096), Nop>>
           long(rd, n) == <<u_type(OPC.LUI, rd, HiPart(Word32(n))),
                            i_type(OPC.IMM, rd, F3Op.ADD_SUB, rd, LoPart(Word32(n)))>>
<1>7. PICK rd \in parse_reg(l.args[1]), n \in _resolve(l.args[2], syms) :
        out = IF FitsSigned(n, 2048) THEN short(rd, n) ELSE long(rd, n)
  BY <1>4, <1>6, SMT DEF EncodeLi, _expect_args
<1>8. n \in Int
  BY <1>1, <1>6, <1>7, ArgType, ResolveType, SMT
<1>9. TargetOf(l) = n
  BY <1>6, <1>7, ResolveOne DEF TargetOf, LastArg
<1>10. rd \in 0 .. 31
  BY <1>7, RegType
<1>11. PairValue(l.pc) = Word32(n) /\ BuildsIn(l.pc, rd, OPC.IMM)
  <2>1. CASE FitsSigned(n, 2048)
    <3>1. out = short(rd, n)
      BY <1>7, <2>1
    <3>2. /\ Insn(l.pc) = i_type(OPC.IMM, rd, 0, 0, n % 4096)
          /\ Insn(l.pc + 4) = Nop
      BY <1>3, <1>5, <3>1, AddIsZero
    <3>3. PairValue(l.pc) = Word32(n)
      BY <1>1, <1>8, <2>1, <3>2, ShortLi, SMT
    <3>4. BuildsIn(l.pc, rd, OPC.IMM)
      BY <1>10, <3>2, BuildsShort
    <3>5. QED
      BY <3>3, <3>4
  <2>2. CASE ~FitsSigned(n, 2048)
    <3>1. out = long(rd, n)
      BY <1>7, <2>2
    <3>2. /\ Insn(l.pc) = u_type(OPC.LUI, rd, HiPart(Word32(n)))
          /\ Insn(l.pc + 4) = i_type(OPC.IMM, rd, F3Op.ADD_SUB, rd, LoPart(Word32(n)))
      BY <1>3, <1>5, <3>1
    <3>3. PairValue(l.pc) = Word32(n)
      BY <1>1, <1>8, <3>2, LongLi, SMT
    <3>4. BuildsIn(l.pc, rd, OPC.IMM)
      BY <1>10, <3>2, AddIsZero, BuildsLong
    <3>5. QED
      BY <3>3, <3>4
  <2>3. QED
    BY <2>1, <2>2
<1>12. QED
  BY <1>7, <1>9, <1>11 DEF Holds32, l

(* AUIPC and the lower part, as la and call lay them out.                  *)
LEMMA OnPcIs ==
  ASSUME NEW n, NEW a
  PROVE  OnPc([hi |-> n, lo |-> 0], a)
         = [hi |-> (n + Word32(a).hi) % 1048576, lo |-> Word32(a).lo]
BY SMT DEF OnPc

LEMMA PcPair ==
  ASSUME NEW a \in Nat, NEW t \in Int, NEW o \in Int, o + a = t, NEW rd \in 0 .. 31,
         NEW op, NEW f3,
         Insn(a) = u_type(OPC.AUIPC, rd, HiPart(Word32(o))),
         Insn(a + 4) = i_type(op, rd, f3, rd, LoPart(Word32(o)))
  PROVE  PairValue(a) = Word32(t)
<1> DEFINE p == Word32(o)
           q == OnPc([hi |-> HiPart(p), lo |-> 0], a)
<1>1. p \in Pair /\ Word32(a) \in Pair
  BY WordPair, SMT
<1>2. Plus12([hi |-> (HiPart(p) + Word32(a).hi) % 1048576, lo |-> Word32(a).lo],
             Sext(LoPart(p), 2048)) = Word32(t)
  BY PcSum, SMT
<1>3. q = [hi |-> (HiPart(p) + Word32(a).hi) % 1048576, lo |-> Word32(a).lo]
  BY OnPcIs, SMT
<1> HIDE DEF p, q
<1>4. /\ HiPart(p) \in Int /\ 0 <= HiPart(p) /\ HiPart(p) < 1048576
      /\ Plus12([hi |-> HiPart(p), lo |-> 0], Sext(LoPart(p), 2048)) = p
  BY <1>1, CutAndAdd, SMT
<1>5. LoPart(p) \in Int /\ 0 <= LoPart(p) /\ LoPart(p) < 4096
  BY <1>1, PairParts, SMT DEF LoPart
<1>6. imm_i(Insn(a + 4)) = Sext(LoPart(p), 2048)
  BY <1>5, ImmLow, SMT DEF p
<1>7. imm_u(Insn(a)) = [hi |-> HiPart(p), lo |-> 0]
  BY <1>4, RoundTripU, SMT DEF p
<1>8. q \in Pair
  <2>1. Word32(a).hi \in Int /\ Word32(a).lo \in Nat /\ Word32(a).lo < 4096
    BY <1>1, PairParts, SMT
  <2>2. (HiPart(p) + Word32(a).hi) % 1048576 \in Nat /\ (HiPart(p) + Word32(a).hi) % 1048576 < 1048576
    BY <1>4, <2>1, SMT
  <2>3. QED
    BY <1>3, <2>1, <2>2, SMT DEF Pair
<1>9. Insn(a).opcode = OPC.AUIPC
  BY UpperOpcode, SMT
<1>10. q = OnPc(imm_u(Insn(a)), a)
  BY <1>7, SMT DEF q
<1>11. PairValue(a) = Plus12(q, imm_i(Insn(a + 4)))
  <2>1. QED
    BY <1>8, <1>9, <1>10, PairAuipc
<1>12. PairValue(a) = Word32(t)
  <2>1. QED
    BY <1>2, <1>3, <1>6, <1>11, SMT
<1>13. QED
  BY <1>12

LEMMA OffsetBack ==
  ASSUME NEW l, NEW tok, NEW st, NEW half,
         NEW n \in AnyOffset(l, tok, st, half) \cup EvenOffset(l, tok, st, half)
  PROVE  \E t \in _resolve(tok, st) :
           FitsSigned(t - l.pc, half) /\ n = fit_signed(t - l.pc, half)
<1>1. PICK t \in _resolve(tok, st) : n \in FitSigned(t - l.pc, half)
  BY SMT DEF AnyOffset, EvenOffset
<1>2. QED
  BY <1>1, SMT DEF FitSigned, AsmError

(* The operand of a jump or branch and the word packed for it.             *)
LEMMA JumpBack ==
  ASSUME NEW l, LineOK(l), l.op \in Jumps, NEW st, SymsOK(st), NEW out \in encode_line(l, st)
  PROVE  \E t \in _resolve(LastArg(l), st), rd \in Int :
           /\ t \in Int /\ FitsSigned(t - l.pc, 1048576)
           /\ out = <<j_type(OPC.JAL, rd, fit_signed(t - l.pc, 1048576))>>
<1>1. out \in EncodeJal(l, st) \/ out \in EncodeJ(l, st)
  BY SMT DEF Jumps, encode_line, _R_TABLE, _I_ALU_TABLE, _LOAD_TABLE, _STORE_TABLE,
         _BRANCH_TABLE, Shifts, Fixed
<1>2. Len(l.args) \in {1, 2}
  BY <1>1, ArgType, SMT DEF EncodeJal, EncodeJ, AsmError, _expect_args
<1>3. LastArg(l) = l.args[Len(l.args)] /\ _resolve(LastArg(l), st) \subseteq Int
  <2>1. LastArg(l) \in Token
    BY <1>2, ArgType, SMT DEF LastArg
  <2>2. QED
    BY <2>1, ResolveType DEF LastArg
<1>4. \E rd \in 0 .. 31, n \in AnyOffset(l, LastArg(l), st, 1048576)
                                 \cup EvenOffset(l, LastArg(l), st, 1048576) :
        out = <<j_type(OPC.JAL, rd, n)>>
  <2>1. CASE out \in EncodeJ(l, st)
    BY <1>3, <2>1, SMT DEF EncodeJ, AsmError, _expect_args
  <2>2. CASE out \in EncodeJal(l, st)
    <3>1. CASE Len(l.args) = 1
      BY <1>3, <2>2, <3>1, SMT DEF EncodeJal
    <3>2. CASE Len(l.args) = 2
      <4>1. PICK rd \in parse_reg(l.args[1]), n \in EvenOffset(l, l.args[2], st, 1048576) :
              out = <<j_type(OPC.JAL, rd, n)>>
        BY <2>2, <3>2, SMT DEF EncodeJal
      <4>2. rd \in 0 .. 31
        BY <4>1, RegType, SMT
      <4>3. QED
        BY <1>3, <3>2, <4>1, <4>2, SMT
    <3>3. QED
      BY <1>2, <3>1, <3>2, SMT
  <2>3. QED
    BY <1>1, <2>1, <2>2, SMT
<1>5. PICK rd \in 0 .. 31, n \in AnyOffset(l, LastArg(l), st, 1048576)
                                   \cup EvenOffset(l, LastArg(l), st, 1048576) :
        out = <<j_type(OPC.JAL, rd, n)>>
  BY <1>4
<1>6. PICK t \in _resolve(LastArg(l), st) :
        FitsSigned(t - l.pc, 1048576) /\ n = fit_signed(t - l.pc, 1048576)
  BY <1>5, OffsetBack, SMT
<1>7. rd \in Int
  BY <1>5
<1>8. QED
  BY <1>3, <1>5, <1>6, <1>7, SMT

LEMMA BranchBack ==
  ASSUME NEW l, LineOK(l), l.op \in Branches, NEW st, SymsOK(st), NEW out \in encode_line(l, st)
  PROVE  \E t \in _resolve(LastArg(l), st), f3, rs1, rs2 \in Int :
           /\ t \in Int /\ FitsSigned(t - l.pc, 4096)
           /\ out = <<b_type(OPC.BRANCH, f3, rs1, rs2, fit_signed(t - l.pc, 4096))>>
<1>1. \/ l.op \in DOMAIN _BRANCH_TABLE /\ out \in EncodeBranch(l, st)
      \/ out \in EncodeBranchZero(l, st)
  BY SMT DEF Branches, encode_line, _R_TABLE, _I_ALU_TABLE, _LOAD_TABLE, _STORE_TABLE,
         _BRANCH_TABLE, Shifts, Fixed
<1>2. Len(l.args) \in {2, 3}
  BY <1>1, ArgType, SMT DEF EncodeBranch, EncodeBranchZero, AsmError, _expect_args
<1>3. LastArg(l) = l.args[Len(l.args)] /\ _resolve(LastArg(l), st) \subseteq Int
  <2>1. LastArg(l) \in Token
    BY <1>2, ArgType, SMTT(20) DEF LastArg
  <2>2. QED
    BY <2>1, ResolveType DEF LastArg
<1>4. \E f3, rs1, rs2 \in Int : \E n \in AnyOffset(l, LastArg(l), st, 4096)
                                         \cup EvenOffset(l, LastArg(l), st, 4096) :
        out = <<b_type(OPC.BRANCH, f3, rs1, rs2, n)>>
  <2>1. CASE l.op \in DOMAIN _BRANCH_TABLE /\ out \in EncodeBranch(l, st)
    <3>1. Len(l.args) = 3
      BY <2>1, SMT DEF EncodeBranch, AsmError, _expect_args
    <3>2. PICK rs1 \in parse_reg(l.args[1]), rs2 \in parse_reg(l.args[2]),
               n \in EvenOffset(l, l.args[3], st, 4096) :
            out = <<b_type(OPC.BRANCH, _BRANCH_TABLE[l.op], rs1, rs2, n)>>
      BY <2>1, <3>1, SMT DEF EncodeBranch, _expect_args
    <3>3. _BRANCH_TABLE[l.op] \in Int
      BY <2>1, TableTypes, SMT
    <3>4. rs1 \in Int /\ rs2 \in Int
      BY <3>2, RegType, SMT
    <3>5. QED
      BY <1>3, <3>1, <3>2, <3>3, <3>4, SMT
  <2>2. CASE out \in EncodeBranchZero(l, st)
    <3>1. Len(l.args) = 2
      BY <2>2, SMT DEF EncodeBranchZero, AsmError, _expect_args
    <3>2. PICK rs1 \in parse_reg(l.args[1]), n \in AnyOffset(l, l.args[2], st, 4096) :
            \E f3 \in {F3Branch.BEQ, F3Branch.BNE} : out = <<b_type(OPC.BRANCH, f3, rs1, 0, n)>>
      BY <2>2, <3>1, SMT DEF EncodeBranchZero, _expect_args
    <3>3. rs1 \in Int
      BY <3>2, RegType, SMT
    <3>4. QED
      BY <1>3, <3>1, <3>2, <3>3, OpcType, SMT
  <2>3. QED
    BY <1>1, <2>1, <2>2, SMT
<1>5. PICK f3 \in Int, rs1 \in Int, rs2 \in Int,
           n \in AnyOffset(l, LastArg(l), st, 4096) \cup EvenOffset(l, LastArg(l), st, 4096) :
        out = <<b_type(OPC.BRANCH, f3, rs1, rs2, n)>>
  BY <1>4, SMT
<1>6. PICK t \in _resolve(LastArg(l), st) :
        FitsSigned(t - l.pc, 4096) /\ n = fit_signed(t - l.pc, 4096)
  BY <1>5, OffsetBack, SMT
<1>7. QED
  BY <1>3, <1>5, <1>6, SMT

LEMMA JumpReaches ==
  ASSUME AsmInv, ContentInv, SectionsApart, Written, NEW i \in DOMAIN lines,
         lines[i].op \in Jumps, (TargetOf(lines[i]) - lines[i].pc) % 2 = 0
  PROVE  lines[i].pc + imm_j(Insn(lines[i].pc)) = TargetOf(lines[i])
<1> DEFINE l == lines[i]
<1>1. LineOK(l) /\ SymsOK(syms) /\ l.pc \in Nat
  BY LinesFacts DEF AsmInv, StageInv, AsmTypeOK, SymsOK, Line
<1>2. l.op \notin {None, ".text", ".data", ".align", ".word", ".byte"}
  BY NoneAssumption DEF Jumps
<1>3. PICK out \in encode_line(l, syms) : Insn(l.pc) = out[1]
  BY <1>2, WordsBack
<1> HIDE DEF l
<1>4. PICK t \in _resolve(LastArg(l), syms), rd \in Int :
        /\ t \in Int /\ FitsSigned(t - l.pc, 1048576)
        /\ out = <<j_type(OPC.JAL, rd, fit_signed(t - l.pc, 1048576))>>
  BY <1>1, <1>3, JumpBack, SMT DEF l
<1>5. TargetOf(l) = t
  BY <1>4, ResolveOne, SMT DEF TargetOf
<1> DEFINE n == t - l.pc
<1>6. n \in Int /\ n % 2 = 0
  BY <1>1, <1>4, <1>5, SMT DEF l
<1>7. imm_j(Insn(l.pc)) = n - (n % 2)
  <2>1. Insn(l.pc) = j_type(OPC.JAL, rd, fit_signed(n, 1048576)) /\ FitsSigned(n, 1048576)
    BY <1>3, <1>4, SMT
  <2> HIDE DEF n
  <2>2. QED
    BY <1>6, <2>1, RoundTripJ, SMT
<1>8. l.pc + imm_j(Insn(l.pc)) = TargetOf(l)
  BY <1>1, <1>4, <1>5, <1>6, <1>7, SMT
<1>9. QED
  BY <1>8 DEF l

LEMMA BranchReaches ==
  ASSUME AsmInv, ContentInv, SectionsApart, Written, NEW i \in DOMAIN lines,
         lines[i].op \in Branches, (TargetOf(lines[i]) - lines[i].pc) % 2 = 0
  PROVE  lines[i].pc + imm_b(Insn(lines[i].pc)) = TargetOf(lines[i])
<1> DEFINE l == lines[i]
<1>1. LineOK(l) /\ SymsOK(syms) /\ l.pc \in Nat
  BY LinesFacts DEF AsmInv, StageInv, AsmTypeOK, SymsOK, Line
<1>2. l.op \notin {None, ".text", ".data", ".align", ".word", ".byte"}
  BY NoneAssumption DEF Branches, _BRANCH_TABLE
<1>3. PICK out \in encode_line(l, syms) : Insn(l.pc) = out[1]
  BY <1>2, WordsBack
<1> HIDE DEF l
<1>4. PICK t \in _resolve(LastArg(l), syms), f3 \in Int, rs1 \in Int, rs2 \in Int :
        /\ t \in Int /\ FitsSigned(t - l.pc, 4096)
        /\ out = <<b_type(OPC.BRANCH, f3, rs1, rs2, fit_signed(t - l.pc, 4096))>>
  BY <1>1, <1>3, BranchBack, SMT DEF l
<1>5. TargetOf(l) = t
  BY <1>4, ResolveOne, SMT DEF TargetOf
<1> DEFINE n == t - l.pc
<1>6. n \in Int /\ n % 2 = 0
  BY <1>1, <1>4, <1>5, SMT DEF l
<1>7. imm_b(Insn(l.pc)) = n - (n % 2)
  <2>1. Insn(l.pc) = b_type(OPC.BRANCH, f3, rs1, rs2, fit_signed(n, 4096)) /\ FitsSigned(n, 4096)
    BY <1>3, <1>4, SMT
  <2> HIDE DEF n
  <2>2. QED
    BY <1>6, <2>1, RoundTripB, SMT
<1>8. l.pc + imm_b(Insn(l.pc)) = TargetOf(l)
  BY <1>1, <1>4, <1>5, <1>6, <1>7, SMT
<1>9. QED
  BY <1>8 DEF l

(* The two words of la, which leave its operand in its register.           *)
LEMMA LaReaches ==
  ASSUME AsmInv, ContentInv, SectionsApart, Written, NEW i \in DOMAIN lines,
         lines[i].op = "la"
  PROVE  Holds32(lines[i], TargetOf(lines[i]))
<1> DEFINE l == lines[i]
<1>1. LineOK(l) /\ SymsOK(syms) /\ l.pc \in Nat
  BY LinesFacts DEF AsmInv, StageInv, AsmTypeOK, SymsOK, Line
<1>2. l.op \notin {None, ".text", ".data", ".align", ".word", ".byte"}
  BY NoneAssumption DEF _TWO_INSN_PSEUDOS
<1>3. PICK out \in encode_line(l, syms) :
        /\ Insn(l.pc) = out[1]
        /\ TwoWords(out) => Insn(l.pc + 4) = out[2]
  BY <1>2, WordsBack
<1> HIDE DEF l
<1>4. out \in EncodeLa(l, syms)
  BY <1>3, SMT DEF encode_line, _R_TABLE, _I_ALU_TABLE, _LOAD_TABLE, _STORE_TABLE,
              _BRANCH_TABLE, Shifts, Fixed, l
<1>5. Insn(l.pc + 4) = out[2]
  BY <1>1, <1>3, <1>4, EncodeTwo
<1>6. Len(l.args) = 2
  BY <1>4, SMT DEF EncodeLa, AsmError, _expect_args
<1>7. PICK rd \in parse_reg(l.args[1]), t \in _resolve(l.args[2], syms) :
        out = <<u_type(OPC.AUIPC, rd, HiPart(Word32(t - l.pc))),
                i_type(OPC.IMM, rd, F3Op.ADD_SUB, rd, LoPart(Word32(t - l.pc)))>>
  BY <1>4, <1>6, SMT DEF EncodeLa, _expect_args
<1>8. rd \in 0 .. 31 /\ TargetOf(l) = t
  BY <1>6, <1>7, RegType, ResolveOne DEF TargetOf, LastArg
<1>9. t \in Int
  BY <1>1, <1>6, <1>7, ArgType, ResolveType, SMT
<1> DEFINE o == t - l.pc
<1>10. o \in Int /\ o + l.pc = t
  BY <1>1, <1>9
<1>11. /\ Insn(l.pc) = u_type(OPC.AUIPC, rd, HiPart(Word32(o)))
       /\ Insn(l.pc + 4) = i_type(OPC.IMM, rd, 0, rd, LoPart(Word32(o)))
  BY <1>3, <1>5, <1>7, AddIsZero
<1> HIDE DEF o
<1>12. PairValue(l.pc) = Word32(t)
  BY <1>1, <1>8, <1>9, <1>10, <1>11, PcPair
<1>13. BuildsIn(l.pc, rd, OPC.IMM)
  BY <1>8, <1>11, BuildsLong
<1>14. QED
  BY <1>7, <1>8, <1>12, <1>13 DEF Holds32, l

(* The two words of call, whose JALR loses bit 0 of the sum.               *)
LEMMA JalrEven ==
  ASSUME NEW t \in Int, t % 2 = 0
  PROVE  JalrTarget(Word32(t)) = Word32(t)
<1>1. (t % 4096) % 2 = 0
  BY SMT
<1>2. Word32(t) = [hi |-> (t \div 4096) % 1048576, lo |-> t % 4096]
  BY DEF Word32
<1>3. JalrTarget(Word32(t)) = [Word32(t) EXCEPT !.lo = (t % 4096) - ((t % 4096) % 2)]
  BY <1>2 DEF JalrTarget
<1>4. QED
  BY <1>1, <1>2, <1>3, SMT

LEMMA CallReaches ==
  ASSUME AsmInv, ContentInv, SectionsApart, Written, NEW i \in DOMAIN lines,
         lines[i].op = "call", TargetOf(lines[i]) % 2 = 0
  PROVE  /\ JalrTarget(PairValue(lines[i].pc)) = Word32(TargetOf(lines[i]))
         /\ BuildsIn(lines[i].pc, 1, OPC.JALR)
<1> DEFINE l == lines[i]
<1>1. LineOK(l) /\ SymsOK(syms) /\ l.pc \in Nat
  BY LinesFacts DEF AsmInv, StageInv, AsmTypeOK, SymsOK, Line
<1>2. l.op \notin {None, ".text", ".data", ".align", ".word", ".byte"}
  BY NoneAssumption DEF _TWO_INSN_PSEUDOS
<1>3. PICK out \in encode_line(l, syms) :
        /\ Insn(l.pc) = out[1]
        /\ TwoWords(out) => Insn(l.pc + 4) = out[2]
  BY <1>2, WordsBack
<1> HIDE DEF l
<1>4. out \in EncodeCall(l, syms)
  BY <1>3, SMT DEF encode_line, _R_TABLE, _I_ALU_TABLE, _LOAD_TABLE, _STORE_TABLE,
              _BRANCH_TABLE, Shifts, Fixed, l
<1>5. Insn(l.pc + 4) = out[2]
  BY <1>1, <1>3, <1>4, EncodeTwo
<1>6. Len(l.args) = 1
  BY <1>4, SMT DEF EncodeCall, AsmError, _expect_args
<1>7. PICK t \in _resolve(l.args[1], syms) :
        out = <<u_type(OPC.AUIPC, 1, HiPart(Word32(t - l.pc))),
                i_type(OPC.JALR, 1, 0, 1, LoPart(Word32(t - l.pc)))>>
  BY <1>4, <1>6, SMT DEF EncodeCall, _expect_args
<1>8. 1 \in 0 .. 31 /\ TargetOf(l) = t
  BY <1>6, <1>7, ResolveOne DEF TargetOf, LastArg
<1>9. t \in Int /\ t % 2 = 0
  BY <1>1, <1>6, <1>7, <1>8, ArgType, ResolveType, SMT DEF l
<1> DEFINE o == t - l.pc
<1>10. o \in Int /\ o + l.pc = t
  BY <1>1, <1>9
<1>11. /\ Insn(l.pc) = u_type(OPC.AUIPC, 1, HiPart(Word32(o)))
       /\ Insn(l.pc + 4) = i_type(OPC.JALR, 1, 0, 1, LoPart(Word32(o)))
  BY <1>3, <1>5, <1>7
<1> HIDE DEF o
<1>12. PairValue(l.pc) = Word32(t)
  BY <1>1, <1>8, <1>9, <1>10, <1>11, PcPair
<1>13. BuildsIn(l.pc, 1, OPC.JALR)
  BY <1>8, <1>11, BuildsLong
<1>14. QED
  BY <1>8, <1>9, <1>12, <1>13, JalrEven DEF l

(* The bytes of a .word, read back.                                        *)
LEMMA DataReaches ==
  ASSUME AsmInv, ContentInv, SectionsApart, Written, NEW i \in DOMAIN lines,
         lines[i].op = ".word", NEW j \in DOMAIN lines[i].args, NEW b \in 1 .. 4
  PROVE  Loaded(lines[i].pc + 4 * (j - 1) + b - 1)
         = PairBytes(Word32(CHOOSE n \in _resolve(lines[i].args[j], syms) : TRUE))[b]
<1> DEFINE l == lines[i]
<1>1. i \in 1 .. k - 1 /\ LineOK(l) /\ SymsOK(syms) /\ l.pc \in Nat
  BY LinesFacts DEF AsmInv, StageInv, AsmTypeOK, SymsOK, Line
<1>2. PICK out \in encode_line(l, syms) :
        \A c \in 1 .. Reserved(l) : /\ l.pc + c - 1 \in DOMAIN image
                                    /\ image[l.pc + c - 1] = BytesOf(l.op, out)[c]
  BY <1>1, NoneAssumption DEF ContentInv, Placed, Holds
<1> HIDE DEF l
<1>3. out \in EncodeData(l, syms)
  BY <1>2, SMT DEF encode_line, _R_TABLE, _I_ALU_TABLE, _LOAD_TABLE, _STORE_TABLE,
                   _BRANCH_TABLE, Shifts, Fixed, l
<1>4. /\ DOMAIN l.args = 1 .. Len(l.args) /\ Len(l.args) \in Nat
      /\ out \in [1 .. Len(l.args) -> Pair]
      /\ out[j] = Word32(CHOOSE n \in _resolve(l.args[j], syms) : TRUE)
  BY <1>1, <1>3, DataType, ArgType DEF l
<1>5. Len(out) = Len(l.args)
  BY <1>4, FcnSeq
<1>6. BytesOf(l.op, out) = [c \in 1 .. 4 * Len(l.args) |->
                              PairBytes(out[((c - 1) \div 4) + 1])[((c - 1) % 4) + 1]]
  BY <1>5 DEF BytesOf, l
<1>7. Reserved(l) = 4 * Len(l.args)
  BY NoDirective DEF Reserved, l
<1> DEFINE c == 4 * (j - 1) + b
<1>8. /\ c \in 1 .. 4 * Len(l.args) /\ ((c - 1) \div 4) + 1 = j /\ ((c - 1) % 4) + 1 = b
      /\ l.pc + c - 1 = l.pc + 4 * (j - 1) + b - 1
  <2>1. j \in 1 .. Len(l.args) /\ b \in 1 .. 4
    BY <1>4 DEF l
  <2> DEFINE m == Len(l.args)
             at == l.pc
  <2>2. m \in Nat /\ at \in Nat /\ j \in 1 .. m
    BY <1>1, <1>4, <2>1
  <2> HIDE DEF m, at
  <2>3. /\ c \in 1 .. 4 * m /\ ((c - 1) \div 4) + 1 = j /\ ((c - 1) % 4) + 1 = b
        /\ at + c - 1 = at + 4 * (j - 1) + b - 1
    BY <2>1, <2>2, SMT
  <2>4. QED
    BY <2>3 DEF m, at
<1> HIDE DEF c
<1>9. /\ l.pc + c - 1 \in DOMAIN image /\ image[l.pc + c - 1] = BytesOf(l.op, out)[c]
  BY <1>2, <1>7, <1>8
<1>10. BytesOf(l.op, out)[c] = PairBytes(out[j])[b]
  BY <1>6, <1>8
<1>11. Loaded(l.pc + c - 1) = image[l.pc + c - 1]
  BY <1>9, LoadedIs
<1>12. Loaded(l.pc + 4 * (j - 1) + b - 1) = PairBytes(out[j])[b]
  BY <1>8, <1>9, <1>10, <1>11, Zenon
<1>13. QED
  BY <1>4, <1>12 DEF l

LEMMA LinesReach ==
  ASSUME AsmInv, ContentInv, Written => SectionsApart
  PROVE  ConstantsLoad /\ TargetsResolve
<1>1. ConstantsLoad
  BY LiLoads DEF ConstantsLoad
<1>2. ASSUME Written, NEW i \in DOMAIN lines, Expressible(lines[i])
      PROVE  Reaches(lines[i])
  <2> DEFINE l == lines[i]
  <2>1. /\ l.op \in Jumps => l.pc + imm_j(Insn(l.pc)) = TargetOf(l)
        /\ l.op \in Branches => l.pc + imm_b(Insn(l.pc)) = TargetOf(l)
    BY <1>2, JumpReaches, BranchReaches DEF Expressible
  <2>2. l.op = "la" => Holds32(l, TargetOf(l))
    BY <1>2, LaReaches
  <2>3. l.op = "call" => /\ JalrTarget(PairValue(l.pc)) = Word32(TargetOf(l))
                         /\ BuildsIn(l.pc, 1, OPC.JALR)
    BY <1>2, CallReaches DEF Expressible
  <2> HIDE DEF l
  <2>4. Reaches(l)
    BY <2>1, <2>2, <2>3, SMT DEF Reaches, Jumps, Branches, _BRANCH_TABLE
  <2>5. QED
    BY <2>4 DEF l
<1>3. TargetsResolve
  BY <1>2, DataReaches, SMT DEF TargetsResolve
<1>4. QED
  BY <1>1, <1>3

(***************************************************************************)
(* The whole file, when .data follows .text.                               *)
(***************************************************************************)
FileInv == AsmInv /\ OrderInv /\ LayoutInv /\ ContentInv

LEMMA FileInit == ASSUME Init PROVE FileInv
<1>1. ContentInv
  BY DEF Init, ContentInv, Placed, Written
<1>2. LayoutInv
  BY DEF Init, LayoutInv, Placed, Written
<1>3. QED
  BY <1>1, <1>2, AsmInitInv, OrderInit DEF FileInv

LEMMA FileNext == ASSUME DefaultLayout, FileInv, [Next]_vars PROVE FileInv'
BY AsmNextInv, OrderNext, LayoutNext, ContentNext DEF FileInv

LEMMA FileReads == ASSUME DefaultLayout, FileInv PROVE ConstantsLoad /\ TargetsResolve
BY LayoutApart, LinesReach DEF FileInv, Placed

(* With the default layout every li of every program that assembles leaves *)
(* its operand modulo 2^32 in the register it names, as the hex file reads *)
(* back.                                                                   *)
THEOREM EveryConstantLoads ==
  ASSUME DefaultLayout PROVE Spec => []ConstantsLoad
<1>1. Init => FileInv
  BY FileInit
<1>2. FileInv /\ [Next]_vars => FileInv'
  BY FileNext
<1>3. FileInv => ConstantsLoad
  BY FileReads
<1>4. QED
  BY <1>1, <1>2, <1>3, PTL DEF Spec

(* With the default layout, in every program that assembles, branches,     *)
(* jumps and calls reach every target that their instruction can express   *)
(* (even offsets, and even addresses for call); la leaves every address,   *)
(* odd or even, in the register it names, and .word holds it.              *)
THEOREM EveryTargetIsReached ==
  ASSUME DefaultLayout PROVE Spec => []TargetsResolve
<1>1. Init => FileInv
  BY FileInit
<1>2. FileInv /\ [Next]_vars => FileInv'
  BY FileNext
<1>3. FileInv => TargetsResolve
  BY FileReads
<1>4. QED
  BY <1>1, <1>2, <1>3, PTL DEF Spec
=============================================================================
