----------------------------- MODULE AsmTables ------------------------------
(***************************************************************************)
(* tools/assembler/assemble.py, the part without state: operand tokens,    *)
(* the mnemonic tables, the size and the encoding of one line.             *)
(*                                                                         *)
(* A line is what tokenize() makes of it: an optional label, an optional   *)
(* op and a sequence of argument tokens.  A token is a name (it starts as  *)
(* a symbol does), an integer literal with its value, or neither.  A       *)
(* parser or encoder returns the set of its result, and AsmError, the      *)
(* empty set, where the code raises.                                       *)
(***************************************************************************)
EXTENDS Encoding, Sequences, SequencesExt

CONSTANT None         \* no label, no op, no pinned data_base

Name(n) == [t |-> "name", n |-> n, v |-> 0]
Num(v)  == [t |-> "int", n |-> "", v |-> v]
Junk    == [t |-> "junk", n |-> "", v |-> 0]

AsmError == {}

(* The names of registers; x0 to x31 stand for the pattern x[0-9]+.        *)
_REG_ALIASES ==
  [zero |-> 0, ra |-> 1, sp |-> 2, gp |-> 3, tp |-> 4, t0 |-> 5, t1 |-> 6,
   t2 |-> 7, s0 |-> 8, fp |-> 8, s1 |-> 9, a0 |-> 10, a1 |-> 11, a2 |-> 12,
   a3 |-> 13, a4 |-> 14, a5 |-> 15, a6 |-> 16, a7 |-> 17, s2 |-> 18,
   s3 |-> 19, s4 |-> 20, s5 |-> 21, s6 |-> 22, s7 |-> 23, s8 |-> 24,
   s9 |-> 25, s10 |-> 26, s11 |-> 27, t3 |-> 28, t4 |-> 29, t5 |-> 30,
   t6 |-> 31]

XNames == [i \in 0 .. 31 |->
             <<"x0", "x1", "x2", "x3", "x4", "x5", "x6", "x7", "x8", "x9",
               "x10", "x11", "x12", "x13", "x14", "x15", "x16", "x17", "x18",
               "x19", "x20", "x21", "x22", "x23", "x24", "x25", "x26", "x27",
               "x28", "x29", "x30", "x31">>[i + 1]]

parse_reg(tok) ==
  IF tok.t # "name" THEN AsmError
  ELSE IF tok.n \in DOMAIN _REG_ALIASES THEN {_REG_ALIASES[tok.n]}
  ELSE {i \in DOMAIN XNames : XNames[i] = tok.n}

parse_int(tok) == IF tok.t = "int" THEN {tok.v} ELSE AsmError

(* A symbol where the token looks like one, a literal otherwise.           *)
_resolve(tok, syms) ==
  IF tok.t = "name"
  THEN IF tok.n \in DOMAIN syms THEN {syms[tok.n]} ELSE AsmError
  ELSE parse_int(tok)

(* The range checks, on a field of half = 2^(bits-1).                      *)
FitSigned(v, half)  == IF FitsSigned(v, half) THEN {fit_signed(v, half)} ELSE AsmError
fit_unsigned(v, lim) == IF 0 <= v /\ v < lim THEN {v} ELSE AsmError

-----------------------------------------------------------------------------
_R_TABLE ==
  [add  |-> <<F3Op.ADD_SUB, F7_DEFAULT>>, sub  |-> <<F3Op.ADD_SUB, F7_ALT>>,
   sll  |-> <<F3Op.SLL, F7_DEFAULT>>,     slt  |-> <<F3Op.SLT, F7_DEFAULT>>,
   sltu |-> <<F3Op.SLTU, F7_DEFAULT>>,    xor  |-> <<F3Op.XOR, F7_DEFAULT>>,
   srl  |-> <<F3Op.SR, F7_DEFAULT>>,      sra  |-> <<F3Op.SR, F7_ALT>>,
   or   |-> <<F3Op.OR, F7_DEFAULT>>,      and  |-> <<F3Op.AND, F7_DEFAULT>>]

_I_ALU_TABLE == [addi |-> F3Op.ADD_SUB, slti |-> F3Op.SLT, sltiu |-> F3Op.SLTU,
                 xori |-> F3Op.XOR, ori |-> F3Op.OR, andi |-> F3Op.AND]
_LOAD_TABLE  == [lb |-> F3Load.LB, lh |-> F3Load.LH, lw |-> F3Load.LW,
                 lbu |-> F3Load.LBU, lhu |-> F3Load.LHU]
_STORE_TABLE == [sb |-> F3Store.SB, sh |-> F3Store.SH, sw |-> F3Store.SW]
_BRANCH_TABLE == [beq |-> F3Branch.BEQ, bne |-> F3Branch.BNE,
                  blt |-> F3Branch.BLT, bge |-> F3Branch.BGE,
                  bltu |-> F3Branch.BLTU, bgeu |-> F3Branch.BGEU]
Shifts == {"slli", "srli", "srai"}

_TWO_INSN_PSEUDOS == {"la", "call"}

(* The mark for no op is no op.                                            *)
ASSUME NoneAssumption ==
  None \notin {".text", ".data", ".align", ".word", ".byte", "jal", "j", "beqz",
               "bnez", "li"} \cup DOMAIN _BRANCH_TABLE \cup _TWO_INSN_PSEUDOS

_instruction_size(op) == IF op \in _TWO_INSN_PSEUDOS \cup {"li"} THEN 8 ELSE 4

(* (x + boundary - 1) & ~(boundary - 1), boundary = 1 << n                 *)
AlignUp(x, n) == ((x + 2^n - 1) \div 2^n) * 2^n

-----------------------------------------------------------------------------
(***************************************************************************)
(* encode_line, one operator per family of mnemonics.  ln.pc is the        *)
(* address that pass1 gave the line.                                       *)
(***************************************************************************)
_expect_args(ln, n) == Len(ln.args) = n

EncodeAlu(ln) ==
  IF ~_expect_args(ln, 3) THEN AsmError
  ELSE {<<r_type(OPC.REG, rd, _R_TABLE[ln.op][1], rs1, rs2, _R_TABLE[ln.op][2])>> :
          rd \in parse_reg(ln.args[1]), rs1 \in parse_reg(ln.args[2]),
          rs2 \in parse_reg(ln.args[3])}

EncodeAluImm(ln, syms) ==
  IF ~_expect_args(ln, 3) THEN AsmError
  ELSE {<<i_type(OPC.IMM, rd, _I_ALU_TABLE[ln.op], rs1, imm12)>> :
          rd \in parse_reg(ln.args[1]), rs1 \in parse_reg(ln.args[2]),
          imm12 \in UNION {FitSigned(v, 2048) : v \in _resolve(ln.args[3], syms)}}

EncodeShift(ln, syms) ==
  LET f3 == IF ln.op = "slli" THEN F3Op.SLL ELSE F3Op.SR
      f7 == IF ln.op = "srai" THEN F7_ALT ELSE F7_DEFAULT
  IN  IF ~_expect_args(ln, 3) THEN AsmError
      ELSE {<<r_type(OPC.IMM, rd, f3, rs1, sh, f7)>> :
              rd \in parse_reg(ln.args[1]), rs1 \in parse_reg(ln.args[2]),
              sh \in UNION {fit_unsigned(v, 32) : v \in _resolve(ln.args[3], syms)}}

(* Loads and stores are written  op reg, imm(rs1).                         *)
EncodeLoad(ln, syms) ==
  IF ~_expect_args(ln, 3) THEN AsmError
  ELSE {<<i_type(OPC.LOAD, rd, _LOAD_TABLE[ln.op], rs1, imm12)>> :
          rd \in parse_reg(ln.args[1]), rs1 \in parse_reg(ln.args[3]),
          imm12 \in UNION {FitSigned(v, 2048) : v \in _resolve(ln.args[2], syms)}}

EncodeStore(ln, syms) ==
  IF ~_expect_args(ln, 3) THEN AsmError
  ELSE {<<s_type(OPC.STORE, _STORE_TABLE[ln.op], rs1, rs2, imm12)>> :
          rs2 \in parse_reg(ln.args[1]), rs1 \in parse_reg(ln.args[3]),
          imm12 \in UNION {FitSigned(v, 2048) : v \in _resolve(ln.args[2], syms)}}

(* The pattern of a pc-relative offset; branches and jal refuse odd ones,  *)
(* j, beqz and bnez do not look.                                           *)
AnyOffset(ln, tok, syms, half) ==
  UNION {FitSigned(target - ln.pc, half) : target \in _resolve(tok, syms)}
EvenOffset(ln, tok, syms, half) ==
  UNION {FitSigned(target - ln.pc, half) :
           target \in {x \in _resolve(tok, syms) : (x - ln.pc) % 2 = 0}}

EncodeBranch(ln, syms) ==
  IF ~_expect_args(ln, 3) THEN AsmError
  ELSE {<<b_type(OPC.BRANCH, _BRANCH_TABLE[ln.op], rs1, rs2, imm13)>> :
          rs1 \in parse_reg(ln.args[1]), rs2 \in parse_reg(ln.args[2]),
          imm13 \in EvenOffset(ln, ln.args[3], syms, 4096)}

EncodeJal(ln, syms) ==
  CASE Len(ln.args) = 1 ->
         {<<j_type(OPC.JAL, 1, imm21)>> :
            imm21 \in EvenOffset(ln, ln.args[1], syms, 1048576)}
    [] Len(ln.args) = 2 ->
         {<<j_type(OPC.JAL, rd, imm21)>> : rd \in parse_reg(ln.args[1]),
            imm21 \in EvenOffset(ln, ln.args[2], syms, 1048576)}
    [] OTHER -> AsmError

(* jalr rs1, jalr rd, rs1, imm or jalr rd, imm(rs1): the last two look     *)
(* alike, and the second reading is tried when the first one fails.        *)
EncodeJalr(ln, syms) ==
  LET a     == ln.args
      first == parse_reg(a[2]) \X _resolve(a[3], syms)
      other == parse_reg(a[3]) \X _resolve(a[2], syms)
      Pack(rds, pairs) == {<<i_type(OPC.JALR, rd, 0, p[1], fit_signed(p[2], 2048))>> :
                             rd \in rds, p \in {q \in pairs : FitsSigned(q[2], 2048)}}
  IN  CASE Len(a) = 1 -> Pack({1}, parse_reg(a[1]) \X {0})
        [] Len(a) = 3 -> Pack(parse_reg(a[1]), IF first # AsmError THEN first ELSE other)
        [] OTHER -> AsmError

EncodeUpper(ln, syms) ==
  IF ~_expect_args(ln, 2) THEN AsmError
  ELSE {<<u_type(IF ln.op = "lui" THEN OPC.LUI ELSE OPC.AUIPC, rd, v % 1048576)>> :
          rd \in parse_reg(ln.args[1]),
          v \in {x \in _resolve(ln.args[2], syms) : -524288 <= x /\ x < 1048576}}

-----------------------------------------------------------------------------
(* The pseudo-instructions.                                                *)
Nop == i_type(OPC.IMM, 0, F3Op.ADD_SUB, 0, 0)

(* The mnemonics that never look at their arguments.                       *)
Fixed == [op \in {"fence", "fence.i", "ecall", "ebreak", "nop"} |->
            CASE op = "fence"   -> i_type(OPC.FENCE, 0, 0, 0, 255)
              [] op = "fence.i" -> i_type(OPC.FENCE, 0, 1, 0, 0)
              [] op = "ecall"   -> i_type(OPC.SYSTEM, 0, 0, 0, F12_ECALL)
              [] op = "ebreak"  -> i_type(OPC.SYSTEM, 0, 0, 0, F12_EBREAK)
              [] op = "nop"     -> Nop]

EncodeMove(ln) ==
  IF ~_expect_args(ln, 2) THEN AsmError
  ELSE {<<CASE ln.op = "mv"  -> i_type(OPC.IMM, rd, F3Op.ADD_SUB, rs, 0)
            [] ln.op = "not" -> i_type(OPC.IMM, rd, F3Op.XOR, rs, 4095)
            [] ln.op = "neg" -> r_type(OPC.REG, rd, F3Op.ADD_SUB, 0, rs, F7_ALT)>> :
          rd \in parse_reg(ln.args[1]), rs \in parse_reg(ln.args[2])}

EncodeJ(ln, syms) ==
  IF ~_expect_args(ln, 1) THEN AsmError
  ELSE {<<j_type(OPC.JAL, 0, imm21)>> :
          imm21 \in AnyOffset(ln, ln.args[1], syms, 1048576)}

EncodeJr(ln) ==
  IF ~_expect_args(ln, 1) THEN AsmError
  ELSE {<<i_type(OPC.JALR, 0, 0, rs1, 0)>> : rs1 \in parse_reg(ln.args[1])}

EncodeRet(ln) ==
  IF ln.args # <<>> THEN AsmError ELSE {<<i_type(OPC.JALR, 0, 0, 1, 0)>>}

EncodeBranchZero(ln, syms) ==
  LET f3 == IF ln.op = "beqz" THEN F3Branch.BEQ ELSE F3Branch.BNE
  IN  IF ~_expect_args(ln, 2) THEN AsmError
      ELSE {<<b_type(OPC.BRANCH, f3, rs1, 0, imm13)>> :
              rs1 \in parse_reg(ln.args[1]),
              imm13 \in AnyOffset(ln, ln.args[2], syms, 4096)}

(* Mutant of EncodeLi: the short form is not padded to the reserved size.  *)
EncodeLiUnpadded(ln, syms) ==
  IF ~_expect_args(ln, 2) THEN AsmError
  ELSE {IF FitsSigned(v, 2048)
        THEN <<i_type(OPC.IMM, rd, F3Op.ADD_SUB, 0, v % 4096)>>
        ELSE <<u_type(OPC.LUI, rd, HiPart(Word32(v))),
               i_type(OPC.IMM, rd, F3Op.ADD_SUB, rd, LoPart(Word32(v)))>> :
          rd \in parse_reg(ln.args[1]), v \in _resolve(ln.args[2], syms)}

(* Mutant of EncodeLi: the ADDI of the long form starts from x0, as the    *)
(* short form's does.                                                      *)
EncodeLiFromZero(ln, syms) ==
  IF ~_expect_args(ln, 2) THEN AsmError
  ELSE {IF FitsSigned(v, 2048)
        THEN <<i_type(OPC.IMM, rd, F3Op.ADD_SUB, 0, v % 4096), Nop>>
        ELSE <<u_type(OPC.LUI, rd, HiPart(Word32(v))),
               i_type(OPC.IMM, rd, F3Op.ADD_SUB, 0, LoPart(Word32(v)))>> :
          rd \in parse_reg(ln.args[1]), v \in _resolve(ln.args[2], syms)}

(* li is padded with a NOP when one instruction would do.                  *)
EncodeLi(ln, syms) ==
  IF ~_expect_args(ln, 2) THEN AsmError
  ELSE {IF FitsSigned(v, 2048)
        THEN <<i_type(OPC.IMM, rd, F3Op.ADD_SUB, 0, v % 4096), Nop>>
        ELSE <<u_type(OPC.LUI, rd, HiPart(Word32(v))),
               i_type(OPC.IMM, rd, F3Op.ADD_SUB, rd, LoPart(Word32(v)))>> :
          rd \in parse_reg(ln.args[1]), v \in _resolve(ln.args[2], syms)}

EncodeLa(ln, syms) ==
  IF ~_expect_args(ln, 2) THEN AsmError
  ELSE {<<u_type(OPC.AUIPC, rd, HiPart(Word32(target - ln.pc))),
          i_type(OPC.IMM, rd, F3Op.ADD_SUB, rd, LoPart(Word32(target - ln.pc)))>> :
          rd \in parse_reg(ln.args[1]), target \in _resolve(ln.args[2], syms)}

(* Mutant of EncodeCall: the offset counts from the jalr.                  *)
EncodeCallFromJalr(ln, syms) ==
  IF ~_expect_args(ln, 1) THEN AsmError
  ELSE {<<u_type(OPC.AUIPC, 1, HiPart(Word32(target - ln.pc - 4))),
          i_type(OPC.JALR, 1, 0, 1, LoPart(Word32(target - ln.pc - 4)))>> :
          target \in _resolve(ln.args[1], syms)}

EncodeCall(ln, syms) ==
  IF ~_expect_args(ln, 1) THEN AsmError
  ELSE {<<u_type(OPC.AUIPC, 1, HiPart(Word32(target - ln.pc))),
          i_type(OPC.JALR, 1, 0, 1, LoPart(Word32(target - ln.pc)))>> :
          target \in _resolve(ln.args[1], syms)}

(* .word and .byte: every value, or the error of one of them.              *)
EncodeData(ln, syms) ==
  LET resolved == [i \in DOMAIN ln.args |-> _resolve(ln.args[i], syms)]
      value(i) == CHOOSE v \in resolved[i] : TRUE
  IN  IF AsmError \in Range(resolved) THEN AsmError
      ELSE {[i \in DOMAIN ln.args |-> IF ln.op = ".word" THEN Word32(value(i))
                                                       ELSE value(i) % 256]}

encode_line(ln, syms) ==
  CASE ln.op \in {".text", ".data", ".align"} -> {<<>>}
    [] ln.op \in {".word", ".byte"}        -> EncodeData(ln, syms)
    [] ln.op \in DOMAIN _R_TABLE           -> EncodeAlu(ln)
    [] ln.op \in DOMAIN _I_ALU_TABLE       -> EncodeAluImm(ln, syms)
    [] ln.op \in Shifts                    -> EncodeShift(ln, syms)
    [] ln.op \in DOMAIN _LOAD_TABLE        -> EncodeLoad(ln, syms)
    [] ln.op \in DOMAIN _STORE_TABLE       -> EncodeStore(ln, syms)
    [] ln.op \in DOMAIN _BRANCH_TABLE      -> EncodeBranch(ln, syms)
    [] ln.op = "jal"                       -> EncodeJal(ln, syms)
    [] ln.op = "jalr"                      -> EncodeJalr(ln, syms)
    [] ln.op \in {"lui", "auipc"}          -> EncodeUpper(ln, syms)
    [] ln.op \in DOMAIN Fixed              -> {<<Fixed[ln.op]>>}
    [] ln.op \in {"mv", "not", "neg"}      -> EncodeMove(ln)
    [] ln.op = "j"                         -> EncodeJ(ln, syms)
    [] ln.op = "jr"                        -> EncodeJr(ln)
    [] ln.op = "ret"                       -> EncodeRet(ln)
    [] ln.op \in {"beqz", "bnez"}          -> EncodeBranchZero(ln, syms)
    [] ln.op = "li"                        -> EncodeLi(ln, syms)
    [] ln.op = "la"                        -> EncodeLa(ln, syms)
    [] ln.op = "call"                      -> EncodeCall(ln, syms)
    [] OTHER                               -> AsmError
=============================================================================
