----------------------------- MODULE Assembler ------------------------------
(***************************************************************************)
(* The assembler of tools/assembler/assemble.py run from its command line: *)
(* read the source, sum up the section sizes, place every line (pass1),    *)
(* encode every line into a byte image, pack the image into words and      *)
(* write the hex file.  One action per line of each pass.                  *)
(***************************************************************************)
EXTENDS AsmTables, FiniteSets, FiniteSetsExt

CONSTANTS Sources,    \* source texts, each a sequence of source lines
          Bases,      \* values of text_base
          Pins        \* values of data_base, None when the caller pins none

Token == [t: {"name", "int", "junk"}, n: STRING, v: Int]

ASSUME SourcesAssumption ==
  \A source \in Sources :
    source \in Seq([label: STRING \cup {None}, op: STRING \cup {None}, args: Seq(Token)])
ASSUME BasesAssumption == Bases \subseteq Nat /\ Pins \subseteq Nat \cup {None}

(* Arithmetic that the proofs have to be told: a power of two is positive. *)
ASSUME AlignPowers ==
  \A source \in Sources : \A i \in DOMAIN source :
    source[i].op = ".align" =>
      \A j \in DOMAIN source[i].args : \A n \in parse_int(source[i].args[j]) :
        n >= 0 => 2^n > 0

Sections == {"text", "data"}

VARIABLES stage,      \* "read", "size", "pass1", "pass2" or "done"
          result,     \* how the run ended
          lines,      \* the Line records
          text_base, data_base,
          k,          \* the line at which the current pass stands
          current,    \* the section of that line
          sizes,      \* bytes per section, summed by the first pass
          pc,         \* next address per section, in pass1
          syms,       \* the symbol table
          image,      \* bytes by absolute address
          hex         \* the output file: per line, digit pairs from the left

vars == <<stage, result, lines, text_base, data_base, k, current, sizes, pc,
          syms, image, hex>>

EmptyFcn == [x \in {} |-> 0]

(* Blank and comment lines are dropped; a line starts out in no place.     *)
tokenize(source) ==
  LET line(s) == [label |-> s.label, op |-> s.op, args |-> s.args,
                  section |-> "text", pc |-> 0, size |-> 0]
      out[i \in 0 .. Len(source)] ==
        IF i = 0 THEN <<>>
        ELSE IF source[i].label = None /\ source[i].op = None THEN out[i - 1]
        ELSE Append(out[i - 1], line(source[i]))
  IN  out[Len(source)]

Init ==
  /\ stage = "read" /\ result = "running"
  /\ \E source \in Sources : lines = tokenize(source)
  /\ text_base \in Bases /\ data_base \in Pins
  /\ k = 1 /\ current = "text"
  /\ sizes = [s \in Sections |-> 0] /\ pc = [s \in Sections |-> 0]
  /\ syms = EmptyFcn /\ image = EmptyFcn /\ hex = <<>>

(* The run ends; an AsmError is caught by _cli, anything else is not.      *)
Stop(outcome) ==
  /\ stage' = "done" /\ result' = outcome
  /\ UNCHANGED <<lines, text_base, data_base, k, current, sizes, pc, syms, image, hex>>

(* The source cannot be read: _cli returns 2.                              *)
ReadFails == stage = "read" /\ Stop("unreadable")

ReadSource ==
  /\ stage = "read" /\ stage' = "size"
  /\ UNCHANGED <<result, lines, text_base, data_base, k, current, sizes, pc,
                 syms, image, hex>>

-----------------------------------------------------------------------------
(***************************************************************************)
(* The first walk over the lines sums sizes, from zero, to find the end of *)
(* .text.                                                                  *)
(***************************************************************************)
At(pass) == stage = pass /\ k \in DOMAIN lines
ln == lines[k]

(* Mutant of SizedTo: the walk does not know .align.                       *)
SizedToNoAlign(n) ==
  CASE ln.op = None    -> n
    [] ln.op = ".align" -> n
    [] ln.op = ".word" -> n + 4 * Len(ln.args)
    [] ln.op = ".byte" -> n + Len(ln.args)
    [] OTHER           -> n + _instruction_size(ln.op)

(* The size of the section after the current line; .align by nothing is    *)
(* skipped here and refused in pass1.                                      *)
SizedTo(n) ==
  CASE ln.op = None    -> n
    [] ln.op = ".align" ->
         IF ln.args = <<>> THEN n ELSE AlignUp(n, CHOOSE b \in parse_int(ln.args[1]) : TRUE)
    [] ln.op = ".word" -> n + 4 * Len(ln.args)
    [] ln.op = ".byte" -> n + Len(ln.args)
    [] OTHER           -> n + _instruction_size(ln.op)

AlignArg == IF ln.op = ".align" /\ ln.args # <<>> THEN parse_int(ln.args[1]) ELSE {0}

SizeLine ==
  /\ At("size")
  /\ \E n \in AlignArg : n >= 0
  /\ IF ln.op \in {".text", ".data"}
     THEN current' = (IF ln.op = ".text" THEN "text" ELSE "data") /\ UNCHANGED sizes
     ELSE sizes' = [sizes EXCEPT ![current] = SizedTo(@)] /\ UNCHANGED current
  /\ k' = k + 1
  /\ UNCHANGED <<stage, result, lines, text_base, data_base, pc, syms, image, hex>>

(* parse_int raises AsmError; a shift by a negative count ValueError.      *)
SizeLineFails ==
  /\ At("size")
  /\ \/ AlignArg = AsmError /\ Stop("asm_error")
     \/ (\E n \in AlignArg : n < 0) /\ Stop("crash")

(* Mutant of DefaultDataBase: the size is rounded down.                    *)
DefaultDataBaseDown == text_base + (sizes["text"] \div 4) * 4

DefaultDataBase == text_base + ((sizes["text"] + 3) \div 4) * 4

(* Unless the caller pinned it, .data begins at the word after .text.      *)
PlaceSections ==
  /\ stage = "size" /\ k > Len(lines)
  /\ data_base' = IF data_base = None THEN DefaultDataBase ELSE data_base
  /\ pc' = [text |-> text_base, data |-> data_base']
  /\ stage' = "pass1" /\ k' = 1 /\ current' = "text"
  /\ UNCHANGED <<result, lines, text_base, sizes, syms, image, hex>>

-----------------------------------------------------------------------------
(***************************************************************************)
(* pass1 gives every line its section, address and size, and every label   *)
(* the address at which its line begins.                                   *)
(***************************************************************************)
Pass1Refuses ==
  \/ ln.label # None /\ ln.label \in DOMAIN syms
  \/ /\ ln.op = ".align"
     /\ ~(Len(ln.args) = 1 /\ \E n \in parse_int(ln.args[1]) : n \in 0 .. 12)
  \/ ln.op \in {".word", ".byte"} /\ ln.args = <<>>

SizeOf(at) ==
  CASE ln.op \in {None, ".text", ".data"} -> 0
    [] ln.op = ".align" -> AlignUp(at, CHOOSE n \in parse_int(ln.args[1]) : TRUE) - at
    [] ln.op = ".word"  -> 4 * Len(ln.args)
    [] ln.op = ".byte"  -> Len(ln.args)
    [] OTHER            -> _instruction_size(ln.op)

PlaceLine ==
  /\ At("pass1") /\ ~Pass1Refuses
  /\ syms' = IF ln.label = None THEN syms
             ELSE [x \in DOMAIN syms \cup {ln.label} |->
                     IF x = ln.label THEN pc[current] ELSE syms[x]]
  /\ current' = CASE ln.op = ".text" -> "text"
                  [] ln.op = ".data" -> "data"
                  [] OTHER           -> current
  /\ lines' = [lines EXCEPT ![k].section = current', ![k].pc = pc[current'],
                            ![k].size = SizeOf(pc[current'])]
  /\ pc' = [pc EXCEPT ![current'] = @ + SizeOf(@)]
  /\ k' = k + 1
  /\ UNCHANGED <<stage, result, text_base, data_base, sizes, image, hex>>

PlaceLineFails == At("pass1") /\ Pass1Refuses /\ Stop("asm_error")

BeginPass2 ==
  /\ stage = "pass1" /\ k > Len(lines)
  /\ stage' = "pass2" /\ k' = 1
  /\ UNCHANGED <<result, lines, text_base, data_base, current, sizes, pc, syms,
                 image, hex>>

-----------------------------------------------------------------------------
(***************************************************************************)
(* Every line is encoded and written into the byte image at its address.   *)
(***************************************************************************)
(* _emit_word, of the slices of an instruction or of the pair of a .word.  *)
InsnBytes(w) == <<w.opcode + 128 * w.b7,
                  w.b11_8 + 16 * w.b14_12 + 128 * (w.b19_15 % 2),
                  (w.b19_15 \div 2) + 16 * w.b20 + 32 * (w.b24_21 % 8),
                  (w.b24_21 \div 8) + 2 * w.b30_25 + 128 * w.b31>>

(* Mutant of PairBytes: the bits above a byte are not masked off.          *)
PairBytesUnmasked(p) == <<p.lo % 256, (p.lo \div 256) + 16 * (p.hi % 16),
                          p.hi \div 16, p.hi \div 4096>>

PairBytes(p) == <<p.lo % 256, (p.lo \div 256) + 16 * (p.hi % 16),
                  (p.hi \div 16) % 256, p.hi \div 4096>>

BytesOf(op, out) ==
  CASE op = ".byte" -> out
    [] op = ".word" -> [i \in 1 .. 4 * Len(out) |->
                          PairBytes(out[((i - 1) \div 4) + 1])[((i - 1) % 4) + 1]]
    [] OTHER        -> [i \in 1 .. 4 * Len(out) |->
                          InsnBytes(out[((i - 1) \div 4) + 1])[((i - 1) % 4) + 1]]

Overlay(bytes, at) ==
  LET new == at .. at + Len(bytes) - 1
  IN  [a \in DOMAIN image \cup new |->
         IF a \in new THEN bytes[a - at + 1] ELSE image[a]]

EncodeLine ==
  /\ At("pass2")
  /\ \E out \in (IF ln.op = None THEN {<<>>} ELSE encode_line(ln, syms)) :
       image' = Overlay(BytesOf(ln.op, out), ln.pc)
  /\ k' = k + 1
  /\ UNCHANGED <<stage, result, lines, text_base, data_base, current, sizes,
                 pc, syms, hex>>

EncodeLineFails ==
  /\ At("pass2")
  /\ ln.op # None /\ encode_line(ln, syms) = AsmError
  /\ Stop("asm_error")

(* The words from the lowest to the highest written byte, rounded out;     *)
(* a byte that nothing wrote is zero.                                      *)
ImageLo == (Min(DOMAIN image) \div 4) * 4
ImageHi == ((Max(DOMAIN image) + 4) \div 4) * 4
ByteOr0(a) == IF a \in DOMAIN image THEN image[a] ELSE 0

PackWords ==
  IF DOMAIN image = {} THEN <<>>
  ELSE [i \in 1 .. (ImageHi - ImageLo) \div 4 |->
          [b \in 1 .. 4 |-> ByteOr0(ImageLo + 4 * (i - 1) + b - 1)]]

(* A word prints with its highest byte first.                              *)
to_hex_lines(words) == [i \in DOMAIN words |-> Reverse(words[i])]

WriteHex ==
  /\ stage = "pass2" /\ k > Len(lines)
  /\ hex' = to_hex_lines(PackWords)
  /\ stage' = "done" /\ result' = "written"
  /\ UNCHANGED <<lines, text_base, data_base, k, current, sizes, pc, syms, image>>

Next ==
  \/ ReadFails \/ ReadSource
  \/ SizeLine \/ SizeLineFails \/ PlaceSections
  \/ PlaceLine \/ PlaceLineFails \/ BeginPass2
  \/ EncodeLine \/ EncodeLineFails \/ WriteHex

Spec == Init /\ [][Next]_vars

-----------------------------------------------------------------------------
(***************************************************************************)
(* Reading the output as its consumers do: $readmemh and load_program take *)
(* line i as the little-endian word at ImageLo + 4 * (i - 1).              *)
(***************************************************************************)
Loaded(a) == hex[((a - ImageLo) \div 4) + 1][4 - ((a - ImageLo) % 4)]

(* The instruction word at an address.                                     *)
Insn(a) ==
  LET b0 == Loaded(a)
      b1 == Loaded(a + 1)
      b2 == Loaded(a + 2)
      b3 == Loaded(a + 3)
  IN  [b31 |-> b3 \div 128, b30_25 |-> (b3 \div 2) % 64,
       b24_21 |-> (b3 % 2) * 8 + (b2 \div 32), b20 |-> (b2 \div 16) % 2,
       b19_15 |-> (b2 % 16) * 2 + (b1 \div 128), b14_12 |-> (b1 \div 16) % 8,
       b11_8 |-> b1 % 16, b7 |-> b0 \div 128, opcode |-> b0 % 128]

Written == result = "written"

(* What the two instructions at a compute: the sum of their immediates,    *)
(* and of a for AUIPC.                                                     *)
PairValue(a) ==
  LET w == Insn(a)
      x == Insn(a + 4)
      base == CASE w.opcode = OPC.LUI   -> imm_u(w)
                [] w.opcode = OPC.AUIPC -> [hi |-> (imm_u(w).hi + Word32(a).hi) % 1048576,
                                            lo |-> Word32(a).lo]
                [] OTHER                -> Word32(imm_i(w))
  IN  IF x = Nop THEN base ELSE Plus12(base, imm_i(x))

(* They compute it in rd: the first writes rd and reads no register but    *)
(* x0, the second, an op, reads and writes rd; for ADDI a NOP will do.     *)
BuildsIn(a, rd, op) ==
  LET w == Insn(a)
      x == Insn(a + 4)
      Adds(y, opcode, rs1) == /\ y.opcode = opcode /\ funct3_of(y) = 0
                              /\ rd_of(y) = rd /\ rs1_of(y) = rs1
  IN  /\ \/ w.opcode \in {OPC.LUI, OPC.AUIPC} /\ rd_of(w) = rd
         \/ Adds(w, OPC.IMM, 0)
      /\ \/ Adds(x, op, rd)
         \/ op = OPC.IMM /\ x = Nop

(* The register that l names leaves with n modulo 2^32.                    *)
Holds32(l, n) ==
  /\ PairValue(l.pc) = Word32(n)
  /\ \E rd \in parse_reg(l.args[1]) : BuildsIn(l.pc, rd, OPC.IMM)

LastArg(l) == l.args[Len(l.args)]
TargetOf(l) == CHOOSE a \in _resolve(LastArg(l), syms) : TRUE

(* JALR clears bit 0.                                                      *)
JalrTarget(p) == [p EXCEPT !.lo = @ - (@ % 2)]

Jumps    == {"jal", "j"}
Branches == DOMAIN _BRANCH_TABLE \cup {"beqz", "bnez"}

Reaches(l) ==
  CASE l.op \in Jumps    -> l.pc + imm_j(Insn(l.pc)) = TargetOf(l)
    [] l.op \in Branches -> l.pc + imm_b(Insn(l.pc)) = TargetOf(l)
    [] l.op = "la"       -> Holds32(l, TargetOf(l))
    [] l.op = "call"     -> /\ JalrTarget(PairValue(l.pc)) = Word32(TargetOf(l))
                            /\ BuildsIn(l.pc, 1, OPC.JALR)
    [] OTHER             -> TRUE

(* The targets that the instructions can express: offsets of jumps and     *)
(* branches are even, JALR lands on even addresses.  la takes any address. *)
Expressible(l) ==
  /\ l.op \in Jumps \cup Branches => (TargetOf(l) - l.pc) % 2 = 0
  /\ l.op = "call" => TargetOf(l) % 2 = 0

-----------------------------------------------------------------------------
(* Addresses and sizes are natural numbers; image and file hold bytes.      *)
AsmTypeOK ==
  /\ stage \in {"read", "size", "pass1", "pass2", "done"}
  /\ result \in {"running", "written", "asm_error", "crash", "unreadable"}
  /\ k \in 1 .. Len(lines) + 1 /\ current \in Sections
  /\ sizes \in [Sections -> Nat] /\ pc \in [Sections -> Nat]
  /\ \A i \in DOMAIN lines : lines[i].pc \in Nat /\ lines[i].size \in Nat
  /\ \A x \in DOMAIN syms : syms[x] \in Nat
  /\ \A a \in DOMAIN image : image[a] \in 0 .. 255
  /\ \A i \in DOMAIN hex : hex[i] \in [1 .. 4 -> 0 .. 255]

(* assemble() sums sizes from zero and pass1 places from text_base: the    *)
(* two walks agree on the end of .text, whatever mix of labels, data,      *)
(* alignment, padded and doubled pseudo-instructions lies between, as long *)
(* as text_base is a multiple of every boundary that .align accepts.       *)
LayoutPassAgrees ==
  stage = "pass2" /\ text_base % 4096 = 0 =>
    pc["text"] = text_base + sizes["text"]

(* pass2 fills exactly the bytes that pass1 reserved: after line k - 1 the *)
(* image holds the bytes of the lines before k.                            *)
ReservedIsFilled ==
  stage = "pass2" =>
    DOMAIN image = UNION {lines[i].pc .. lines[i].pc + lines[i].size - 1 :
                            i \in {j \in 1 .. k - 1 : lines[j].op # ".align"}}

(* Read back from the hex file, every branch, jump and call reaches its    *)
(* target if the target is expressible (an odd one is not: branches and    *)
(* jal refuse it, j, beqz, bnez and call do not), at either end of the     *)
(* ranges, forwards and backwards and across sections; la leaves any       *)
(* address, odd or even, in the register it names; .word holds any.        *)
TargetsResolve ==
  Written => \A i \in DOMAIN lines :
    LET l == lines[i]
    IN  /\ Expressible(l) => Reaches(l)
        /\ l.op = ".word" =>
             \A j \in DOMAIN l.args : \A b \in 1 .. 4 :
               Loaded(l.pc + 4 * (j - 1) + b - 1)
               = PairBytes(Word32(CHOOSE v \in _resolve(l.args[j], syms) : TRUE))[b]

(* Read back from the hex file, li leaves its operand modulo 2^32 in the   *)
(* register it names, in one instruction and a NOP or in two of which the  *)
(* second builds on the first.  (x0 discards it as it does every result.)  *)
ConstantsLoad ==
  Written => \A i \in DOMAIN lines :
    lines[i].op = "li" => Holds32(lines[i], TargetOf(lines[i]))

(* No line writes over the bytes of another: the sections stay apart and   *)
(* no encoding is longer than what pass1 reserved for it.                  *)
NothingOverwritten ==
  [][Cardinality(DOMAIN image') = Cardinality(DOMAIN image) +
       (IF stage = "pass2" /\ k' > k /\ ln.op # ".align" THEN ln.size ELSE 0)]_vars

(* pass2 emits words, "resolving labels and PC-relative immediates against *)
(* the now-complete symbol table": odd targets included.                   *)
EveryTargetResolves ==
  Written => \A i \in DOMAIN lines :
    lines[i].op \in Jumps \cup Branches => Reaches(lines[i])
=============================================================================
