------------------------------- MODULE AluRef -------------------------------
(***************************************************************************)
(* The arithmetic of the emulator against the arithmetic of the RTL, on    *)
(* every pair of words: an exhaustive bench.  The state is the pair; a    *)
(* step goes on to the next second operand.                                *)
(***************************************************************************)
EXTENDS EmuArith, Decoder

VARIABLES a, b

AluInit == a \in RtlWord /\ b = 0

NextOperand == b # 2^XLEN - 1 /\ b' = b + 1 /\ a' = a

AluSpec == AluInit /\ [][NextOperand]_<<a, b>>

-----------------------------------------------------------------------------
(* The RTL result of an arithmetic instruction with these fields.          *)
RtlResult(op, f3, f7) ==
  RtlAlu(ArithOp([op |-> op, f3 |-> f3, f7 |-> f7]), a, b)

(* _alu_reg computes what decoder.sv and alu.sv compute, and _alu_imm does *)
(* with b as a sign-extended immediate, for every funct3 and funct7 that   *)
(* the emulator does not reject: at the ends of the signed range, for      *)
(* every shift amount and for the amounts beyond the word.                 *)
AluAgrees ==
  \A f3 \in Funct3, f7 \in {"F7_DEFAULT", "F7_ALT"} :
    /\ _alu_reg(f3, f7, a, b) = RtlResult("OP_REG", f3, f7)
    /\ _alu_imm(f3, f7, a, s32(b)) = RtlResult("OP_IMM", f3, f7)

(* The conditional branches decide alike.                                  *)
BranchesAgree ==
  \A f3 \in F3Branch :
    BranchTaken(f3, a, b) =
      RtlCmp(BranchKind([op |-> "OP_BRANCH", f3 |-> f3]), a, b)

(* A load or store of the emulator's byte array touches the lanes that     *)
(* data_memory.sv selects in the word a, with the same extension, for      *)
(* every aligned size and offset.                                          *)
BytesOf(w) == [x \in 0 .. 3 |-> (w \div 2^(BYTE * x)) % 2^BYTE]
SizeOf == [MEM_B |-> 1, MEM_H |-> 2, MEM_W |-> 4]

LanesAgree ==
  \A sz \in MemSize, off \in 0 .. 3 :
    /\ SizeMisaligned(off, SizeOf[sz]) = RtlUnaligned(sz, off)
    /\ ~RtlUnaligned(sz, off) =>
         /\ \A signed \in BOOLEAN :
              LoadValue(BytesOf(a), off, SizeOf[sz], signed) =
                RtlReadExt(sz, ~signed, off, a)
         /\ StoreBytes(BytesOf(a), off, b, SizeOf[sz]) =
              BytesOf(RtlMergeWord(sz, off, a, b))
=============================================================================
