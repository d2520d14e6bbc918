------------------------------ MODULE Lockstep ------------------------------
(***************************************************************************)
(* The reference emulator and a core side by side on one image, as         *)
(* tb/program/test_programs.py runs them: the image is loaded into the     *)
(* emulator's one memory and into both memories of the core.  The core is  *)
(* module Isa, which both RTL cores refine.  One step of the system is one *)
(* instruction on each side; it ends when either side stops.               *)
(*                                                                         *)
(* Three history variables say what the program did: the words it fetched, *)
(* the words it stored to, and whether every instruction so far had the    *)
(* same meaning on both sides.                                             *)
(***************************************************************************)
EXTENDS Emulator, Units

CONSTANTS
  MEM_WORDS,    \* words of emulator memory (64 KiB in the benches)
  Images        \* word index -> word: what the benches load at address zero

ASSUME MemAssumption ==
  /\ MEM_WORDS \in Nat
  /\ \A image \in Images : image \in [0 .. (MEM_WORDS - 1) -> RtlWord]

(* The core is the RTL's: its words and operators are those of Datapath.   *)
ASSUME DatapathAssumption ==
  /\ Word = RtlWord /\ Zero = 0
  /\ IMemIdx = 0 .. (IMEM_WORDS - 1) /\ DMemIdx = 0 .. (DMEM_WORDS - 1)
  /\ \A x \in RtlWord :
       /\ Plus4(x) = RtlPlus4(x) /\ ClearBit0(x) = RtlClearBit0(x)
       /\ ImemIdx(x) = RtlImemIdx(x) /\ DmemIdx(x) = RtlDmemIdx(x)
       /\ ByteOff(x) = RtlByteOff(x)
  /\ \A x, y \in RtlWord :
       /\ \A op \in AluOp : Alu(op, x, y) = RtlAlu(op, x, y)
       /\ \A kind \in CondOp : Cmp(kind, x, y) = RtlCmp(kind, x, y)
  /\ \A sz \in MemSize, off \in 0 .. 3 :
       /\ Unaligned(sz, off) = RtlUnaligned(sz, off)
       /\ \A x \in RtlWord :
            /\ \A u \in BOOLEAN : ReadExt(sz, u, off, x) = RtlReadExt(sz, u, off, x)
            /\ \A y \in RtlWord : MergeWord(sz, off, x, y) = RtlMergeWord(sz, off, x, y)

(* The parameters of the two tops: execution starts at zero, where the     *)
(* benches load the image; both memories are within the 64 KiB of the      *)
(* emulator; the device registers are word-aligned and beyond them.        *)
ASSUME BenchAssumption ==
  /\ PC_RESET = 0
  /\ IMEM_WORDS \in 0 .. MEM_WORDS /\ DMEM_WORDS \in 0 .. MEM_WORDS
  /\ \A device \in {TOHOST_ADDR, UART_ADDR} :
       /\ device \in RtlWord /\ device % 4 = 0
       /\ device \div 4 \notin DMemIdx

VARIABLES imem, dmem, rtl_pc, rtl_regs, cause, rtl_tohost,  \* the core
          fetched, stored, shared                           \* history

rtlVars == <<imem, dmem, rtl_pc, rtl_regs, cause, rtl_tohost>>
history == <<fetched, stored, shared>>
lockVars == <<emuVars, rtlVars, history>>

Rtl == INSTANCE Isa WITH pc <- rtl_pc, regs <- rtl_regs, tohost <- rtl_tohost

(* The image as little-endian bytes.                                       *)
ImageBytes(image) ==
  [x \in 0 .. (4 * MEM_WORDS - 1) |->
     (image[x \div 4] \div 2^(BYTE * (x % 4))) % 2^BYTE]

LInit ==
  \E image \in Images :
    /\ PowerOn(ImageBytes(image), 0, TOHOST_ADDR, FALSE)
    /\ imem = [k \in IMemIdx |-> InstOf(image[k])]
    /\ dmem = [k \in DMemIdx |-> image[k]]
    /\ rtl_pc = PC_RESET
    /\ rtl_regs = [x \in XReg |-> Zero]
    /\ cause = "HC_NONE"
    /\ rtl_tohost = Zero
    /\ fetched = {} /\ stored = {} /\ shared = TRUE

(***************************************************************************)
(* The instructions with one meaning: RV32I encodings without the CSRs and *)
(* privileged returns that only the emulator has and without the funct7    *)
(* and funct12 values that only the emulator rejects; fetched from inside  *)
(* the instruction memory; jumping to a word boundary; accessing the data  *)
(* memory inside its bounds, where the core would wrap around, or storing  *)
(* to tohost.  A misaligned access stops both at any address.              *)
(***************************************************************************)
InDmem(at) == at \div 4 \in DMemIdx

LoadInBounds ==
  inst.op = "OP_LOAD" => \/ InDmem(data_addr)
                         \/ inst.f3 \notin F3Load
                         \/ SizeMisaligned(data_addr, data_size)

StoreInBounds ==
  inst.op = "OP_STORE" => \/ InDmem(data_addr)
                          \/ data_addr = tohost_addr
                          \/ inst.f3 \notin F3Store
                          \/ SizeMisaligned(data_addr, data_size)

OneMeaning ==
  /\ FetchTrap = "none" /\ pc \div 4 \in IMemIdx
  /\ inst.op = "OP_IMM" => ~AluImmIllegal(inst.f3, inst.f7)
  /\ inst.op = "OP_REG" => ~AluRegIllegal(inst.f3, inst.f7)
  /\ inst.op = "OP_SYSTEM" =>
       \/ inst.f3 = 4
       \/ inst.f3 = 0 /\ inst.f12 \in {"F12_ECALL", "F12_EBREAK"}
  /\ Raised # "misaligned-fetch"
  /\ LoadInBounds
  /\ StoreInBounds

LStep ==
  /\ Running
  /\ cause = "HC_NONE"
  /\ Step
  /\ Rtl!Execute \/ Rtl!Halt
  /\ shared' = (shared /\ OneMeaning)
  /\ fetched' = fetched \cup {pc \div 4}
  /\ stored' = stored \cup (IF Executes("OP_STORE") /\ data_addr # tohost_addr
                           THEN {data_addr \div 4} ELSE {})

LSpec == LInit /\ [][LStep]_lockVars

-----------------------------------------------------------------------------
(* What the emulator's verdict is called on the core.  A step limit is the *)
(* caller's, and a trap of any other kind has no counterpart.              *)
CauseOf(result) ==
  CASE result = "ecall"   -> "HC_ECALL"
    [] result = "ebreak"  -> "HC_EBREAK"
    [] result = "illegal" -> "HC_ILLEGAL"
    [] result \in {"misaligned-load", "misaligned-store"} -> "HC_MISALIGNED"
    [] result \in {"tohost-pass", "tohost-fail"} -> "HC_TOHOST"
    [] OTHER -> "HC_NONE"

SameState ==
  /\ \A x \in XReg : regs[x] = rtl_regs[x]
  /\ \A k \in DMemIdx : dmem[k] = LoadBytes(mem, 4 * k, 4)
  /\ cause = CauseOf(RunResult)
  /\ Running => pc = rtl_pc
  /\ cause = "HC_TOHOST" => tohost_value = <<rtl_tohost>>

(* The oracle is one: as long as every instruction had one meaning and no  *)
(* fetched word was stored to, the emulator and the core agree on every    *)
(* register, on the data memory, on why they stopped and on the value      *)
(* published.  This is what the lockstep benches compare, on a few         *)
(* programs, at the end of a run.                                          *)
OracleAgrees == shared /\ stored \cap fetched = {} => SameState
=============================================================================
