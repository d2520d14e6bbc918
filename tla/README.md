# RiscForge in TLA+

A verification project for RiscForge, an RV32I processor in SystemVerilog with
a Python assembler, a Python reference emulator, a conformance runner and
cocotb test benches. It models the two cores at the level of clock edges and
the Python tools at the level of the steps of their loops, checks them with TLC
on small instances, and proves with TLAPS, without bounds: that both cores
implement the same one-instruction-at-a-time machine, for every word width,
register count, ALU and program; that the emulator is an oracle for that
machine, on whole programs and on all words; that the instruction words the
assembler packs mean the same to the emulator and to the immediate generator,
for every integer and every word; that a file the assembler writes loads its
constants and reaches the targets its instructions can express, for sources of
any length; and that the verdicts of the conformance runner and of the encoding
check are right, those of the runner depending on the test file alone.

## The system

| Part | State | Operations | Modules |
|---|---|---|---|
| Five-stage pipeline (`rtl/top_pipeline.sv`, `*_reg.sv`) | PC, IF/ID, ID/EX, EX/MEM, MEM/WB, shadow halt-cause pipeline, halt latch, tohost latch | a clock edge, a clock edge with reset | `Pipeline`, `PipelineTrace` |
| Hazard and forwarding units | none | load-use stall, branch-operand stall, operand select | `Decoder`, `Pipeline` |
| Single-cycle core (`rtl/top.sv`) | PC, halt latch | a clock edge, a clock edge with reset | `SingleCycle` |
| Decoder, shared types (`decoder.sv`, `riscv_pkg.sv`) | none | instruction to control bundle | `RiscvPkg`, `Decoder` |
| Register file, memories | x1..x31; instruction and data words | read, write, sub-word merge, MMIO, misalignment | `Units`, `Datapath` |
| ALU, branch unit | none | 11 operations, 6 comparisons | `Units`, `Datapath` |
| Immediate generator (`imm_gen.sv`) | none | immediate of each format | `Encoding` |
| Reference emulator (`tools/refmodel/rv32i_emu.py`) | PC, registers, one byte memory, CSRs, halt reason, step count, trace | `step`, `run`, traps | `EmuArith`, `Emulator` |
| Test benches (`tb/`) | the sampled cause | reset, sample `halted`/`halt_cause`, compare with the emulator | `SingleCycle` (sampling), `Lockstep` (comparison) |
| Assembler (`tools/assembler/assemble.py`) | section sizes and counters, symbol table, byte image | sizing walk, layout pass, encoding pass, hex file | `Encoding`, `AsmTables`, `Assembler` |
| Conformance runner (`riscv_tests_runner.py`) | tests to run, passes, failures, skips, one emulator per test | list, skip, reject, load and run, report | `Runner` |
| Encoding check (`scripts/encoding_check.py`) | errors so far | compare an enum, compare a constant, verdict | `EncodingCheck` |
| Benchmarks, build scripts, counter demo | none worth modelling | data, process I/O | not modelled |

The two cores instantiate the same decoder, register file, memories, ALU and
branch unit. The benches load one program image into both memories, reset the
core, clock it until `halted`, and compare the register file with the
emulator's. Nothing in the repository is multi-threaded; what is concurrent is
the hardware. In every cycle five instructions at different ages read and write
the same state, and most of the hard behaviours come from that:

- an operand is latched in ID and used in EX, where it may be one or two
  results old (forwarding, the write-first register file, the load-use stall);
- branches resolve in ID, before their operands have reached the register file,
  and an instruction of the wrong path has then already been fetched;
- an instruction is known to halt in ID or MEM but halts only in WB, with
  younger stores already in MEM;
- a stall must clear the hazard that caused it, or the core locks up;
- a reset may arrive in any of these situations.

The tools are sequential. What is hard there is that several pieces of code say
the same thing and must agree:

- the emulator is the oracle for the RTL, with one memory where the RTL has
  two, traps where the RTL wraps around, and arithmetic written a second time;
- the assembler walks the source three times, and each walk computes sizes;
- instruction words are packed in one file and unpacked in two others, with the
  bits of an immediate scattered over the word;
- the runner executes one test after the other in one process and must neither
  carry state over, nor lose a failure, nor hang;
- the two encoding tables are kept in step by a script that compares them.

The hazards are listed, with the line where each one bites and the properties
that would catch it, in `PROJECT.json`.

## Modules

`RiscvPkg` has the types of `riscv_pkg.sv`. An instruction is the record of the
slices the RTL takes from the word (opcode, funct3, funct7, funct12, rd, rs1,
rs2) and the immediate that `imm_gen` selects. The fields are independent, so
every encoding is represented, and so are a few records that no word encodes.
`Decoder` is `decoder.sv` read by column: for each field of the bundle, which
instructions move it off its default. It also has the register-read table of
`hazard_unit.sv` and the detection of ecall, ebreak and illegal instructions.

`Units` holds what both cores share: operand muxes, branch decision, register
file, data memory with its MMIO addresses, writeback mux. What arithmetic does
to the bits of a word is a parameter there (`Alu`, `Cmp`, `ReadExt`, ...), with
the assumptions that the results are words and that `ALU_PASS_B` passes its
operand. `Datapath` defines the operators of the RTL on words of four
`BYTE`-bit bytes, and the models give those to TLC.

`Isa` is the abstract specification: `Execute` one instruction, `Halt` on one
that halts (it takes no effect, its cause is reported, a tohost store publishes
its data), `Restart`.

`Pipeline` is `top_pipeline.sv`. The variables are the flip-flops and memories
under the RTL's names, grouped by pipeline register; every wire is a state
function with the name it has in the RTL; `Cycle` is the clock edge with rst
low, one `Clock...` conjunct per register, and `Reset` the edge with rst high.
`PipelineTrace` adds a history variable with the address of the instruction in
each stage (`NoPc` for a bubble), which the RTL does not keep past EX. No
action reads it. The properties about program order are stated with it.

`SingleCycle` is `top.sv`, with two observers: `seen`, what can be read in the
cycle in which `halted` rises, and `tb`, the cause the benches sample after
each edge.

`EmuArith` is the arithmetic of the emulator, written from the Python and not
from `Datapath`: masking, `_alu_imm`, `_alu_reg`, branch conditions,
little-endian loads and stores. `AluRef` walks over all pairs of words and
compares the two. `Emulator` has the fields of class `RV32I` as variables and
one action per branch of `step`: register-writing instructions share
`Computes`; ecall and ebreak halt or trap; `RaiseTrap` is an exception, which
leaves the state alone; `Retire` is the common tail (trace, PC, step count).

`Lockstep` runs the emulator and `Isa` on one image, one instruction on each
side per step. Both RTL cores refine `Isa`, so what holds here holds for them.
Its history variables record the words fetched, the words stored to, and
whether each instruction so far had one meaning on both sides (`OneMeaning`).

`Runner` is the pass of the conformance runner over a directory; the steps of
the emulator are steps of the runner. An ELF file is what `load_elf` returns.

`Encoding` has the packers of the assembler, the decoders of the emulator and
the wires of `imm_gen.sv`. A word is the record of the bit slices between which
no format cuts, so packing and unpacking are linear arithmetic; a 32-bit value
is a pair of its upper 20 and lower 12 bits. `EncodingSweep` states the
round trips for a value `v` that walks over windows of integers.

`AsmTables` has the tables of the assembler and `encode_line`, one operator per
family of mnemonics. An operator returns the set of its results, empty where
the code raises `AsmError`, so a comprehension over operands fails as the code
does. `Assembler` is the run from the command line: `SizeLine` (the sizing
walk), `PlaceLine` (`pass1`), `EncodeLine` (the encoding loop with the byte
image), one action per source line, and `WriteHex`. The properties read the
written hex back as a loader would. A source line is a record of label,
mnemonic and operand tokens.

`EncodingCheck` is the gate on a package given as a sequence of classified
lines and Python classes given as sequences of definitions.

`MCImages` has the instruction alphabets and images of the core models; the other `MC` modules
put a specification on its inputs. `UnitsProofs`, `PipelineProofs`,
`SingleCycleProofs`, `EmulatorProofs` (the emulator's step and `AluRef`),
`LockstepProofs`, `RunnerProofs`, `AssemblerProofs` (with the encodings) and
`EncodingCheckProofs` contain the theorems.

Definitions commented as mutants are plausible bugs, used to check that the
properties can fail; no specification uses them.

## What is checked

| Run | Shows |
|---|---|
| `pipeline` | With a reset possible in any cycle. `OperandsAreCurrent`: each register that an instruction in EX reads arrives with the value the older instructions leave. `CorrectPath`: what follows an instruction in EX or MEM is its successor in program order. `AtMostOneBubble`: stalls and flushes cost one cycle. `BubblesAreEarned`: no cycle is lost without a reason. `HaltIsFinal`: nothing younger than a halt leaves a mark. `ImplementsIsa`: the pipeline refines `Isa`. `IInv`: the inductive invariant of the proofs. `TypeOK`. |
| `pipeline_liveness` | `KeepsCompleting`: the pipeline halts or keeps completing instructions. |
| `single_cycle` | The same `ImplementsIsa` for the single-cycle core; `LatchedHaltIsFinal`; `OnlyMisalignedLoadsLeak`; `BenchReadsCause`: the benches read the cause of the halting instruction, or `HALT_NONE` if that was the first one; `TypeOK`. |
| `lockstep` | `OracleAgrees`: while every instruction has one meaning on both sides and no fetched word was stored to, emulator and core agree on registers, data memory, stop cause and tohost value. Programs over 23 instructions of all kinds. |
| `alu_reference` | `AluAgrees`, `BranchesAgree`, `LanesAgree`: the RTL's arithmetic is the emulator's, for all operands. |
| `runner` | `SameFileSameVerdict`: no state leaks from test to test. `EveryElfLoads`. `GreenIsEarned`: exit code 0 accounts for every selected test. `TraceTellsAll`: replaying the trace records gives the register and memory changes. `RunnerReturns`: `main` returns, also with tests that loop. |
| `encoding_roundtrip` | `ImmediatesSurvive`, `FieldsSurvive`, `ImmGenAgrees`, `SplitAddsUp` around every edge of every field. |
| `assembler` | `LayoutPassAgrees`: for an aligned base the sizing walk and `pass1` agree on the end of `.text`. `ReservedIsFilled`: each line writes the bytes reserved for it. `TargetsResolve`: in the written file, branches, jumps and `call` reach every target that their instruction can express (even offsets; even addresses for `call`, since JALR clears bit 0), `la` leaves any address, odd ones included, in the register it names, and `.word` holds any. `ConstantsLoad`: `li` leaves its value in the register it names. For `li`, `la` and `call` both instructions of the pair are checked to work on that one register. `NothingOverwritten`: no byte of the image is written twice. |
| `encoding_check` | `VerdictIsRight`: exit code 0 exactly when the tables agree, where no Python enum has an alias. |

Three runs end in a counterexample, each to something a comment or a document
says:

- `single_cycle_freeze`: `top.sv` and `docs/architecture.md` say that a halt
  freezes the PC and stops register writes. The enables look at the latch,
  which is set by the edge that ends the halting cycle, so on that edge the PC
  moves on, and a misaligned load writes its destination register.
- `assembler_overlap`: the sizing walk aligns a size that starts at zero,
  `pass1` an address that starts at `text_base`. Where `text_base` is not a
  multiple of the alignment the default `data_base` can lie inside `.text`, and
  the data overwrites instructions.
- `assembler_odd`: `j`, `beqz` and `bnez` accept an odd target, which `jal` and
  the branches refuse, and jump to the byte below it.

Other places where code and text differ shaped the models. They have no run of
their own; the properties above state what holds instead:

- `halt_cause` of the single-cycle core is valid for one cycle. If the first
  instruction of a program halts, the benches' first sample comes after it and
  they read `HALT_NONE` from a halted core (`BenchReadsCause` has this case).
- The comments of `top_pipeline.sv` (71, 84) say that the pipe freezes on a
  halt. ID/EX and IF/ID can still be flushed afterwards, which is harmless:
  `HaltIsFinal` holds.
- `docs/architecture.md` (76) says that emulator and RTL agree as long as a
  program keeps its data clear of its code. A `jalr` to an address with bit 1
  set traps in the emulator, while the RTL fetches the word that holds it; and
  the decoder looks at funct7 only for `F7_ALT`, so it accepts encodings that
  the emulator calls illegal. `OracleAgrees` excludes both (`OneMeaning`).
- The assembler's word list starts at the lowest byte written, not at
  `text_base` (`assemble.py` 792, 862), when the source begins with padding;
  the alias table has `fp` (96), which the comment above it (86) rules out;
  `.align -1` ends in a `ValueError` and not an `AsmError` (818).
- Iterating a Python enum leaves out aliases, so the encoding check does not
  see a second name for a number (`VerdictIsRight` assumes there is none).

### Bounds

Words have 8 bits (`BYTE = 2`: four two-bit bytes), which keeps every lane,
sign and wrap-around case. Registers are x0, x1, x2. Instruction memory has 8
words in a 64-word address space and data memory 2, so aliasing is exercised.
A program is a sequence of instructions from an alphabet, followed by zeroed
memory, which decodes as illegal. `pipeline` takes all programs of four
instructions over each of three alphabets (data hazards; branches and jumps;
every halt cause next to stores, loads and MMIO writes) and all programs of
three over 21 instructions of all kinds; `single_cycle` takes the last set.
Four instructions are what the hazards need: a producer and its consumer at the distances 1, 2 and 3 that the two
forwarding paths and the write-first read serve, with another producer between
them. Loops come from backward branches and from aliasing. Nothing else is
bounded: each run explores all behaviours of its programs, with a reset in any
cycle, and repeated resets with the data memory that earlier executions left.

The emulator runs use the same 8-bit words with 12 words of memory, larger than
the core's 4 instruction and 8 data words so that wrapping around and trapping
both occur. A word of memory is the number of an instruction in a list, so that
a program can overwrite its own code. Runs of 5 steps cover a program of 3
instructions and a loop. The runner has up to five files (one ignored, one
skipped, three run) of seven contents: pass, failing subtest, endless loop, a
trap handler that returns, a test that lacks the boot code and passes only on
stale CSRs, no tohost symbol, no segments; its step limit is 10, its page 16
bytes. Segments are out of order and have gaps.

The encoding sweep takes 96 integers around zero, each end of the 12-, 13-, 20-
and 21-bit fields, the ends of the 32-bit range and two values between; the
proofs remove that bound. The assembler is checked on every source of 4 lines
over 14 layout lines (labels, both sections, alignment, bytes, words, `li`,
`la`, `call`, a branch), every mnemonic with up to 3 operands of 5 kinds, the
ends of every pc-relative field and every form of `.align`, at base 4096, with
the data base free or pinned at 8192. Four lines put data or padding between a
pseudo-instruction, its label and the switch of section. TLC's integers have 32
bits, so operands of more than 31 bits do not occur; `Word32` reduces them in
any case. The encoding check has a package of two enums and a constant, each
one-line edit of it, and five and four variants of the Python classes.

Deadlock is not checked in the runs of the tools: assembler, runner, check and
emulator stop when they are done.

### Fairness

`KeepsCompleting` and `single_cycle_freeze` use `RunSpec`:
weak fairness of the clock edge, with reset low. The benches' clock runs freely
(`Clock(dut.clk, ...).start()`), and they do not touch rst between the release
of reset and the halt. `RunnerReturns` assumes weak fairness of the runner's
next step: a sequential program runs on until it ends. The other safety runs
assume no fairness.

## What is proved

For all values of the constants that satisfy the named assumptions (below):

| Module | Theorems | Statement |
|---|---|---|
| `PipelineProofs` | `TypeCorrect` | `Spec => []TypeOK` |
| | `InvariantHolds` | `TSpec => []IInv`, the inductive invariant |
| | `OperandsCurrent`, `PathIsCorrect`, `OneBubble`, `BubblesEarned`, `HaltFinal` | the properties of `pipeline`, for `TSpec` |
| | `PipelineImplementsIsa` | `TSpec => ImplementsIsa` |
| `SingleCycleProofs` | `SingleCycleTypes`, `SingleCycleHaltFinal`, `SingleCycleLeaks`, `BenchReadsTheCause`, `SingleCycleImplementsIsa` | the properties of `single_cycle` |
| `EmulatorProofs` | `ArithmeticAgrees`, `ConditionsAgree`, `AccessesAgree` | the properties of `alu_reference`, for words of every width (the first: every width that is a power of two) |
| `LockstepProofs` | `LockstepInvariant` | `LSpec => []LockInv`, the inductive invariant |
| | `OracleAlwaysAgrees` | `LSpec => []OracleAgrees`, for every image, memory size and width that is a power of two |
| `RunnerProofs` | `RunnerInvariant` | `RSpec => []RunnerInv`, the inductive invariant |
| | `EmulatorTypes`, `TracesTell`, `RunnerLoads`, `RunnerIsEarned` | `EmuTypeOK`, `TraceTellsAll`, `EveryElfLoads`, `GreenIsEarned` for every directory, filter and file |
| | `VerdictInvariant` | `RSpec => []VerdictInv`: the test in progress is on a run of its own file, each verdict is the end of one |
| | `VerdictIsOfTheFile` | `SameFileSameVerdict` for every directory, filter and file |
| `AssemblerProofs` | `ImmGenOnEveryWord` | for every word with an opcode that has an immediate, `imm_gen(w) = step_imm(w)` |
| | `EveryImmediateSurvives`, `EveryFieldSurvives`, `ImmGenAgreesAlways`, `SplitAlwaysAddsUp` | the properties of `encoding_roundtrip`, for every integer `v` |
| | `AsmInvariant` | `Spec => []AsmInv`, the inductive invariant |
| | `AsmTypes`, `LayoutsAgree`, `EveryByteReserved` | `AsmTypeOK`, `LayoutPassAgrees`, `ReservedIsFilled` for every source |
| | `NoOverwriting`, `EveryConstantLoads`, `EveryTargetIsReached` | `NothingOverwritten`, `ConstantsLoad`, `TargetsResolve` for every source under `DefaultLayout` |
| `EncodingCheckProofs` | `CheckInvariant`, `VerdictAlwaysRight` | the inductive invariant, and `VerdictIsRight` for files of any size |

**Assumptions.** Each is an `ASSUME` of the module that declares the constants,
and TLC evaluates it in the runs.

- Cores (`RiscvPkg`, `Units`, `PipelineTrace`): `Zero` is a word; there is at
  least one register; the units return words and indices; `ALU_PASS_B` returns
  its second operand; the images have the type of memories; `NoPc` is no word.
- `Datapath`: a byte has at least one bit, the memory depths are powers of two.
  `PowersOfTwo` (and `AlignPowers` of `Assembler`) are arithmetic: the
  provers do not know that `2^(n+1) = 2 * 2^n`.
- `Emulator`, `FieldsAssumption`: every word splits into fields of their types,
  and a register number is the value of a word (it is the immediate of a CSR
  instruction).
- `Lockstep`: `MemAssumption`, the images fill the emulator's memory with words;
  `DatapathAssumption`, the core's operators, left open in the proofs about the
  cores, are those of `Datapath`; `BenchAssumption`, the set-up of the benches:
  execution starts at zero, where `tb/program/test_programs.py` loads the image
  on both sides; both memories of the core (1024 and 4096 words) lie within the
  64 KiB of the emulator; the tohost and UART addresses (`0x8000_1000`,
  `0xFFFF_0000`) are multiples of 4 beyond the data memory.
- `Runner`: the directory is finite, ELF segments are bytes at word addresses.
- `Assembler`: a source is a finite sequence of lines of tokens, bases are
  naturals; `NoneAssumption`: the mark for a missing mnemonic is no mnemonic.
- `EncodingCheck`: the types of the files; of what a compiler and the
  interpreter demand, that a name is defined once, that no parameter is
  declared inside an enum, and that the enum classes have members. Packages
  with unbalanced or missing openers and closers are included.

Two hypotheses are not assumptions of a module but stand in the theorems that
need them. `WidthIsPower` (the word width divides a power of two), of
`ArithmeticAgrees` and the lockstep, is needed because the emulator masks the *signed*
immediate for a shift: `imm & 0x1F` is the remainder by the width for a negative
number too, which agrees with the slice of the word only if the width divides
2^width. `DefaultLayout`, of the three theorems on the written file, (text base a multiple of 4096, data base not pinned) is the
command line with its default base; `assembler_overlap` shows that with other
bases bytes can be overwritten, and then nothing can be said of the file.

**The pipeline's invariant.** None of the properties is inductive. `IInv` adds
to them what each stage holds: `IdSlot`, `ExSlot` and `MemSlot` say that the
contents of IF/ID, ID/EX and EX/MEM are those of the instruction at the
recorded address, or inert; `FreshReads` says that the operands latched in ID
equal the register file *now*, which is what the write-first read buys: a
write that lands while an instruction is in ID is caught there, and one that
lands later comes from MEM or WB and is forwarded; `LoadUse` says that no
instruction in EX reads what a load in MEM is still fetching; `FetchFollows`
says that the fetch address is the fall-through of the instruction in ID;
`HaltLatched` ties the latch to the cause. An edge either leaves the back of
the pipeline alone (`FrozenEdge`) or moves each slot one stage on
(`RunningEdge`), and the proof has one lemma per slot for the second case.
`CorrectPath` rests on `BranchDecidesRight`: a branch that is not stalled
compares the values `RegsForEx` gives it.

**The refinement.** An instruction takes effect on the edge that moves it from
MEM to WB. The abstract registers are the register file with the write pending
in WB, unless WB holds the instruction that halted; the abstract PC is the
oldest instruction not yet in WB. An edge with a bubble in MEM is a stuttering
step, one with an instruction in MEM is `Execute` or `Halt`. `CorrectPath`
gives the abstract PC its next value.

For the single-cycle core the abstract state is the concrete one while it runs,
and what could be seen in the cycle in which `halted` rose after that; the
invariant says that the history is filled in exactly when the latch is set.
`OnlyMisalignedLoadsLeak` follows from the decoder: every other halting
instruction has `reg_write` low. `BenchReadsCause` needs an invariant of its own, `BenchInv`, which says what
`tb` holds before, on and after the edge that sets the latch.
`AluComputesTargets` is the fact about the decoder it needs: for branches and
jumps the ALU computes the target. The mapping is what makes the theorem
compatible with `single_cycle_freeze`: the registers read *after* the halting
edge may differ from those of the sequential machine.

Since both cores refine `Isa`, they agree with each other on every program, up
to and including the cycle in which `halted` rises. The pipeline is frozen from
then on; the single-cycle core may still write the destination of a misaligned
load on the edge that ends that cycle.

**The encodings.** The invariant is only that the swept value is an integer;
the work is in the lemmas. `Cut12` to `Cut21` say that the slices of a number
(its quotients and remainders by the powers of two at which a format cuts) add
up to the number, `Sext12` to `Sext21` that sign extension undoes `fit_signed`,
`RoundTripI` to `RoundTripU` put these together per format, `GenI` to `GenJ`
compare the decoders with `imm_gen.sv` on every word, and `CutAndAdd` is the
carry of the upper/lower split. `EncodingSweep` assumes only that the windows
are integers.

**The emulator.** A word is four digits to the base 2^BYTE (`Number`,
`NumberBytes`, `WordDigits`), and every load, store and lane is said in digits
(`LaneIs`, `StoreAgrees`). `ExtendAgrees` compares the two sign extensions;
`SignedWord`, `SumOfSigned` and `ShiftOfSigned` say that going through signed
Python integers and back loses nothing. Bitwise operations are typed by
`FromBitsType`, an induction over the bits. `StepKeeps` and `StepTells` are the
step of the emulator, one case per action: it keeps `EmuInv` (types, a
contiguous memory of bytes, no tohost value before the halt), and its trace
replays to the new state.

**The lockstep.** `OracleAgrees` is not inductive: the emulator fetches from the
memory it also stores to, the core from one that never changes. `LockInv` adds
`CodeAgrees`: every word of the emulator's memory that was not stored to still
decodes to the instruction the core would fetch. `WindowWord`, `WindowLoad` and
`WindowStore` relate the two memories: the bytes 4k to 4k+3 are a word of the
core, loads read a lane of it, a store is the merge of `data_memory.sv` there
and leaves every other window alone. With these, each part of an instruction is
compared once: the address and its misalignment (`AddressAgrees`,
`AccessAgrees`), the next PC (`NextPcAgrees`, where the emulator's `target & ~1`
meets the core's `ClearBit0`), the written value (`UpperAgrees`, `ArithAgrees`,
`LoadsAgree`), and the decision to stop (`HaltAgrees`), which must be the same
on both sides with the same cause. `StepAgrees` puts them together, one case per
action of the emulator, and `LockKeeps` discharges the steps after which nothing
is claimed: `shared` never becomes true again, and a fetched word that was
stored to stays so. Since the machine on the core's side is `Isa`, the
theorem and the two refinements together say that each core agrees with the
emulator at every instruction boundary, up to the cycle in which `halted` rises.

**The runner.** `RunnerInv` is `EmuInv` and `BookInv`: passes and failures add
up to the number of tests done that are not skipped, the skips are the skipped
names behind the scan (`Balanced`), and the phase is never the one of a crash.
For the last, `Base` and `Top` are the least and greatest addresses of a finite
set of segments (`MinIsLeast`, `MaxOfBounded`), and the page-aligned size is at
least their distance.

`SameFileSameVerdict` compares two tests of one behaviour, at different times,
so no invariant on the current emulator alone implies it. `After(s)` is `step`
written as a function of the emulator's value, and `StepIsFunction` says, one
case per action, that `Step` computes it: nothing else is read. A run of a file
is a sequence of such values from `Boot(elf)`, and two runs of one file agree
as far as both go (`OneRun`) and end alike (`OneEnd`). `VerdictInv` says that
the test in progress is on a run of its file, and that every verdict so far is
the end of a run of its file; starting a test is where `Boot` has to hold, so a
CSR or byte left over from the previous test would break it.

**The assembler.** Three walks over the lines are three stages of `AsmInv`:
`WalkInv` says what the sizing walk and `pass1` have computed when they reach
line `k`, in terms of the lines before it, so that both agree at the end
(`LayoutPassAgrees`), and `ReservedIsFilled` that the image is what the lines
before `k` reserved. `NothingOverwritten` adds `OrderInv` (addresses grow within
a section) and `LayoutInv` (the data section starts behind the text). For what
the written file says, `ContentInv` carries along that each line already
encoded is still held by the image, byte for byte: later lines do not
overwrite it. The rest is per mnemonic: the bytes read back are the packed word,
and by the lemmas on the encodings its immediate is the one the line asked
for; `BuildsShort` and `BuildsLong` read the register fields of a pair back, and
`JalrEven` says that an even target survives JALR.

**The encoding check.** `CheckInv`: an error has been noted exactly when one of
the tables compared so far has drifted. `MemberIsFound` and `ParsedIsTable` say
that the scan (first closer, nearest opener above it) delimits the enum that the
compiler sees, `RaisedIsDrift` that it raises only where the tables differ,
`StripPrefix` and `AddPrefix` that removing the prefix loses nothing.

**Induction.** The library's induction theorems take an operator as a parameter
and cannot be instantiated here. Where a proof needs induction over numbers
(bits of a word, lines of a source), it takes the least counterexample: `Least`
gets it from the well-foundedness of `<` on the naturals, which has no such
parameter.

**Only model-checked.** Every invariant and action property that a passing run
checks is also a theorem. What is left to TLC:

- liveness (`KeepsCompleting`, `RunnerReturns`): out of the prover's reach;
- what the three counterexample runs refute.

## What is not modelled, and why

- In the core and emulator models, the bit layout of instructions: there an
  instruction is the record of its fields, and `Encoding` shows that the
  records and the words correspond.
- The lexical level of the assembler: comments, letter case, the notation of
  numbers (prefixes, underscores), the regular expressions that split a line.
  A token is a name, an integer or neither.
- What pyelftools does with a file, and errors of the file system other than
  a source that cannot be read.
- The UART output byte: a store to the UART address is modelled as a store that
  leaves memory alone. The strobe is a combinational output.
- `$readmemh`, plusargs, waveforms: the memories start with arbitrary contents.
- Unknown values: both cores are modelled from the first reset on. The benches
  hold rst for two edges before they look at anything.
- The benchmark list, build scripts, the counter demo: data, drivers of
  external tools, or not part of a core.

## Plan

Done: the two cores, their abstract machine and its proofs; the emulator, its
arithmetic against that of the RTL, and its lockstep with the cores; encodings,
assembler, runner and encoding check; proofs of all their safety properties.

Left: UART output in `Isa` and both cores: each UART store emits exactly once.
