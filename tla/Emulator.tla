------------------------------ MODULE Emulator ------------------------------
(***************************************************************************)
(* The reference emulator, class RV32I of tools/refmodel/rv32i_emu.py: the *)
(* oracle that both cores are compared with.  The variables are the        *)
(* attributes of one instance; each arm of step() is an action; run() is   *)
(* the guard Running.  A Trap is an exception: it leaves the attributes as *)
(* they are and ends run(), so it is recorded and nothing happens after.   *)
(*                                                                         *)
(* Instructions and data share one array of bytes.  InstOf gives the       *)
(* fields of an instruction word (module Encoding says which); the         *)
(* immediate in them is a word here, and imm is the integer it stands for. *)
(***************************************************************************)
EXTENDS EmuArith

CONSTANTS
  InstOf(_),    \* the fields of an instruction word
  MAX_STEPS     \* the argument of run()

ASSUME StepsAssumption == MAX_STEPS \in Nat

(* Every word splits into fields; a register field is also the immediate   *)
(* of a CSR instruction, so it is a value of a word.                       *)
ASSUME FieldsAssumption ==
  /\ \A w \in RtlWord :
       InstOf(w) \in [op: Opcode, f3: Funct3, f7: Funct7, f12: Funct12,
                      rd: Reg, rs1: Reg, rs2: Reg, imm: RtlWord]
  /\ NREGS <= 2^XLEN

VARIABLES
  regs, pc,
  mem,             \* address -> byte, on [mem_base, mem_base + len(mem))
  csrs,            \* CSR address -> word; absent entries read as zero
  tohost_addr, trap_on_ecall,
  tohost_value, halted, halt_reason, steps,
  trap,            \* kind of the Trap that ended run(), or "none"
  trace            \* the StepTrace of the last step

emuVars == <<regs, pc, mem, csrs, tohost_addr, trap_on_ecall, tohost_value,
             halted, halt_reason, steps, trap, trace>>

NoWrite == <<>>    \* an absent rd_write or mem_write

(* RV32I(...) followed by load_program: m is the loaded memory.            *)
PowerOn(m, start, tohost, traps) ==
  /\ regs = [x \in Reg |-> 0]
  /\ pc = start
  /\ mem = m
  /\ csrs = [x \in Funct12 |-> 0]
  /\ tohost_addr = tohost
  /\ trap_on_ecall = traps
  /\ tohost_value = NoWrite
  /\ halted = FALSE
  /\ halt_reason = "none"
  /\ steps = 0
  /\ trap = "none"
  /\ trace = [rd_write |-> NoWrite, mem_write |-> NoWrite]

(* Mutant of FreshCpu: the CSRs of the last test stay.                     *)
FreshCpuKeepsCsrs(m, start, tohost, traps) ==
  /\ regs' = [x \in Reg |-> 0]
  /\ pc' = start
  /\ mem' = m
  /\ tohost_addr' = tohost
  /\ trap_on_ecall' = traps
  /\ tohost_value' = NoWrite
  /\ halted' = FALSE
  /\ halt_reason' = "none"
  /\ steps' = 0
  /\ trap' = "none"
  /\ trace' = [rd_write |-> NoWrite, mem_write |-> NoWrite]
  /\ UNCHANGED csrs

(* The same as a step: a fresh instance replaces the old one.              *)
FreshCpu(m, start, tohost, traps) ==
  /\ regs' = [x \in Reg |-> 0]
  /\ pc' = start
  /\ mem' = m
  /\ csrs' = [x \in Funct12 |-> 0]
  /\ tohost_addr' = tohost
  /\ trap_on_ecall' = traps
  /\ tohost_value' = NoWrite
  /\ halted' = FALSE
  /\ halt_reason' = "none"
  /\ steps' = 0
  /\ trap' = "none"
  /\ trace' = [rd_write |-> NoWrite, mem_write |-> NoWrite]

(***************************************************************************)
(* Registers and memory.                                                   *)
(***************************************************************************)
r(idx) == IF idx = 0 THEN 0 ELSE regs[idx]

(* Mutant of wr: the result is not masked to a word.                       *)
wr_unmasked(idx, value) == IF idx = 0 THEN regs ELSE [regs EXCEPT ![idx] = value]

wr(idx, value) == IF idx = 0 THEN regs ELSE [regs EXCEPT ![idx] = u32(value)]

InRange(addr, size) == addr \in DOMAIN mem /\ addr + size - 1 \in DOMAIN mem

FetchTrap ==
  IF pc % 4 # 0 THEN "misaligned-fetch"
  ELSE IF ~InRange(pc, 4) THEN "mem-range" ELSE "none"

LoadTrap(addr, size) ==
  IF SizeMisaligned(addr, size) THEN "misaligned-load"
  ELSE IF ~InRange(addr, size) THEN "mem-range" ELSE "none"

(* The tohost address is looked at before alignment and range.             *)
StoreTrap(addr, size) ==
  IF addr = tohost_addr THEN "none"
  ELSE IF SizeMisaligned(addr, size) THEN "misaligned-store"
  ELSE IF ~InRange(addr, size) THEN "mem-range" ELSE "none"

(***************************************************************************)
(* The instruction at pc.                                                  *)
(***************************************************************************)
inst == InstOf(LoadBytes(mem, pc, 4))
imm == s32(inst.imm)
rs1_val == r(inst.rs1)
rs2_val == r(inst.rs2)
data_addr == u32(rs1_val + imm)                    \* of a load or a store
data_size == CASE inst.f3 \in {0, 4} -> 1
               [] inst.f3 \in {1, 5} -> 2
               [] OTHER              -> 4
link == u32(pc + 4)

(* The address a jump or a taken branch goes to.                           *)
target == IF inst.op = "OP_JALR" THEN u32((rs1_val + imm) - ((rs1_val + imm) % 2))
          ELSE u32(pc + imm)
taken == inst.f3 \in F3Branch /\ BranchTaken(inst.f3, rs1_val, rs2_val)

TargetTrap == IF target % 4 # 0 THEN "misaligned-fetch" ELSE "none"
IllegalIf(cond) == IF cond THEN "illegal" ELSE "none"

(* The Trap that step() raises, if any.                                    *)
Raised ==
  IF FetchTrap # "none" THEN FetchTrap ELSE
  CASE inst.op \in {"OP_JAL", "OP_JALR"} -> TargetTrap
    [] inst.op = "OP_BRANCH" -> IF inst.f3 \notin F3Branch THEN "illegal"
                                ELSE IF taken THEN TargetTrap ELSE "none"
    [] inst.op = "OP_LOAD"   -> IF inst.f3 \notin F3Load THEN "illegal"
                                ELSE LoadTrap(data_addr, data_size)
    [] inst.op = "OP_STORE"  -> IF inst.f3 \notin F3Store THEN "illegal"
                                ELSE StoreTrap(data_addr, data_size)
    [] inst.op = "OP_IMM"    -> IllegalIf(AluImmIllegal(inst.f3, inst.f7))
    [] inst.op = "OP_REG"    -> IllegalIf(AluRegIllegal(inst.f3, inst.f7))
    [] inst.op = "OP_SYSTEM" ->
         IllegalIf(\/ inst.f3 = 4
                   \/ /\ inst.f3 = 0
                      /\ inst.f12 \notin {"F12_ECALL", "F12_EBREAK",
                                          "F12_MRET", "F12_WFI"})
    [] OTHER                 -> IllegalIf(inst.op = "OP_OTHER")

(***************************************************************************)
(* step() and run().                                                       *)
(***************************************************************************)
Running == ~halted /\ trap = "none" /\ steps < MAX_STEPS

Executes(op) ==
  Running /\ FetchTrap = "none" /\ inst.op = op /\ Raised = "none"

(* Mutant of WritesRd: the CSR instructions are forgotten.                 *)
WritesRdNoCsr == {"OP_LUI", "OP_AUIPC", "OP_JAL", "OP_JALR", "OP_LOAD",
                  "OP_IMM", "OP_REG"}

(* The instructions whose rd the trace reports.                            *)
WritesRd == {"OP_LUI", "OP_AUIPC", "OP_JAL", "OP_JALR", "OP_LOAD", "OP_IMM",
             "OP_REG", "OP_SYSTEM"}

(* Mutant of Retire: the step is not counted.                              *)
RetireUncounted(next_pc, mem_write) ==
  /\ trace' = [rd_write |-> IF inst.rd # 0 /\ inst.op \in WritesRd
                            THEN <<inst.rd, regs'[inst.rd]>> ELSE NoWrite,
               mem_write |-> mem_write]
  /\ pc' = next_pc
  /\ UNCHANGED <<tohost_addr, trap_on_ecall, trap, steps>>

(* The end of step(): the trace record, the PC and the step count.         *)
Retire(next_pc, mem_write) ==
  /\ trace' = [rd_write |-> IF inst.rd # 0 /\ inst.op \in WritesRd
                            THEN <<inst.rd, regs'[inst.rd]>> ELSE NoWrite,
               mem_write |-> mem_write]
  /\ pc' = next_pc
  /\ steps' = steps + 1
  /\ UNCHANGED <<tohost_addr, trap_on_ecall, trap>>

KeepsRunning == UNCHANGED <<halted, halt_reason, tohost_value>>

(* An instruction whose only effects are on a register and on the PC.      *)
Computes(op, value, next_pc) ==
  /\ Executes(op)
  /\ regs' = wr(inst.rd, value)
  /\ UNCHANGED <<mem, csrs>>
  /\ KeepsRunning
  /\ Retire(next_pc, NoWrite)

Lui   == Computes("OP_LUI", imm, link)
Auipc == Computes("OP_AUIPC", pc + imm, link)
Jal   == Computes("OP_JAL", link, target)
Jalr  == Computes("OP_JALR", link, target)
Load  == Computes("OP_LOAD",
                  LoadValue(mem, data_addr, data_size, inst.f3 \in {0, 1}), link)
AluI  == Computes("OP_IMM", _alu_imm(inst.f3, inst.f7, rs1_val, imm), link)
AluR  == Computes("OP_REG", _alu_reg(inst.f3, inst.f7, rs1_val, rs2_val), link)

(* Branches and fences touch no register.                                  *)
Branch ==
  /\ Executes("OP_BRANCH")
  /\ UNCHANGED <<regs, mem, csrs>>
  /\ KeepsRunning
  /\ Retire(IF taken THEN target ELSE link, NoWrite)

Fence ==
  /\ Executes("OP_FENCE")
  /\ UNCHANGED <<regs, mem, csrs>>
  /\ KeepsRunning
  /\ Retire(link, NoWrite)

Store ==
  /\ Executes("OP_STORE")
  /\ data_addr # tohost_addr
  /\ mem' = StoreBytes(mem, data_addr, rs2_val, data_size)
  /\ UNCHANGED <<regs, csrs>>
  /\ KeepsRunning
  /\ Retire(link, <<data_addr, rs2_val, data_size>>)

(* A store to tohost publishes the register and halts, at any size.        *)
StoreTohost ==
  /\ Executes("OP_STORE")
  /\ data_addr = tohost_addr
  /\ tohost_value' = <<rs2_val>>
  /\ halted' = TRUE
  /\ halt_reason' = IF rs2_val = 1 THEN "tohost-pass" ELSE "tohost-fail"
  /\ UNCHANGED <<regs, mem, csrs>>
  /\ Retire(link, <<data_addr, rs2_val, data_size>>)

Priv(f12) == Executes("OP_SYSTEM") /\ inst.f3 = 0 /\ inst.f12 = f12

(* ECALL and EBREAK without trap_on_ecall.                                 *)
EnvHalt(f12, reason) ==
  /\ Priv(f12)
  /\ ~trap_on_ecall
  /\ halted' = TRUE
  /\ halt_reason' = reason
  /\ UNCHANGED <<regs, mem, csrs, tohost_value>>
  /\ Retire(link, NoWrite)

(* _take_trap: mepc and mcause, then mtvec with its low two bits cleared.  *)
EnvTrap(f12, cause) ==
  /\ Priv(f12)
  /\ trap_on_ecall
  /\ csrs' = [csrs EXCEPT !["F12_MEPC"] = pc, !["F12_MCAUSE"] = cause]
  /\ UNCHANGED <<regs, mem>>
  /\ KeepsRunning
  /\ Retire(csrs["F12_MTVEC"] - (csrs["F12_MTVEC"] % 4), NoWrite)

CAUSE_BREAKPOINT == 3
CAUSE_ECALL_M    == 11

Ecall  == EnvHalt("F12_ECALL", "ecall") \/ EnvTrap("F12_ECALL", CAUSE_ECALL_M)
Ebreak == EnvHalt("F12_EBREAK", "ebreak") \/ EnvTrap("F12_EBREAK", CAUSE_BREAKPOINT)

Mret ==
  /\ Priv("F12_MRET")
  /\ UNCHANGED <<regs, mem, csrs>>
  /\ KeepsRunning
  /\ Retire(u32(csrs["F12_MEPC"]), NoWrite)

Wfi ==
  /\ Priv("F12_WFI")
  /\ UNCHANGED <<regs, mem, csrs>>
  /\ KeepsRunning
  /\ Retire(link, NoWrite)

(* Zicsr: funct3 bit 2 selects the immediate form, the low bits W, S or C; *)
(* S and C do not write when the source is zero.                           *)
Csr ==
  LET src == IF inst.f3 >= 4 THEN inst.rs1 ELSE rs1_val
      op  == inst.f3 % 4
      old == csrs[inst.f12]
  IN  /\ Executes("OP_SYSTEM")
      /\ inst.f3 # 0
      /\ csrs' = IF op = 1 THEN [csrs EXCEPT ![inst.f12] = src]
                 ELSE IF src = 0 THEN csrs
                 ELSE IF op = 2 THEN [csrs EXCEPT ![inst.f12] = PyOr(old, src)]
                 ELSE [csrs EXCEPT ![inst.f12] = PyAnd(old, -1 - src)]
      /\ regs' = wr(inst.rd, old)
      /\ UNCHANGED mem
      /\ KeepsRunning
      /\ Retire(link, NoWrite)

RaiseTrap ==
  /\ Running
  /\ Raised # "none"
  /\ trap' = Raised
  /\ UNCHANGED <<regs, pc, mem, csrs, tohost_addr, trap_on_ecall, tohost_value,
                 halted, halt_reason, steps, trace>>

Step ==
  \/ Lui \/ Auipc \/ Jal \/ Jalr \/ Branch \/ Load \/ Store \/ StoreTohost
  \/ AluI \/ AluR \/ Fence \/ Ecall \/ Ebreak \/ Mret \/ Wfi \/ Csr
  \/ RaiseTrap

(* What run() returns, or the kind of the exception it lets through.       *)
RunResult ==
  IF trap # "none" THEN trap
  ELSE IF halted THEN halt_reason
  ELSE IF steps >= MAX_STEPS THEN "step-limit" ELSE "running"

-----------------------------------------------------------------------------
(* Every register and CSR holds a word, every byte of memory a byte.        *)
EmuTypeOK ==
  /\ regs \in [Reg -> RtlWord]
  /\ pc \in RtlWord
  /\ \A x \in DOMAIN mem : mem[x] \in 0 .. (2^BYTE - 1)
  /\ csrs \in [Funct12 -> RtlWord]
  /\ halted \in BOOLEAN
  /\ halt_reason \in {"none", "ecall", "ebreak", "tohost-pass", "tohost-fail"}
  /\ trap \in {"none", "illegal", "mem-range", "misaligned-fetch",
               "misaligned-load", "misaligned-store"}
  /\ steps \in 0 .. MAX_STEPS
  /\ trap_on_ecall \in BOOLEAN

(* The trace of a step tells a reader who only follows traces everything:  *)
(* the registers after the step are those before it with rd_write applied, *)
(* memory is the one before with mem_write applied, unless it was a tohost *)
(* store (StepTrace, "per-step trace record used for RTL lockstep").       *)
Replayed(x, w) == IF w = NoWrite THEN x ELSE [x EXCEPT ![w[1]] = w[2]]

TraceTellsAll ==
  [][steps' = steps + 1 =>
       /\ regs' = Replayed(regs, trace'.rd_write)
       /\ mem' = IF trace'.mem_write = NoWrite \/ tohost_value' # tohost_value
                 THEN mem
                 ELSE StoreBytes(mem, trace'.mem_write[1], trace'.mem_write[2],
                                 trace'.mem_write[3])]_emuVars
=============================================================================
