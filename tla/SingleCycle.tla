----------------------------- MODULE SingleCycle ----------------------------
(***************************************************************************)
(* The single-cycle core (rtl/top.sv): one instruction per clock edge.     *)
(*                                                                         *)
(* halted rises in the cycle in which the halting instruction is fetched,  *)
(* before the edge that executes it, and halt_cause is valid in that cycle *)
(* only.  Two observers are part of the model: `seen` is what is readable  *)
(* in the cycle halted rises, and `tb` is the cause the test benches       *)
(* sample, which they do after every clock edge with rst low.              *)
(***************************************************************************)
EXTENDS Units

VARIABLES
  imem, dmem,   \* the two memories
  pc,           \* pc_register
  regs,         \* reg_file: xregs
  halted_q,     \* the halt latch
  seen,         \* history: [pc, regs, cause, tohost] in the cycle halted rose
  tb            \* the cause the test bench sampled, "RUNNING" before

vars == <<imem, dmem, pc, regs, halted_q, seen, tb>>

Seen == [pc: Word, regs: [XReg -> Word], cause: HaltCause, tohost: Word]
NotSeen == [pc |-> PC_RESET, regs |-> [r \in XReg |-> Zero],
            cause |-> "HC_NONE", tohost |-> Zero]

Init ==
  /\ imem \in Programs
  /\ dmem \in DataImages
  /\ pc = PC_RESET
  /\ regs = [r \in XReg |-> Zero]
  /\ halted_q = FALSE
  /\ seen = NotSeen
  /\ tb = "RUNNING"

(***************************************************************************)
(* The combinational datapath.                                             *)
(***************************************************************************)
inst    == imem[ImemIdx(pc)]
ctrl    == Decode(inst)
rs1_val == RegRead(regs, inst.rs1)
rs2_val == RegRead(regs, inst.rs2)
alu_y   == AluY(ctrl, pc, inst.imm, rs1_val, rs2_val)

(* Mutants: the latch does not gate the store, or the register write.      *)
mem_write_ungated == ctrl.mem_write
reg_we_ungated    == ctrl.reg_write

mem_write       == ctrl.mem_write /\ ~halted_q
dmem_misaligned == Misaligned(ctrl.mem_read, mem_write, ctrl.mem_size, alu_y)
tohost_we       == mem_write /\ IsTohost(alu_y)
wb_data         == WbData(ctrl.wb_src, alu_y, MemRead(dmem, ctrl, alu_y), Plus4(pc))
reg_we          == ctrl.reg_write /\ ~halted_q

(* Mutant of next_pc: JALR keeps bit 0 of its target.                      *)
next_pc_odd ==
  IF Taken(ctrl.branch_op, rs1_val, rs2_val) THEN alu_y ELSE Plus4(pc)

(* The ALU computes the targets: PC + imm, or rs1 + imm with bit 0 clear.  *)
next_pc ==
  IF Taken(ctrl.branch_op, rs1_val, rs2_val)
  THEN IF ctrl.jalr THEN ClearBit0(alu_y) ELSE alu_y
  ELSE Plus4(pc)

halt_cause ==
  IF halted_q THEN "HC_NONE"
  ELSE IF ctrl.illegal THEN "HC_ILLEGAL"
  ELSE IF dmem_misaligned THEN "HC_MISALIGNED"
  ELSE IF IsSystem(inst) /\ inst.f12 = "F12_ECALL" THEN "HC_ECALL"
  ELSE IF IsSystem(inst) /\ inst.f12 = "F12_EBREAK" THEN "HC_EBREAK"
  ELSE IF tohost_we THEN "HC_TOHOST"
  ELSE "HC_NONE"

halt_now == halt_cause # "HC_NONE"
halted   == halted_q \/ halt_now

(***************************************************************************)
(* The clock edges.                                                        *)
(***************************************************************************)
ClockCore ==
  /\ pc' = IF ~halted_q THEN next_pc ELSE pc
  /\ regs' = RegWrite(regs, reg_we, inst.rd, wb_data)
  /\ dmem' = MemWrite(dmem, mem_write, ctrl.mem_size, alu_y, rs2_val)
  /\ halted_q' = (halted_q \/ halt_now)
  /\ UNCHANGED imem

Observe ==
  seen' = IF halt_now
          THEN [pc |-> pc, regs |-> regs, cause |-> halt_cause,
                tohost |-> IF tohost_we THEN rs2_val ELSE Zero]
          ELSE seen

(* Mutant of Sample: the bench looks at the cause one cycle late.          *)
SampleLate == tb' = IF tb = "RUNNING" /\ halted THEN halt_cause' ELSE tb

(* The loop of the test benches: the first sample with halted up ends it.  *)
Sample == tb' = IF tb = "RUNNING" /\ halted' THEN halt_cause' ELSE tb

Cycle == ClockCore /\ Observe /\ Sample

(* rst high: registers only; the bench starts over.                        *)
Reset ==
  /\ pc' = PC_RESET
  /\ regs' = [r \in XReg |-> Zero]
  /\ halted_q' = FALSE
  /\ seen' = NotSeen
  /\ tb' = "RUNNING"
  /\ UNCHANGED <<imem, dmem>>

Next == Cycle \/ Reset

Spec == Init /\ [][Next]_vars

(* A run after the last reset: the clock never stops.                      *)
RunSpec == Init /\ [][Cycle]_vars /\ WF_vars(Cycle)

(***************************************************************************)
(* Properties.                                                             *)
(***************************************************************************)

(* Every register and memory holds a value of its type.                    *)
TypeOK ==
  /\ imem \in [IMemIdx -> Inst]
  /\ dmem \in [DMemIdx -> Word]
  /\ pc \in Word
  /\ regs \in [XReg -> Word]
  /\ halted_q \in BOOLEAN
  /\ seen \in Seen
  /\ tb \in HaltCause \cup {"RUNNING"}

(* Once the halt latch is set nothing moves until a reset: the frozen PC   *)
(* cannot commit its instruction again and again (top.sv:183-185).         *)
LatchedHaltIsFinal ==
  [][halted_q => UNCHANGED <<dmem, pc, regs, halted_q>> \/ Reset]_vars

(* The machine as it is visible while running, and in the cycle halted     *)
(* rises once it has stopped.                                              *)
A == INSTANCE Isa WITH pc <- IF halted_q THEN seen.pc ELSE pc,
                       regs <- IF halted_q THEN seen.regs ELSE regs,
                       cause <- seen.cause, tohost <- seen.tohost

(* The single-cycle core executes one instruction per edge and its halts   *)
(* are precise for an observer of the cycle in which halted rises.         *)
ImplementsIsa == A!IsaSpec

(* "Halt: a recognizable stop condition freezes the PC and stops register  *)
(* writes, then raises `halted`" (top.sv:17-18).                           *)
HaltFreezesPcAndRegs ==
  [][halted => UNCHANGED <<pc, regs>> \/ Reset]_vars

(* halt_cause is valid for one cycle (top.sv:231), so what the bench reads *)
(* depends on when it looks: it gets the cause of the instruction that     *)
(* halted, or HALT_NONE if that was the first one after the reset, which   *)
(* had halted before the first sample (tb/top/test_top.py:80-88).          *)
BenchReadsCause ==
  tb # "RUNNING" /\ halted_q =>
    IF tb = "HC_NONE" THEN seen.pc = PC_RESET ELSE tb = seen.cause

(* With misaligned loads out of the program, the halting edge leaves the   *)
(* registers alone too: every other halting instruction has reg_write low. *)
OnlyMisalignedLoadsLeak ==
  [][halted /\ regs' # regs => Reset \/ (ctrl.mem_read /\ dmem_misaligned)]_vars
=============================================================================
