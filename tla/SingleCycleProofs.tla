-------------------------- MODULE SingleCycleProofs -------------------------
(***************************************************************************)
(* Theorems about the single-cycle core, for every word width, every ALU,  *)
(* every number of registers and every program: it is well-typed, its halt *)
(* latch is final, and it implements module Isa.                           *)
(***************************************************************************)
EXTENDS SingleCycle, UnitsProofs

(* The signals of a well-typed core.                                       *)
LEMMA SignalTypes ==
  ASSUME TypeOK
  PROVE  /\ inst \in Inst /\ inst.rs1 \in Reg /\ inst.rs2 \in Reg /\ inst.rd \in Reg
         /\ inst.imm \in Word /\ ctrl \in Control
         /\ rs1_val \in Word /\ rs2_val \in Word /\ alu_y \in Word
         /\ wb_data \in Word /\ next_pc \in Word
         /\ halt_cause \in HaltCause
<1>1. inst \in Inst
  BY AddressAssumption DEF TypeOK, inst
<1>2. /\ inst.rs1 \in Reg /\ inst.rs2 \in Reg /\ inst.rd \in Reg
      /\ inst.imm \in Word
  BY <1>1 DEF Inst
<1>3. ctrl \in Control
  BY <1>1, DecodeType DEF ctrl
<1>4. rs1_val \in Word /\ rs2_val \in Word
  BY <1>2, RegFileType DEF rs1_val, rs2_val, TypeOK
<1>5. alu_y \in Word
  BY <1>2, <1>3, <1>4, AluYType DEF alu_y, TypeOK
<1>6. MemRead(dmem, ctrl, alu_y) \in Word
  BY <1>3, <1>5, MemoryType DEF TypeOK
<1>7. Plus4(pc) \in Word /\ ClearBit0(alu_y) \in Word
  BY <1>5, AddressAssumption DEF TypeOK
<1>8. wb_data \in Word
  BY <1>5, <1>6, <1>7, WbDataType DEF wb_data
<1>9. next_pc \in Word
  BY <1>5, <1>7 DEF next_pc
<1>10. halt_cause \in HaltCause
  BY DEF halt_cause, HaltCause
<1>11. QED
  BY <1>1, <1>2, <1>3, <1>4, <1>5, <1>8, <1>9, <1>10

(* What a reset leaves is well-typed.                                      *)
LEMMA ResetTypes ==
  /\ PC_RESET \in Word
  /\ [r \in XReg |-> Zero] \in [XReg -> Word]
  /\ NotSeen \in Seen
  BY ZeroAssumption, AddressAssumption DEF NotSeen, Seen, HaltCause

(* Every step keeps the state in its type.                                 *)
LEMMA TypeStep == TypeOK /\ [Next]_vars => TypeOK'
<1> SUFFICES ASSUME TypeOK, [Next]_vars PROVE TypeOK'
  OBVIOUS
<1>1. CASE UNCHANGED vars
  BY <1>1 DEF vars, TypeOK
<1>2. CASE Reset
  BY <1>2, ResetTypes DEF Reset, TypeOK
<1>3. CASE Cycle
  <2> USE SignalTypes
  <2>1. pc' \in Word /\ imem' \in [IMemIdx -> Inst] /\ halted_q' \in BOOLEAN
    BY <1>3 DEF Cycle, ClockCore, TypeOK
  <2>2. regs' \in [XReg -> Word]
    BY <1>3, RegFileType DEF Cycle, ClockCore, TypeOK
  <2>3. dmem' \in [DMemIdx -> Word]
    BY <1>3, MemoryType DEF Cycle, ClockCore, TypeOK
  <2>4. seen' \in Seen
    BY <1>3, ZeroAssumption DEF Cycle, Observe, TypeOK, Seen
  <2>5. tb' \in HaltCause \cup {"RUNNING"}
    <3>1. halt_cause' \in HaltCause
      BY DEF halt_cause, HaltCause
    <3>2. QED
      BY <1>3, <3>1 DEF Cycle, Sample, TypeOK
  <2>6. QED
    BY <2>1, <2>2, <2>3, <2>4, <2>5 DEF TypeOK
<1>4. QED
  BY <1>1, <1>2, <1>3 DEF Next

(* TypeOK holds in every reachable state of the single-cycle core.         *)
THEOREM SingleCycleTypes == Spec => []TypeOK
<1>1. Init => TypeOK
  BY ResetTypes, ImageAssumption DEF Init, TypeOK
<1>2. QED
  BY <1>1, TypeStep, PTL DEF Spec

(* With the latch set, an edge moves neither memory, PC nor registers.     *)
LEMMA LatchedEdge ==
  ASSUME TypeOK, halted_q, Cycle
  PROVE  UNCHANGED <<imem, dmem, pc, regs, halted_q, seen>>
<1>1. ~reg_we /\ ~mem_write /\ halt_cause = "HC_NONE" /\ ~halt_now
  BY DEF reg_we, mem_write, halt_cause, halt_now
<1>2. regs' = regs
  BY <1>1 DEF Cycle, ClockCore, RegWrite, TypeOK
<1>3. QED
  BY <1>1, <1>2 DEF Cycle, ClockCore, Observe, MemWrite

(* A halted single-cycle core commits nothing more (top.sv:183-185).       *)
THEOREM SingleCycleHaltFinal == Spec => LatchedHaltIsFinal
<1>1. TypeOK /\ [Next]_vars =>
        [halted_q => UNCHANGED <<dmem, pc, regs, halted_q>> \/ Reset]_vars
  BY LatchedEdge DEF Next
<1>2. QED
  BY <1>1, SingleCycleTypes, PTL DEF Spec, LatchedHaltIsFinal

(***************************************************************************)
(* Refinement.                                                             *)
(***************************************************************************)

(* The history is filled in exactly when the latch is set.                 *)
SeenIffLatched ==
  /\ halted_q => seen.cause # "HC_NONE"
  /\ ~halted_q => seen = NotSeen

IInv == TypeOK /\ SeenIffLatched

(* What the core needs besides its type is inductive.                      *)
LEMMA InvStep == IInv /\ [Next]_vars => IInv'
<1> SUFFICES ASSUME IInv, [Next]_vars PROVE SeenIffLatched'
  BY TypeStep DEF IInv
<1>1. CASE Cycle /\ halted_q
  BY <1>1, LatchedEdge DEF IInv, SeenIffLatched
<1>2. CASE Cycle /\ ~halted_q
  BY <1>2 DEF IInv, SeenIffLatched, Cycle, ClockCore, Observe, halt_now
<1>3. CASE Reset
  BY <1>3 DEF Reset, SeenIffLatched
<1>4. CASE UNCHANGED vars
  BY <1>4 DEF vars, IInv, SeenIffLatched
<1>5. QED
  BY <1>1, <1>2, <1>3, <1>4 DEF Next

(* Both machines decode alike.                                             *)
LEMMA SameDecode ==
  ASSUME NEW i
  PROVE  A!Decode(i) = Decode(i) /\ A!IdHc(i) = IdHc(i)
<1>1. A!IsLoad(i) = IsLoad(i) /\ A!IsStore(i) = IsStore(i) /\ A!IsIllegal(i) = IsIllegal(i)
  BY DEF A!IsLoad, IsLoad, A!IsStore, IsStore, A!IsIllegal, IsIllegal,
         A!LoadF3, LoadF3, A!StoreF3, StoreF3, A!BranchF3, BranchF3
<1>2. A!BranchKind(i) = BranchKind(i)
  BY DEF A!BranchKind, BranchKind
<1>3. A!AccessSize(i) = AccessSize(i)
  BY <1>1 DEF A!AccessSize, AccessSize
<1>4. A!ArithOp(i) = ArithOp(i)
  BY DEF A!ArithOp, ArithOp, A!F3_ADD_SUB, A!F3_SLL, A!F3_SLT, A!F3_SLTU, A!F3_XOR,
         A!F3_SR, A!F3_OR, F3_ADD_SUB, F3_SLL, F3_SLT, F3_SLTU, F3_XOR, F3_SR, F3_OR
<1>5. A!Decode(i) = Decode(i)
  BY <1>1, <1>2, <1>3, <1>4 DEF A!Decode, Decode
<1>6. A!IdHc(i) = IdHc(i)
  BY <1>5 DEF A!IdHc, IdHc, A!IsSystem, IsSystem
<1>7. QED
  BY <1>5, <1>6

(* Both machines execute alike.                                            *)
LEMMA SameExecute ==
  ASSUME NEW c, NEW p, NEW imm, NEW a, NEW b
  PROVE  /\ A!NextPc(c, p, imm, a, b) = NextPc(c, p, imm, a, b)
         /\ A!AluY(c, p, imm, a, b) = AluY(c, p, imm, a, b)
  BY DEF A!NextPc, NextPc, A!Taken, Taken, A!Target, Target, A!CondOp, CondOp,
         A!AluY, AluY

(* Both machines have the same registers and the same memory.              *)
LEMMA SameState ==
  ASSUME NEW x, NEW y, NEW z, NEW u, NEW v
  PROVE  /\ A!RegRead(x, y) = RegRead(x, y)
         /\ A!RegWrite(x, y, z, u) = RegWrite(x, y, z, u)
         /\ A!MemRead(x, y, z) = MemRead(x, y, z)
         /\ A!MemWrite(x, y, z, u, v) = MemWrite(x, y, z, u, v)
         /\ A!Misaligned(x, y, z, u) <=> Misaligned(x, y, z, u)
         /\ A!IsTohost(x) <=> IsTohost(x)
         /\ A!WbData(x, y, z, u) = WbData(x, y, z, u)
         /\ A!XReg = XReg
  BY DEF A!RegRead, RegRead, A!RegWrite, RegWrite, A!MemRead, MemRead, A!MemWrite,
         MemWrite, A!Misaligned, Misaligned, A!IsTohost, IsTohost, A!IsMmio, IsMmio,
         A!WbData, WbData, A!XReg, A!Reg, XReg, Reg

(* An edge of a running core executes the instruction at the PC, or halts  *)
(* on it.                                                                  *)
LEMMA RunningSteps ==
  ASSUME IInv, ~halted_q, Cycle
  PROVE  A!Execute \/ A!Halt
<1> USE SignalTypes DEF IInv
<1>1. seen = NotSeen /\ seen.cause = "HC_NONE" /\ seen.tohost = Zero
  BY DEF SeenIffLatched, NotSeen
<1>2. /\ A!inst = inst /\ A!ctrl = ctrl
      /\ A!rs1v = rs1_val /\ A!rs2v = rs2_val /\ A!alu_y = alu_y
  <2>1. A!inst = inst
    BY DEF A!inst, inst
  <2>2. A!ctrl = ctrl
    BY <2>1, SameDecode DEF A!ctrl, ctrl
  <2>3. A!rs1v = rs1_val /\ A!rs2v = rs2_val
    BY <2>1, SameState DEF A!rs1v, A!rs2v, rs1_val, rs2_val
  <2>4. A!alu_y = alu_y
    BY <2>1, <2>2, <2>3, SameExecute DEF A!alu_y, alu_y
  <2>5. QED
    BY <2>1, <2>2, <2>3, <2>4
<1>3. mem_write = ctrl.mem_write /\ reg_we = ctrl.reg_write
  BY DEF mem_write, reg_we, Control
<1>4. IdHc(inst) # "HC_NONE" => ~dmem_misaligned /\ ~tohost_we
  <2>1. IdHc(inst) # "HC_NONE" => ~ctrl.mem_read /\ ~ctrl.mem_write
    BY HaltingIsInert DEF ctrl
  <2>2. QED
    BY <2>1, <1>3 DEF dmem_misaligned, tohost_we, Misaligned
<1>5. ~(dmem_misaligned /\ tohost_we)
  BY DEF dmem_misaligned, tohost_we, Misaligned, IsMmio, IsTohost
<1>6. halt_cause = A!HaltOf
  <2>1. halt_cause = IF dmem_misaligned THEN "HC_MISALIGNED"
                     ELSE IF tohost_we THEN "HC_TOHOST" ELSE IdHc(inst)
    BY <1>4, <1>5 DEF halt_cause, IdHc, ctrl
  <2>2. /\ A!Misaligned(ctrl.mem_read, ctrl.mem_write, ctrl.mem_size, alu_y)
             <=> dmem_misaligned
        /\ ctrl.mem_write /\ A!IsTohost(alu_y) <=> tohost_we
        /\ A!IdHc(inst) = IdHc(inst)
    BY <1>3, SameState, SameDecode DEF dmem_misaligned, tohost_we
  <2>3. QED
    BY <2>1, <2>2, <1>2 DEF A!HaltOf
<1>7. CASE ~halt_now
  <2>1. A!HaltOf = "HC_NONE" /\ ~halted_q' /\ seen' = seen /\ imem' = imem
    BY <1>6, <1>7 DEF halt_now, Cycle, ClockCore, Observe
  <2>2. pc' = NextPc(ctrl, pc, inst.imm, rs1_val, rs2_val)
    <3>1. Taken(ctrl.branch_op, rs1_val, rs2_val) => ctrl.branch_op # "BR_NONE"
      BY DEF Taken, CondOp
    <3>2. ctrl.branch_op # "BR_NONE" =>
            Target(ctrl, pc, inst.imm, rs1_val) =
              IF ctrl.jalr THEN ClearBit0(alu_y) ELSE alu_y
      BY AluComputesTargets DEF ctrl, alu_y
    <3>3. QED
      BY <3>1, <3>2 DEF NextPc, next_pc, Cycle, ClockCore
  <2>3. regs' = RegWrite(regs, ctrl.reg_write, inst.rd, wb_data)
    BY <1>3 DEF Cycle, ClockCore
  <2>4. dmem' = MemWrite(dmem, ctrl.mem_write, ctrl.mem_size, alu_y, rs2_val)
    BY <1>3 DEF Cycle, ClockCore
  <2>5. A!Execute
    BY <1>1, <1>2, <2>1, <2>2, <2>3, <2>4, SameState, SameExecute
       DEF A!Execute, wb_data
  <2>6. QED
    BY <2>5
<1>8. CASE halt_now
  <2>1. /\ halted_q' /\ imem' = imem
        /\ seen'.pc = pc /\ seen'.regs = regs /\ seen'.cause = halt_cause
        /\ seen'.tohost = IF tohost_we THEN rs2_val ELSE Zero
    BY <1>8 DEF Cycle, ClockCore, Observe
  <2>2. dmem' = dmem
    <3>1. ~(mem_write /\ ~IsMmio(alu_y) /\ ~Unaligned(ctrl.mem_size, ByteOff(alu_y)))
      <4>1. SUFFICES ASSUME mem_write, ~IsMmio(alu_y),
                            ~Unaligned(ctrl.mem_size, ByteOff(alu_y))
                     PROVE  FALSE
        OBVIOUS
      <4>2. ~dmem_misaligned /\ ~tohost_we
        BY <4>1 DEF dmem_misaligned, Misaligned, tohost_we, IsMmio, IsTohost
      <4>3. IdHc(inst) # "HC_NONE"
        BY <1>8, <4>2 DEF halt_now, halt_cause, IdHc, ctrl
      <4>4. QED
        BY <1>3, <4>1, <4>3, HaltingIsInert DEF ctrl
    <3>2. QED
      BY <3>1 DEF Cycle, ClockCore, MemWrite
  <2>3. tohost_we <=> halt_cause = "HC_TOHOST"
    BY <1>4, <1>5 DEF halt_cause, IdHc, ctrl
  <2>4. A!Halt
    BY <1>1, <1>2, <1>6, <1>8, <2>1, <2>2, <2>3 DEF A!Halt, halt_now
  <2>5. QED
    BY <2>4
<1>9. QED
  BY <1>7, <1>8

(* Every step of the core is a step of the machine or invisible.           *)
LEMMA StepRefines == IInv /\ [Next]_vars => [A!IsaNext]_(A!isaVars)
<1> SUFFICES ASSUME IInv, [Next]_vars PROVE [A!IsaNext]_(A!isaVars)
  OBVIOUS
<1>1. CASE Cycle /\ halted_q
  BY <1>1, LatchedEdge DEF IInv, A!isaVars
<1>2. CASE Cycle /\ ~halted_q
  BY <1>2, RunningSteps DEF A!IsaNext
<1>3. CASE Reset
  BY <1>3, SameState DEF Reset, NotSeen, A!IsaNext, A!Restart
<1>4. CASE UNCHANGED vars
  BY <1>4 DEF vars, A!isaVars
<1>5. QED
  BY <1>1, <1>2, <1>3, <1>4 DEF Next

(* The single-cycle core executes its program one instruction at a time    *)
(* and halts precisely, seen from the cycle in which halted rises.         *)
THEOREM SingleCycleImplementsIsa == Spec => ImplementsIsa
<1>1. Init => IInv
  BY ResetTypes, ImageAssumption DEF Init, IInv, TypeOK, SeenIffLatched
<1>2. Init => A!IsaInit
  <2> SUFFICES ASSUME Init PROVE A!IsaInit
    OBVIOUS
  <2>1. imem \in [IMemIdx -> A!Inst]
    BY ImageAssumption DEF Init, A!Inst, Inst, A!Opcode, Opcode, A!Funct3, Funct3,
       A!Funct7, Funct7, A!Funct12, Funct12, A!Reg, Reg
  <2>2. QED
    BY <2>1, SameState, ImageAssumption DEF Init, NotSeen, A!IsaInit
<1>3. QED
  BY <1>1, <1>2, InvStep, StepRefines, PTL DEF Spec, ImplementsIsa, A!IsaSpec

(***************************************************************************)
(* The halting edge and the test bench.                                    *)
(***************************************************************************)

(* Stores, and whatever halts by itself, have reg_write low: of all the    *)
(* instructions that can stop the core only a load also drives rd.         *)
LEMMA HaltingWritesNoRegister ==
  ASSUME TypeOK, halt_now, reg_we
  PROVE  ctrl.mem_read /\ dmem_misaligned
<1>1. ~halted_q /\ ctrl.reg_write
  BY DEF reg_we
<1>2. inst \in Inst
  BY SignalTypes
<1>3. ~ctrl.mem_write
  BY <1>1 DEF ctrl, Decode, IsLoad, IsStore
<1>4. IdHc(inst) = "HC_NONE"
  BY <1>1, <1>2, HaltingIsInert DEF ctrl
<1>5. ~mem_write /\ ~tohost_we
  BY <1>3 DEF mem_write, tohost_we
<1>6. dmem_misaligned
  BY <1>1, <1>4, <1>5 DEF halt_now, halt_cause, IdHc, ctrl
<1>7. QED
  BY <1>5, <1>6 DEF dmem_misaligned, Misaligned

(* Only a misaligned load writes a register on the halting edge, which is  *)
(* where top.sv:17-18 and the code part.                                   *)
THEOREM SingleCycleLeaks == Spec => OnlyMisalignedLoadsLeak
<1>1. TypeOK /\ [Next]_vars =>
        [halted /\ regs' # regs => Reset \/ (ctrl.mem_read /\ dmem_misaligned)]_vars
  <2> SUFFICES ASSUME TypeOK, Cycle, halted, regs' # regs
               PROVE  ctrl.mem_read /\ dmem_misaligned
    BY DEF Next
  <2>1. ~halted_q
    BY LatchedEdge
  <2>2. halt_now
    BY <2>1 DEF halted
  <2>3. reg_we
    BY DEF Cycle, ClockCore, RegWrite, TypeOK
  <2>4. QED
    BY <2>2, <2>3, HaltingWritesNoRegister
<1>2. QED
  BY <1>1, SingleCycleTypes, PTL DEF Spec, OnlyMisalignedLoadsLeak

(* What the bench has sampled.  While it runs, halted can be up only right *)
(* after a reset; if it stopped before the latch was set, it holds the     *)
(* cause that is on the wires; afterwards, the cause in the history, or    *)
(* HALT_NONE when the very first instruction halted.                       *)
BenchInv ==
  /\ tb = "RUNNING" => ~halted_q /\ (halt_now => pc = PC_RESET)
  /\ tb # "RUNNING" /\ ~halted_q => halt_now /\ tb = halt_cause
  /\ tb # "RUNNING" /\ halted_q =>
       IF tb = "HC_NONE" THEN seen.pc = PC_RESET ELSE tb = seen.cause

(* The wires follow the state: a step that keeps it keeps them.            *)
LEMMA StutterKeepsWires ==
  ASSUME UNCHANGED vars
  PROVE  halt_cause' = halt_cause /\ (halt_now' <=> halt_now)
<1>1. inst' = inst /\ ctrl' = ctrl /\ rs1_val' = rs1_val /\ rs2_val' = rs2_val
  BY DEF vars, inst, ctrl, rs1_val, rs2_val
<1>2. alu_y' = alu_y /\ (mem_write' <=> mem_write)
  BY <1>1 DEF vars, alu_y, mem_write
<1>3. (dmem_misaligned' <=> dmem_misaligned) /\ (tohost_we' <=> tohost_we)
  BY <1>1, <1>2 DEF dmem_misaligned, tohost_we, Misaligned
<1>4. halt_cause' = halt_cause
  BY <1>1, <1>3 DEF vars, halt_cause
<1>5. QED
  BY <1>4 DEF halt_now

(* BenchInv is inductive.                                                  *)
LEMMA BenchStep == TypeOK /\ BenchInv /\ [Next]_vars => BenchInv'
<1> SUFFICES ASSUME TypeOK, BenchInv, [Next]_vars PROVE BenchInv'
  OBVIOUS
<1>1. halt_cause \in HaltCause /\ "RUNNING" \notin HaltCause
  BY SignalTypes DEF HaltCause
<1>2. CASE UNCHANGED vars
  BY <1>2, StutterKeepsWires DEF vars, BenchInv
<1>3. CASE Reset
  BY <1>3 DEF Reset, BenchInv
<1>4. CASE Cycle /\ halted_q
  <2>1. UNCHANGED <<halted_q, seen>> /\ tb # "RUNNING"
    BY <1>4, LatchedEdge DEF BenchInv
  <2>2. tb' = tb
    BY <1>4, <2>1 DEF Cycle, Sample
  <2>3. QED
    BY <1>4, <2>1, <2>2 DEF BenchInv
<1>5. CASE Cycle /\ ~halted_q /\ halt_now
  <2>1. halted_q' /\ seen'.pc = pc /\ seen'.cause = halt_cause
    BY <1>5 DEF Cycle, ClockCore, Observe
  <2>2. halted' /\ halt_cause' = "HC_NONE"
    BY <2>1 DEF halted, halt_cause
  <2>3. CASE tb = "RUNNING"
    BY <1>5, <2>1, <2>2, <2>3 DEF BenchInv, Cycle, Sample
  <2>4. CASE tb # "RUNNING"
    <3>1. tb' = tb /\ tb = halt_cause
      BY <1>5, <2>4 DEF BenchInv, Cycle, Sample
    <3>2. QED
      BY <1>5, <2>1, <2>4, <3>1 DEF BenchInv, halt_now
  <2>5. QED
    BY <2>3, <2>4
<1>6. CASE Cycle /\ ~halted_q /\ ~halt_now
  <2>1. ~halted_q' /\ tb = "RUNNING"
    BY <1>6 DEF Cycle, ClockCore, BenchInv
  <2>2. halted' <=> halt_now'
    BY <2>1 DEF halted
  <2>3. tb' = IF halt_now' THEN halt_cause' ELSE "RUNNING"
    BY <1>6, <2>1, <2>2 DEF Cycle, Sample
  <2>4. halt_cause' \in HaltCause
    BY DEF halt_cause, HaltCause
  <2>5. QED
    BY <1>1, <2>1, <2>3, <2>4 DEF BenchInv
<1>7. QED
  BY <1>2, <1>3, <1>4, <1>5, <1>6 DEF Next

(* The cause that the test benches sample after each edge is the cause of  *)
(* the instruction that halted, unless that was the first after the reset  *)
(* (top.sv:231, tb/top/test_top.py:80-88), for every program and ALU.      *)
THEOREM BenchReadsTheCause == Spec => []BenchReadsCause
<1>1. Init => BenchInv
  BY DEF Init, BenchInv
<1>2. BenchInv => BenchReadsCause
  BY DEF BenchInv, BenchReadsCause
<1>3. QED
  BY <1>1, <1>2, BenchStep, SingleCycleTypes, PTL DEF Spec
=============================================================================
