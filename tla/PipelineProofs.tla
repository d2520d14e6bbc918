--------------------------- MODULE PipelineProofs ---------------------------
(***************************************************************************)
(* Theorems about the pipeline, for every word width, every ALU, every     *)
(* number of registers and every program.                                  *)
(***************************************************************************)
EXTENDS PipelineTrace, UnitsProofs

(***************************************************************************)
(* Type correctness.                                                       *)
(***************************************************************************)

(* The fields of the pipeline registers, one by one.                       *)
LEMMA FieldTypes ==
  ASSUME TypeOK
  PROVE  /\ if_id.pc \in Word /\ if_id.pc4 \in Word /\ id_inst \in Inst
         /\ id_inst.rs1 \in Reg /\ id_inst.rs2 \in Reg /\ id_inst.rd \in Reg
         /\ id_inst.imm \in Word /\ id_ctrl \in Control
         /\ id_ex.ctrl \in Control /\ id_ex.pc \in Word /\ id_ex.pc4 \in Word
         /\ id_ex.rs1_val \in Word /\ id_ex.rs2_val \in Word /\ id_ex.imm \in Word
         /\ id_ex.rs1_idx \in Reg /\ id_ex.rs2_idx \in Reg /\ id_ex.rd_idx \in Reg
         /\ ex_mem.ctrl \in Control /\ ex_mem.alu_y \in Word /\ ex_mem.rs2_val \in Word
         /\ ex_mem.rd_idx \in Reg /\ ex_mem.pc4 \in Word
         /\ mem_wb.ctrl \in Control /\ mem_wb.alu_y \in Word /\ mem_wb.mem_rdata \in Word
         /\ mem_wb.rd_idx \in Reg /\ mem_wb.pc4 \in Word
<1>1. id_inst \in Inst
  BY DEF TypeOK, IfId, id_inst
<1>2. id_ctrl \in Control
  BY <1>1, DecodeType DEF id_ctrl
<1>3. QED
  BY <1>1, <1>2 DEF TypeOK, IfId, IdEx, ExMem, MemWb, Inst

(* The combinational signals that are latched at the next edge.            *)
LEMMA SignalTypes ==
  ASSUME TypeOK
  PROVE  /\ wb_data \in Word /\ mem_rdata \in Word /\ mem_wb_value \in Word
         /\ ex_rs1_fwd \in Word /\ ex_rs2_fwd \in Word /\ ex_alu_y \in Word
         /\ \A r \in Reg : RegFileRead(r) \in Word /\ Compared(r) \in Word
         /\ next_pc \in Word
         /\ mem_hc \in HaltCause
<1> USE FieldTypes
<1>1. wb_data \in Word
  BY WbDataType DEF wb_data
<1>2. mem_rdata \in Word
  BY MemoryType DEF mem_rdata, TypeOK
<1>3. mem_wb_value \in Word
  BY <1>2, WbDataType DEF mem_wb_value
<1>4. ex_rs1_fwd \in Word /\ ex_rs2_fwd \in Word
  BY <1>1 DEF ex_rs1_fwd, ex_rs2_fwd, Forward, mem_fwd_value
<1>5. ex_alu_y \in Word
  BY <1>4, AluYType DEF ex_alu_y
<1>6. \A r \in Reg : RegFileRead(r) \in Word /\ Compared(r) \in Word
  BY <1>1, <1>3, ZeroAssumption DEF RegFileRead, Compared, TypeOK, XReg
<1>7. next_pc \in Word
  <2>1. id_rs1_cmp \in Word
    BY <1>6 DEF id_rs1_cmp
  <2>2. id_target \in Word
    BY <2>1, NextPcType DEF id_target
  <2>3. QED
    BY <2>2, AddressAssumption DEF next_pc, TypeOK
<1>8. mem_hc \in HaltCause
  BY DEF mem_hc, HaltCause, TypeOK
<1>9. QED
  BY <1>1, <1>2, <1>3, <1>4, <1>5, <1>6, <1>7, <1>8

(* What reset and flush leave in the pipeline registers is well-typed.     *)
LEMMA FlushedTypes ==
  /\ IfIdFlushed \in IfId /\ IdExFlushed \in IdEx
  /\ ExMemFlushed \in ExMem /\ MemWbFlushed \in MemWb
  /\ [r \in XReg |-> Zero] \in [XReg -> Word]
  /\ PC_RESET \in Word
<1>1. 0 \in Reg
  BY NregsAssumption DEF Reg
<1>2. QED
  BY <1>1, BubblesAreInert, ZeroAssumption, AddressAssumption
     DEF IfIdFlushed, IdExFlushed, ExMemFlushed, MemWbFlushed, IfId, IdEx, ExMem, MemWb

(* A clock edge keeps every register and memory in its type.               *)
LEMMA TypeCycle ==
  ASSUME TypeOK, Cycle
  PROVE  TypeOK'
<1> USE FieldTypes, SignalTypes, FlushedTypes
<1>1. imem' \in [IMemIdx -> Inst] /\ imem[ImemIdx(pc)] \in Inst
  BY AddressAssumption DEF Cycle, TypeOK
<1>2. pc' \in Word
  BY DEF Cycle, ClockPc, TypeOK
<1>3. if_id' \in IfId
  BY <1>1, AddressAssumption DEF Cycle, ClockIfId, IfId, TypeOK
<1>4. id_ex' \in IdEx
  <2>1. RegFileRead(id_inst.rs1) \in Word /\ RegFileRead(id_inst.rs2) \in Word
    OBVIOUS
  <2>2. QED
    BY <2>1 DEF Cycle, ClockIdEx, IdEx, TypeOK
<1>5. ex_mem' \in ExMem
  BY DEF Cycle, ClockExMem, ExMem, TypeOK
<1>6. mem_wb' \in MemWb
  BY DEF Cycle, ClockMemWb, MemWb, TypeOK
<1>7. regs' \in [XReg -> Word]
  BY RegFileType DEF Cycle, ClockRegFile, TypeOK
<1>8. dmem' \in [DMemIdx -> Word]
  BY MemoryType DEF Cycle, ClockDmem, TypeOK
<1>9. ex_hc' \in HaltCause /\ mem_hc_carried' \in HaltCause /\ wb_hc' \in HaltCause
  <2>1. IdHc(id_inst) \in HaltCause /\ "HC_NONE" \in HaltCause
    BY DecodeType DEF HaltCause
  <2>2. QED
    BY <2>1 DEF Cycle, ClockHaltCause, hcVars, TypeOK
<1>10. halted_q' \in BOOLEAN /\ tohost_value' \in Word
  BY DEF Cycle, ClockHalted, TypeOK
<1>11. QED
  BY <1>1, <1>2, <1>3, <1>4, <1>5, <1>6, <1>7, <1>8, <1>9, <1>10 DEF TypeOK

(* So does a reset.                                                        *)
LEMMA TypeReset ==
  ASSUME TypeOK, Reset
  PROVE  TypeOK'
  BY FlushedTypes, ZeroAssumption DEF TypeOK, Reset, HaltCause

(* The power-up state is well-typed.                                       *)
LEMMA TypeInit == Init => TypeOK
  BY FlushedTypes, ZeroAssumption, ImageAssumption DEF Init, TypeOK, HaltCause

(* TypeOK holds in every reachable state of the pipeline.                  *)
THEOREM TypeCorrect == Spec => []TypeOK
<1>1. TypeOK /\ [Next]_vars => TypeOK'
  <2> SUFFICES ASSUME TypeOK, [Next]_vars PROVE TypeOK'
    OBVIOUS
  <2>1. CASE Cycle
    BY <2>1, TypeCycle
  <2>2. CASE Reset
    BY <2>2, TypeReset
  <2>3. CASE UNCHANGED vars
    BY <2>3 DEF vars, hcVars, TypeOK
  <2>4. QED
    BY <2>1, <2>2, <2>3 DEF Next
<1>2. QED
  BY <1>1, TypeInit, PTL DEF Spec

(***************************************************************************)
(* The inductive invariant.                                                *)
(***************************************************************************)

(* The instruction memory holds instructions at every fetch address.       *)
LEMMA InstAtType ==
  ASSUME TypeOK, NEW p \in Word
  PROVE  InstAt(p) \in Inst /\ Decode(InstAt(p)) \in Control
<1>1. InstAt(p) \in Inst
  BY AddressAssumption DEF InstAt, TypeOK
<1>2. QED
  BY <1>1, DecodeType

(* Empty slots neither write a register, nor touch memory, nor branch.     *)
LEMMA InertFacts ==
  ASSUME NEW c, Inert(c)
  PROVE  c \in Control /\ ~c.mem_read /\ ~c.mem_write /\ c.branch_op = "BR_NONE"
<1>1. Decode(NOP_INST) \in Control
  BY BubblesAreInert, DecodeType
<1>2. QED
  BY <1>1, BubblesAreInert DEF Inert

(* A stall happens only between two instructions, never for a bubble.      *)
LEMMA StallNeedsTwo ==
  ASSUME TypeOK, IdSlot, ExSlot, stall
  PROVE  Holds(trace.id) /\ Holds(trace.ex)
<1>1. id_ex.rd_idx # 0
  BY DEF stall, load_use_stall, branch_stall, Writes
<1>2. Holds(trace.ex)
  BY <1>1 DEF ExSlot
<1>3. ASSUME id_inst = NOP_INST PROVE FALSE
  <2>1. id_inst.rs1 = 0 /\ id_inst.rs2 = 0 /\ id_ctrl.branch_op = "BR_NONE"
    BY <1>3, BubblesAreInert DEF id_ctrl
  <2>2. ~load_use_stall
    BY <2>1, <1>1 DEF load_use_stall
  <2>3. ~branch_stall
    BY <2>1 DEF branch_stall, id_is_cond_branch, id_is_jalr, CondOp
  <2>4. QED
    BY <2>2, <2>3 DEF stall
<1>4. QED
  BY <1>2, <1>3 DEF IdSlot

(* Only an instruction redirects the fetch, never a bubble.                *)
LEMMA RedirectNeedsInst ==
  ASSUME TypeOK, IdSlot, id_redirect
  PROVE  Holds(trace.id) /\ ~stall
<1>1. ASSUME id_inst = NOP_INST PROVE FALSE
  BY <1>1, BubblesAreInert DEF id_ctrl, id_redirect, Taken, CondOp
<1>2. QED
  BY <1>1 DEF IdSlot, id_redirect

(* What the EX stage forwards is what program order asks for.              *)
LEMMA OperandsFromInvariant ==
  ASSUME TypeOK, StagesAgree, Holds(trace.ex)
  PROVE  LET i == InstAt(trace.ex)
         IN  /\ ReadsRs1(i.op) => ex_rs1_fwd = RegRead(RegsForEx, i.rs1)
             /\ ReadsRs2(i.op) => ex_rs2_fwd = RegRead(RegsForEx, i.rs2)
<1> DEFINE i == InstAt(trace.ex)
<1> USE FieldTypes
<1>1. trace.ex \in Word
  BY DEF StagesAgree, Trace, Slot, Holds
<1>2. i \in Inst /\ i.rs1 \in Reg /\ i.rs2 \in Reg
  BY <1>1, InstAtType DEF Inst
<1>3. ASSUME ex_mem.ctrl.reg_write, ex_mem.ctrl.wb_src = "WB_MEM", ex_mem.rd_idx # 0
      PROVE  ex_mem.ctrl.mem_read
  <2>1. Holds(trace.mem)
    BY <1>3 DEF StagesAgree, MemSlot
  <2>2. trace.mem \in Word /\ ex_mem.ctrl = Decode(InstAt(trace.mem))
    BY <2>1 DEF StagesAgree, MemSlot, Trace, Slot, Holds
  <2>3. QED
    BY <1>3, <2>2, InstAtType, LoadWritesBack
<1>4. ASSUME NEW r \in Reg, NEW v, v = RegRead(regs, r),
             ex_mem.ctrl.mem_read /\ ex_mem.rd_idx # 0 => r # ex_mem.rd_idx
      PROVE  Forward(r, v) = RegRead(RegsForEx, r)
  <2>1. CASE r = 0
    BY <1>4, <2>1 DEF Forward, Writes, RegRead
  <2>2. CASE r # 0
    <3>1. r \in XReg
      BY <1>4, <2>2 DEF XReg
    <3>2. CASE Writes(ex_mem, r)
      <4>1. RegRead(RegsForEx, r) = mem_wb_value
        BY <3>1, <3>2, <2>2 DEF RegsForEx, RegRead, RegWrite, Writes
      <4>2. ex_mem.ctrl.wb_src # "WB_MEM"
        BY <1>3, <1>4, <3>2 DEF Writes
      <4>3. mem_wb_value = mem_fwd_value
        BY <4>2 DEF mem_wb_value, mem_fwd_value, WbData, Control, WbSrc
      <4>4. QED
        BY <3>2, <4>1, <4>3 DEF Forward
    <3>3. CASE ~Writes(ex_mem, r)
      <4>1. RegRead(RegsForEx, r) = RegRead(RegsForMem, r)
        BY <3>1, <3>3, <2>2 DEF RegsForEx, RegRead, RegWrite, Writes
      <4>2. QED
        BY <1>4, <3>1, <3>3, <2>2, <4>1
           DEF RegsForMem, RegRead, RegWrite, Writes, Forward
    <3>4. QED
      BY <3>2, <3>3
  <2>3. QED
    BY <2>1, <2>2
<1>5. ReadsRs1(i.op) => ex_rs1_fwd = RegRead(RegsForEx, i.rs1)
  BY <1>2, <1>4 DEF StagesAgree, ExSlot, FreshReads, LoadUse, ex_rs1_fwd
<1>6. ReadsRs2(i.op) => ex_rs2_fwd = RegRead(RegsForEx, i.rs2)
  BY <1>2, <1>4 DEF StagesAgree, ExSlot, FreshReads, LoadUse, ex_rs2_fwd
<1>7. QED
  BY <1>5, <1>6
(* While running, the comparator in ID sees what program order asks for,   *)
(* except for the instruction still in EX (which stalls it).               *)
LEMMA ComparedIsCurrent ==
  ASSUME TypeOK, ~halted, NEW r \in Reg
  PROVE  Compared(r) = RegRead(RegsForEx, r)
<1> USE FieldTypes
<1>1. CASE r = 0
  BY <1>1 DEF Compared, Writes, RegFileRead, RegRead
<1>2. CASE r # 0
  <2>1. r \in XReg
    BY <1>2 DEF XReg
  <2>2. RegFileRead(r) = RegRead(RegsForMem, r)
    BY <1>2, <2>1 DEF RegFileRead, RegRead, RegsForMem, RegWrite, wb_we
  <2>3. QED
    BY <1>2, <2>1, <2>2 DEF Compared, Writes, RegRead, RegsForEx, RegWrite
<1>3. QED
  BY <1>1, <1>2

(* At a running edge the registers the EX stage saw become those MEM sees. *)
LEMMA RegsAdvance ==
  ASSUME TypeOK, ~halted, Cycle
  PROVE  /\ regs' = RegsForMem
         /\ RegsForMem' = RegsForEx
         /\ RegsForEx' = RegWrite(RegsForEx, id_ex.ctrl.reg_write, id_ex.rd_idx,
                                  mem_wb_value')
<1>1. regs' = RegsForMem
  BY FieldTypes DEF Cycle, ClockRegFile, RegsForMem, RegWrite, wb_we, Control
<1>2. /\ mem_wb'.ctrl = ex_mem.ctrl /\ mem_wb'.alu_y = ex_mem.alu_y
      /\ mem_wb'.mem_rdata = mem_rdata /\ mem_wb'.rd_idx = ex_mem.rd_idx
      /\ mem_wb'.pc4 = ex_mem.pc4
  BY DEF Cycle, ClockMemWb, pipe_en
<1>3. wb_data' = mem_wb_value
  BY <1>2 DEF wb_data, mem_wb_value
<1>4. RegsForMem' = RegsForEx
  BY <1>1, <1>2, <1>3 DEF RegsForMem, RegsForEx
<1>5. ex_mem'.ctrl = id_ex.ctrl /\ ex_mem'.rd_idx = id_ex.rd_idx
  BY DEF Cycle, ClockExMem, pipe_en
<1>6. QED
  BY <1>1, <1>4, <1>5 DEF RegsForEx

(* While halted, only the two flushable registers can still change.        *)
LEMMA FrozenEdge ==
  ASSUME TypeOK, HaltLatched, halted, Cycle
  PROVE  /\ UNCHANGED <<imem, dmem, pc, regs, ex_mem, mem_wb, hcVars, tohost_value>>
         /\ halted' /\ HaltLatched'
         /\ if_id' = (IF id_redirect THEN IfIdFlushed ELSE if_id)
         /\ id_ex' = (IF stall THEN IdExFlushed ELSE id_ex)
<1>1. UNCHANGED <<imem, pc, ex_mem, mem_wb, hcVars, tohost_value>>
  BY DEF Cycle, ClockPc, ClockExMem, ClockMemWb, ClockHaltCause, ClockHalted,
         pipe_en, front_en
<1>2. UNCHANGED regs
  BY DEF Cycle, ClockRegFile, RegWrite, wb_we, TypeOK
<1>3. UNCHANGED dmem
  BY DEF Cycle, ClockDmem, MemWrite, mem_write, pipe_en
<1>4. halted' /\ HaltLatched'
  BY <1>1 DEF Cycle, ClockHalted, halted, HaltLatched, hcVars
<1>5. QED
  BY <1>1, <1>2, <1>3, <1>4 DEF Cycle, ClockIfId, ClockIdEx, front_en, pipe_en

(* The invariant survives an edge while halted.                            *)
LEMMA InvFrozen ==
  ASSUME IInv, halted, TCycle
  PROVE  IInv'
<1> USE DEF IInv, TCycle
<1>1. TypeOK'
  BY TypeCycle
<1>2. /\ UNCHANGED <<imem, dmem, pc, regs, ex_mem, mem_wb, hcVars, tohost_value>>
      /\ halted' /\ HaltLatched'
      /\ if_id' = (IF id_redirect THEN IfIdFlushed ELSE if_id)
      /\ id_ex' = (IF stall THEN IdExFlushed ELSE id_ex)
  BY FrozenEdge DEF StagesAgree
<1>3. /\ trace'.id = (IF id_redirect THEN NoPc ELSE trace.id)
      /\ trace'.ex = (IF stall THEN NoPc ELSE trace.ex)
      /\ trace'.mem = trace.mem /\ trace' \in Trace
  BY DEF ClockTrace, front_en, pipe_en, StagesAgree, Trace, Slot
<1>4. IdSlot'
  BY <1>2, <1>3 DEF StagesAgree, IdSlot, Holds, InstAt, id_inst, IfIdFlushed
<1>5. ExSlot'
  BY <1>2, <1>3 DEF StagesAgree, ExSlot, Holds, InstAt, IdExFlushed, Inert
<1>6. FreshReads'
  BY <1>2 DEF StagesAgree, FreshReads, IdExFlushed, RegRead
<1>7. LoadUse'
  BY <1>2, <1>3 DEF StagesAgree, LoadUse, Holds, InstAt
<1>8. RegsForMem' = RegsForMem
  BY <1>2 DEF RegsForMem, wb_data
<1>9. MemSlot'
  BY <1>2, <1>3, <1>8 DEF StagesAgree, MemSlot, Holds, InstAt, hcVars
<1>10. QED
  BY <1>1, <1>2, <1>3, <1>4, <1>5, <1>6, <1>7, <1>9
     DEF StagesAgree, FetchFollows, CorrectPath, AtMostOneBubble
(* The fields latched at a running edge.                                   *)
LEMMA RunningEdge ==
  ASSUME TypeOK, StagesAgree, ~halted, TCycle
  PROVE  /\ imem' = imem
         /\ trace'.id = (IF id_redirect THEN NoPc ELSE IF stall THEN trace.id ELSE pc)
         /\ trace'.ex = (IF stall THEN NoPc ELSE trace.id)
         /\ trace'.mem = trace.ex /\ trace'.wb = trace.mem
         /\ trace' \in Trace
         /\ pc' = (IF stall THEN pc ELSE next_pc)
         /\ ex_mem'.ctrl = id_ex.ctrl /\ ex_mem'.alu_y = ex_alu_y
         /\ ex_mem'.rs2_val = ex_rs2_fwd /\ ex_mem'.rd_idx = id_ex.rd_idx
         /\ ex_mem'.pc4 = id_ex.pc4
         /\ ex_hc' = (IF stall THEN "HC_NONE" ELSE IdHc(id_inst))
         /\ mem_hc_carried' = ex_hc /\ wb_hc' = mem_hc
<1>1. /\ trace'.id = (IF id_redirect THEN NoPc ELSE IF stall THEN trace.id ELSE pc)
      /\ trace'.ex = (IF stall THEN NoPc ELSE trace.id)
      /\ trace'.mem = trace.ex /\ trace'.wb = trace.mem
      /\ trace' \in Trace
  BY DEF TCycle, ClockTrace, front_en, pipe_en, StagesAgree, Trace, Slot, TypeOK
<1>2. pc' = (IF stall THEN pc ELSE next_pc)
  BY DEF TCycle, Cycle, ClockPc, front_en
<1>3. QED
  BY <1>1, <1>2 DEF TCycle, Cycle, ClockExMem, ClockHaltCause, pipe_en

(* IF/ID after a running edge.                                             *)
LEMMA IdSlotRuns ==
  ASSUME TypeOK, StagesAgree, ~halted, TCycle
  PROVE  IdSlot'
<1>1. CASE id_redirect
  BY <1>1, RunningEdge DEF TCycle, Cycle, ClockIfId, IdSlot, Holds, id_inst, IfIdFlushed
<1>2. CASE ~id_redirect /\ stall
  <2>1. if_id' = if_id /\ trace'.id = trace.id /\ imem' = imem
    BY <1>2, RunningEdge DEF TCycle, Cycle, ClockIfId, front_en
  <2>2. QED
    BY <2>1 DEF StagesAgree, IdSlot, Holds, id_inst, InstAt
<1>3. CASE ~id_redirect /\ ~stall
  <2>1. /\ if_id' = [pc |-> pc, pc4 |-> Plus4(pc), inst |-> imem[ImemIdx(pc)]]
        /\ trace'.id = pc /\ imem' = imem
    BY <1>3, RunningEdge DEF TCycle, Cycle, ClockIfId, front_en
  <2>2. pc # NoPc
    BY NoPcAssumption DEF TypeOK
  <2>3. QED
    BY <2>1, <2>2 DEF IdSlot, Holds, id_inst, InstAt
<1>4. QED
  BY <1>1, <1>2, <1>3

(* ID/EX after a running edge.                                             *)
LEMMA ExSlotRuns ==
  ASSUME TypeOK, StagesAgree, ~halted, TCycle
  PROVE  ExSlot' /\ FreshReads' /\ LoadUse'
<1> USE FieldTypes
<1>1. CASE stall
  <2>1. id_ex' = IdExFlushed /\ trace'.ex = NoPc /\ ex_hc' = "HC_NONE"
    BY <1>1, RunningEdge DEF TCycle, Cycle, ClockIdEx
  <2>2. QED
    BY <2>1 DEF ExSlot, FreshReads, LoadUse, Holds, IdExFlushed, Inert, RegRead
<1>2. CASE ~stall
  <2>1. /\ id_ex' = [ctrl |-> id_ctrl, pc |-> if_id.pc, pc4 |-> if_id.pc4,
                     rs1_val |-> RegFileRead(id_inst.rs1),
                     rs2_val |-> RegFileRead(id_inst.rs2),
                     imm |-> id_inst.imm,
                     rs1_idx |-> id_inst.rs1, rs2_idx |-> id_inst.rs2,
                     rd_idx |-> id_inst.rd]
        /\ trace'.ex = trace.id /\ ex_hc' = IdHc(id_inst) /\ imem' = imem
        /\ ex_mem'.ctrl = id_ex.ctrl /\ ex_mem'.rd_idx = id_ex.rd_idx
    BY <1>2, RunningEdge DEF TCycle, Cycle, ClockIdEx, pipe_en
  <2>2. ExSlot'
    <3>1. CASE Holds(trace.id)
      BY <2>1, <3>1 DEF StagesAgree, IdSlot, ExSlot, Holds, InstAt, id_ctrl
    <3>2. CASE ~Holds(trace.id)
      BY <2>1, <3>2, BubblesAreInert
         DEF StagesAgree, IdSlot, ExSlot, Holds, id_ctrl, Inert
    <3>3. QED
      BY <3>1, <3>2
  <2>3. FreshReads'
    <3>1. regs' = RegsForMem
      BY RegsAdvance DEF TCycle
    <3>2. ASSUME NEW r \in Reg PROVE RegFileRead(r) = RegRead(RegsForMem, r)
      BY DEF RegFileRead, RegRead, RegsForMem, RegWrite, wb_we, XReg
    <3>3. QED
      BY <2>1, <3>1, <3>2 DEF FreshReads
  <2>4. LoadUse'
    <3>1. ~load_use_stall
      BY <1>2 DEF stall
    <3>2. QED
      BY <2>1, <3>1 DEF StagesAgree, IdSlot, LoadUse, Holds, InstAt, load_use_stall
  <2>5. QED
    BY <2>2, <2>3, <2>4
<1>3. QED
  BY <1>1, <1>2

(* EX/MEM after a running edge: the ALU worked on current operands.        *)
LEMMA MemSlotRuns ==
  ASSUME TypeOK, StagesAgree, ~halted, TCycle
  PROVE  MemSlot'
<1> DEFINE i == InstAt(trace.ex)
           c == Decode(i)
           x == RegsForEx
<1> USE FieldTypes, RunningEdge
<1>1. RegsForMem' = x
  BY RegsAdvance DEF TCycle
<1>2. CASE ~Holds(trace.ex)
  BY <1>2 DEF MemSlot, Holds, StagesAgree, ExSlot
<1>3. CASE Holds(trace.ex)
  <2>1. trace.ex \in Word
    BY <1>3 DEF StagesAgree, Trace, Slot, Holds
  <2>2. i \in Inst /\ c \in Control /\ i.rs1 \in Reg /\ i.rs2 \in Reg /\ i.imm \in Word
    BY <2>1, InstAtType DEF Inst
  <2>3. /\ id_ex.ctrl = c /\ id_ex.pc = trace.ex /\ id_ex.pc4 = Plus4(trace.ex)
        /\ id_ex.imm = i.imm /\ id_ex.rd_idx = i.rd /\ ex_hc = IdHc(i)
    BY <1>3 DEF StagesAgree, ExSlot
  <2>4. /\ ReadsRs1(i.op) => ex_rs1_fwd = RegRead(x, i.rs1)
        /\ ReadsRs2(i.op) => ex_rs2_fwd = RegRead(x, i.rs2)
    BY <1>3, OperandsFromInvariant
  <2>5. ASSUME c.reg_write \/ c.mem_read \/ c.mem_write
        PROVE  ex_alu_y = AluY(c, trace.ex, i.imm, RegRead(x, i.rs1), RegRead(x, i.rs2))
    <3>1. /\ c.alu_src_a = "ALU_A_RS1" => ReadsRs1(i.op) \/ c.alu_op = "ALU_PASS_B"
          /\ c.alu_src_b = "ALU_B_RS2" => ReadsRs2(i.op)
          /\ c.alu_src_a \in {"ALU_A_RS1", "ALU_A_PC"}
          /\ c.alu_src_b \in {"ALU_B_RS2", "ALU_B_IMM"}
      BY <2>2, <2>5, ReadsCoverUses DEF Control, AluSrcA, AluSrcB
    <3> DEFINE b == IF c.alu_src_b = "ALU_B_IMM" THEN i.imm ELSE RegRead(x, i.rs2)
    <3>2. ex_alu_y = Alu(c.alu_op, IF c.alu_src_a = "ALU_A_PC" THEN trace.ex
                                   ELSE ex_rs1_fwd, b)
      BY <2>3, <2>4, <3>1 DEF ex_alu_y, AluY
    <3>3. CASE c.alu_src_a = "ALU_A_PC" \/ ReadsRs1(i.op)
      BY <3>2, <3>3, <2>4 DEF AluY
    <3>4. CASE c.alu_op = "ALU_PASS_B"
      <4>1. x \in [XReg -> Word]
        BY SignalTypes, RegFileType DEF RegsForEx, RegsForMem, TypeOK
      <4>2. RegRead(x, i.rs1) \in Word /\ RegRead(x, i.rs2) \in Word /\ b \in Word
        BY <4>1, <2>2, RegFileType
      <4>3. ex_rs1_fwd \in Word
        BY SignalTypes
      <4>4. QED
        BY <2>1, <3>2, <3>4, <4>2, <4>3, AluAssumption DEF AluY
    <3>5. QED
      BY <3>1, <3>3, <3>4
  <2>6. c.mem_write => ex_rs2_fwd = RegRead(x, i.rs2)
    BY <2>2, <2>4, ReadsCoverUses
  <2>7. QED
    BY <1>1, <1>3, <2>3, <2>5, <2>6 DEF MemSlot, Holds, InstAt
<1>4. QED
  BY <1>2, <1>3
(* The front of the pipeline after a running edge: whatever followed EX    *)
(* now follows MEM, and the fetch address still follows ID.                *)
LEMMA FrontAdvances ==
  ASSUME TypeOK, StagesAgree, ~halted, TCycle
  PROVE  AfterMem' = AfterEx /\ FetchFollows'
<1> USE RunningEdge
<1>1. pc # NoPc
  BY NoPcAssumption DEF TypeOK
<1>2. CASE stall
  <2>1. Holds(trace.id) /\ ~id_redirect
    BY <1>2, StallNeedsTwo DEF StagesAgree, id_redirect
  <2>2. QED
    BY <1>2, <2>1 DEF AfterMem, AfterEx, Holds, FetchFollows, StagesAgree
<1>3. CASE ~stall /\ Holds(trace.id)
  <2>1. AfterMem' = AfterEx
    BY <1>3 DEF AfterMem, AfterEx, Holds
  <2>2. FetchFollows'
    BY <1>3 DEF FetchFollows, Holds, next_pc
  <2>3. QED
    BY <2>1, <2>2
<1>4. CASE ~stall /\ ~Holds(trace.id)
  <2>1. ~id_redirect
    BY <1>4, RedirectNeedsInst DEF StagesAgree
  <2>2. QED
    BY <1>1, <1>4, <2>1 DEF AfterMem, AfterEx, Holds, FetchFollows, next_pc
<1>5. QED
  BY <1>2, <1>3, <1>4

(* A branch leaving ID without a stall decided on the registers it will    *)
(* see in EX: the instruction ahead of it writes none of its operands.     *)
LEMMA BranchDecidesRight ==
  ASSUME TypeOK, StagesAgree, ~halted, TCycle, ~stall, Holds(trace.id)
  PROVE  /\ AfterEx' = NextAfter(trace.id, RegsForEx')
         /\ id_redirect <=> Redirects(trace.id, RegsForEx')
<1> DEFINE i == InstAt(trace.id)
           c == Decode(i)
           y == RegsForEx'
<1> USE FieldTypes, RunningEdge
<1>1. trace.id \in Word /\ pc # NoPc
  BY NoPcAssumption DEF StagesAgree, Trace, Slot, Holds, TypeOK
<1>2. id_inst = i /\ id_ctrl = c /\ if_id.pc = trace.id
  BY DEF StagesAgree, IdSlot, id_ctrl
<1>3. i \in Inst /\ i.rs1 \in Reg /\ i.rs2 \in Reg
  BY <1>1, InstAtType DEF Inst
<1>4. ASSUME NEW r \in Reg, ~Writes(id_ex, r)
      PROVE  Compared(r) = RegRead(y, r)
  <2>1. y = RegWrite(RegsForEx, id_ex.ctrl.reg_write, id_ex.rd_idx, mem_wb_value')
    BY RegsAdvance DEF TCycle
  <2>2. RegRead(y, r) = RegRead(RegsForEx, r)
    BY <1>4, <2>1 DEF RegRead, RegWrite, Writes, XReg
  <2>3. QED
    BY <2>2, ComparedIsCurrent
<1>5. c.branch_op \in CondOp => /\ id_rs1_cmp = RegRead(y, i.rs1)
                                /\ id_rs2_cmp = RegRead(y, i.rs2)
  BY <1>2, <1>3, <1>4
     DEF stall, branch_stall, id_is_cond_branch, id_rs1_cmp, id_rs2_cmp
<1>6. c.jalr => id_rs1_cmp = RegRead(y, i.rs1)
  <2>1. c.jalr => c.branch_op = "BR_JUMP"
    BY <1>3, ReadsCoverUses
  <2>2. QED
    BY <2>1, <1>2, <1>3, <1>4 DEF stall, branch_stall, id_is_jalr, id_rs1_cmp
<1>7. id_target = Target(c, trace.id, i.imm, RegRead(y, i.rs1))
  BY <1>2, <1>6 DEF id_target, Target
<1>8. id_redirect <=> Taken(c.branch_op, RegRead(y, i.rs1), RegRead(y, i.rs2))
  BY <1>2, <1>5 DEF id_redirect, Taken
<1>9. AfterEx' = IF id_redirect THEN id_target ELSE Plus4(trace.id)
  <2>1. CASE id_redirect
    BY <2>1 DEF AfterEx, Holds, next_pc
  <2>2. CASE ~id_redirect
    BY <1>1, <2>2 DEF AfterEx, Holds, StagesAgree, FetchFollows
  <2>3. QED
    BY <2>1, <2>2
<1>10. QED
  BY <1>7, <1>8, <1>9 DEF NextAfter, NextPc, Redirects

(* Only the correct path gets past ID.                                     *)
LEMMA PathRuns ==
  ASSUME TypeOK, StagesAgree, CorrectPath, ~halted, TCycle
  PROVE  CorrectPath'
<1> USE RunningEdge
<1>2. ASSUME Holds(trace'.mem)
      PROVE  AfterMem' = NextAfter(trace.mem, RegsForMem)'
  <2>1. Holds(trace.ex)
    BY <1>2 DEF Holds
  <2>2. AfterEx = NextAfter(trace.ex, RegsForEx)
    BY <2>1 DEF CorrectPath
  <2>3. RegsForMem' = RegsForEx
    BY RegsAdvance DEF TCycle
  <2>4. QED
    BY <2>2, <2>3, FrontAdvances DEF NextAfter, InstAt
<1>3. ASSUME Holds(trace'.ex)
      PROVE  AfterEx' = NextAfter(trace.ex, RegsForEx)'
  <2>1. ~stall /\ Holds(trace.id)
    BY <1>3 DEF Holds
  <2>2. AfterEx' = NextAfter(trace.id, RegsForEx')
    BY <2>1, BranchDecidesRight
  <2>3. QED
    BY <2>1, <2>2 DEF NextAfter, InstAt
<1>4. QED
  BY <1>2, <1>3 DEF CorrectPath, Holds

(* No hazard opens a second bubble next to the first.                      *)
LEMMA BubblesRun ==
  ASSUME TypeOK, StagesAgree, AtMostOneBubble, ~halted, TCycle
  PROVE  AtMostOneBubble'
<1> USE RunningEdge
<1>1. stall => Holds(trace.id) /\ Holds(trace.ex)
  BY StallNeedsTwo DEF StagesAgree
<1>2. id_redirect => Holds(trace.id) /\ ~stall
  BY RedirectNeedsInst DEF StagesAgree
<1>3. pc # NoPc
  BY NoPcAssumption DEF TypeOK
<1>4. QED
  BY <1>1, <1>2, <1>3 DEF AtMostOneBubble, Holds

(* The invariant survives a running edge.                                  *)
LEMMA InvRunning ==
  ASSUME IInv, ~halted, TCycle
  PROVE  IInv'
<1> USE DEF IInv
<1>1. TypeOK'
  BY TypeCycle DEF TCycle
<1>2. HaltLatched'
  BY DEF TCycle, Cycle, ClockHalted, HaltLatched, halted, StagesAgree
<1>3. IdSlot' /\ ExSlot' /\ FreshReads' /\ LoadUse' /\ MemSlot' /\ FetchFollows'
  BY IdSlotRuns, ExSlotRuns, MemSlotRuns, FrontAdvances
<1>4. trace' \in Trace
  BY RunningEdge
<1>5. CorrectPath' /\ AtMostOneBubble'
  BY PathRuns, BubblesRun
<1>6. QED
  BY <1>1, <1>2, <1>3, <1>4, <1>5 DEF StagesAgree

(* The empty pipeline satisfies the invariant.                             *)
Empty ==
  /\ TypeOK
  /\ if_id = IfIdFlushed /\ id_ex = IdExFlushed /\ ex_mem = ExMemFlushed
  /\ mem_hc_carried = "HC_NONE" /\ ex_hc = "HC_NONE"
  /\ halted_q = FALSE /\ trace = NoTrace

(* What reset leaves is a pipeline that agrees with any program.           *)
LEMMA EmptyPipeline == Empty => IInv
<1> SUFFICES ASSUME Empty PROVE IInv
  OBVIOUS
<1> USE DEF Empty
<1>1. ~Holds(trace.id) /\ ~Holds(trace.ex) /\ ~Holds(trace.mem) /\ ~Holds(trace.wb)
      /\ trace \in Trace
  BY DEF NoTrace, Holds, Trace, Slot
<1>2. IdSlot /\ ExSlot /\ MemSlot /\ HaltLatched
  BY <1>1 DEF IdSlot, ExSlot, MemSlot, HaltLatched, Inert, id_inst, IfIdFlushed,
              IdExFlushed, ExMemFlushed
<1>3. FreshReads
  BY DEF FreshReads, IdExFlushed, RegRead
<1>4. QED
  BY <1>1, <1>2, <1>3
     DEF IInv, StagesAgree, LoadUse, FetchFollows, CorrectPath, AtMostOneBubble

(* Every step keeps the inductive invariant.                               *)
LEMMA InvStep == IInv /\ [TNext]_tvars => IInv'
<1> SUFFICES ASSUME IInv, [TNext]_tvars PROVE IInv'
  OBVIOUS
<1>1. CASE TCycle
  BY <1>1, InvFrozen, InvRunning
<1>2. CASE TReset
  <2>1. TypeOK'
    BY <1>2, TypeReset DEF TReset, IInv
  <2>2. Empty'
    BY <1>2, <2>1 DEF TReset, Reset, Empty
  <2>3. QED
    BY <2>2, EmptyPipeline, PTL
<1>3. CASE UNCHANGED tvars
  BY <1>3
     DEF tvars, vars, hcVars, IInv, TypeOK, StagesAgree, HaltLatched, IdSlot, ExSlot,
         FreshReads, LoadUse, MemSlot, FetchFollows, CorrectPath, AtMostOneBubble,
         AfterMem, AfterEx, NextAfter, InstAt, RegsForMem, RegsForEx, halted, id_inst,
         wb_data, mem_wb_value, mem_rdata
<1>4. QED
  BY <1>1, <1>2, <1>3 DEF TNext

(* The stages agree with the program, only the correct path gets past ID   *)
(* and no hazard costs more than one bubble, in every reachable state.     *)
THEOREM InvariantHolds == TSpec => []IInv
<1>1. TInit => IInv
  BY TypeInit, EmptyPipeline DEF TInit, Init, Empty
<1>2. QED
  BY <1>1, InvStep, PTL DEF TSpec
(***************************************************************************)
(* The safety properties, from the invariant.                              *)
(***************************************************************************)

(* Forwarding, the write-first register file and the load-use stall give   *)
(* every instruction in EX the operands program order asks for.            *)
THEOREM OperandsCurrent == TSpec => []OperandsAreCurrent
<1>1. IInv => OperandsAreCurrent
  BY OperandsFromInvariant DEF IInv, OperandsAreCurrent
<1>2. QED
  BY <1>1, InvariantHolds, PTL

(* Nothing but the program's own path gets past the ID stage.              *)
THEOREM PathIsCorrect == TSpec => []CorrectPath
<1>1. IInv => CorrectPath
  BY DEF IInv
<1>2. QED
  BY <1>1, InvariantHolds, PTL

(* Consecutive instructions are at most one bubble apart.                  *)
THEOREM OneBubble == TSpec => []AtMostOneBubble
<1>1. IInv => AtMostOneBubble
  BY DEF IInv
<1>2. QED
  BY <1>1, InvariantHolds, PTL

(* A halted core changes nothing an observer can read until it is reset.   *)
THEOREM HaltFinal == TSpec => HaltIsFinal
<1>1. IInv /\ [TNext]_tvars =>
        [halted => \/ UNCHANGED <<dmem, regs, wb_hc, tohost_value>> /\ halted'
                   \/ Reset]_vars
  <2> SUFFICES ASSUME IInv, [TNext]_tvars, halted, ~UNCHANGED vars, ~Reset
               PROVE  UNCHANGED <<dmem, regs, wb_hc, tohost_value>> /\ halted'
    OBVIOUS
  <2>1. Cycle
    BY DEF TNext, TCycle, TReset, tvars
  <2>2. QED
    BY <2>1, FrozenEdge DEF IInv, StagesAgree, hcVars
<1>2. QED
  BY <1>1, InvariantHolds, PTL DEF TSpec, HaltIsFinal

(* A stall is a wait for a result that is not there yet.                   *)
LEMMA StallMustWait ==
  ASSUME TypeOK, StagesAgree, stall
  PROVE  MustWait(trace.id, trace.ex)
<1> DEFINE i == InstAt(trace.id)
           j == InstAt(trace.ex)
<1>1. Holds(trace.id) /\ Holds(trace.ex)
  BY StallNeedsTwo DEF StagesAgree
<1>2. trace.id \in Word /\ trace.ex \in Word
  BY <1>1 DEF StagesAgree, Trace, Slot, Holds
<1>3. i \in Inst /\ j \in Inst
  BY <1>2, InstAtType
<1>4. id_inst = i /\ id_ctrl = Decode(i) /\ id_ex.ctrl = Decode(j) /\ id_ex.rd_idx = j.rd
  BY <1>1 DEF StagesAgree, IdSlot, ExSlot, id_ctrl
<1>5. CASE load_use_stall
  <2>1. Decode(j).mem_read => Decode(j).reg_write
    BY <1>3, LoadWritesBack
  <2>2. QED
    BY <1>4, <1>5, <2>1 DEF load_use_stall, MustWait
<1>6. CASE branch_stall
  <2>1. /\ id_is_cond_branch => i.op = "OP_BRANCH" /\ ReadsRs1(i.op) /\ ReadsRs2(i.op)
        /\ id_is_jalr => i.op = "OP_JALR" /\ ReadsRs1(i.op)
    BY <1>3, <1>4, ReadsCoverUses DEF id_is_cond_branch, id_is_jalr
  <2>2. QED
    BY <1>4, <1>6, <2>1 DEF branch_stall, Writes, MustWait
<1>7. QED
  BY <1>5, <1>6 DEF stall

(* The pipeline loses a cycle only where its documentation says it must.   *)
THEOREM BubblesEarned == TSpec => []BubblesAreEarned
<1>1. TInit => BubblesAreEarned
  BY DEF TInit, NoTrace, BubblesAreEarned, Holds
<1>2. IInv /\ BubblesAreEarned /\ [TNext]_tvars => BubblesAreEarned'
  <2> SUFFICES ASSUME IInv, BubblesAreEarned, [TNext]_tvars
               PROVE  BubblesAreEarned'
    OBVIOUS
  <2> USE DEF IInv
  <2>1. CASE TCycle /\ halted
    BY <2>1, FrozenEdge DEF TCycle, StagesAgree, BubblesAreEarned
  <2>2. CASE TCycle /\ ~halted
    <3>1. imem' = imem /\ RegsForMem' = RegsForEx
      BY <2>2, RunningEdge, RegsAdvance DEF TCycle
    <3>2. ASSUME Holds(trace'.ex), ~Holds(trace'.id)
          PROVE  Redirects(trace.ex, RegsForEx)'
      <4>1. ~stall /\ Holds(trace.id) /\ trace'.ex = trace.id
        BY <2>2, <3>2, RunningEdge DEF Holds
      <4>2. id_redirect
        BY <2>2, <3>2, <4>1, RunningEdge, NoPcAssumption DEF Holds, TypeOK
      <4>3. Redirects(trace.id, RegsForEx')
        BY <2>2, <4>1, <4>2, BranchDecidesRight
      <4>4. QED
        BY <3>1, <4>1, <4>3 DEF Redirects, InstAt
    <3>3. ASSUME Holds(trace'.mem), ~Holds(trace'.ex)
          PROVE  \/ Redirects(trace.mem, RegsForMem)'
                 \/ Holds(trace'.id) /\ MustWait(trace.id, trace.mem)'
      <4>1. trace'.mem = trace.ex /\ Holds(trace.ex)
        BY <2>2, <3>3, RunningEdge
      <4>2. CASE stall
        <5>1. MustWait(trace.id, trace.ex) /\ trace'.id = trace.id /\ Holds(trace.id)
          BY <2>2, <4>2, RunningEdge, StallMustWait, StallNeedsTwo
             DEF id_redirect, StagesAgree
        <5>2. QED
          BY <3>1, <4>1, <5>1 DEF MustWait, InstAt
      <4>3. CASE ~stall
        <5>1. ~Holds(trace.id)
          BY <2>2, <3>3, <4>3, RunningEdge
        <5>2. Redirects(trace.ex, RegsForEx)
          BY <2>2, <4>1, <5>1 DEF BubblesAreEarned
        <5>3. QED
          BY <3>1, <4>1, <5>2 DEF Redirects, InstAt
      <4>4. QED
        BY <4>2, <4>3
    <3>4. QED
      BY <3>2, <3>3 DEF BubblesAreEarned, Holds
  <2>3. CASE TReset
    BY <2>3 DEF TReset, NoTrace, BubblesAreEarned, Holds
  <2>4. CASE UNCHANGED tvars
    BY <2>4 DEF tvars, vars, hcVars, BubblesAreEarned, Redirects, MustWait, InstAt,
                RegsForMem, RegsForEx, halted, wb_data, mem_wb_value, mem_rdata
  <2>5. QED
    BY <2>1, <2>2, <2>3, <2>4 DEF TNext
<1>3. QED
  BY <1>1, <1>2, InvariantHolds, PTL DEF TSpec

(***************************************************************************)
(* The refinement: the pipeline implements the one-instruction-at-a-time   *)
(* machine of module Isa, for every program, every ALU and every number of *)
(* resets.                                                                 *)
(***************************************************************************)

(***************************************************************************)
(* The instance A has its own copies of the units; they are the same.      *)
(***************************************************************************)

(* Both machines decode alike.                                             *)
LEMMA SameDecode ==
  ASSUME NEW i
  PROVE  A!Decode(i) = Decode(i) /\ A!IdHc(i) = IdHc(i)
<1>1. A!IsLoad(i) = IsLoad(i) /\ A!IsStore(i) = IsStore(i) /\ A!IsIllegal(i) = IsIllegal(i)
  BY DEF A!IsLoad, IsLoad, A!IsStore, IsStore, A!IsIllegal, IsIllegal,
         A!LoadF3, LoadF3, A!StoreF3, StoreF3, A!BranchF3, BranchF3
<1>2. A!BranchKind(i) = BranchKind(i)
  BY DEF A!BranchKind, BranchKind
<1>3. A!AccessSize(i) = AccessSize(i)
  BY <1>1 DEF A!AccessSize, AccessSize
<1>4. A!ArithOp(i) = ArithOp(i)
  BY DEF A!ArithOp, ArithOp, A!F3_ADD_SUB, A!F3_SLL, A!F3_SLT, A!F3_SLTU, A!F3_XOR,
         A!F3_SR, A!F3_OR, F3_ADD_SUB, F3_SLL, F3_SLT, F3_SLTU, F3_XOR, F3_SR, F3_OR
<1>5. A!Decode(i) = Decode(i)
  BY <1>1, <1>2, <1>3, <1>4 DEF A!Decode, Decode
<1>6. A!IdHc(i) = IdHc(i)
  BY <1>5 DEF A!IdHc, IdHc, A!IsSystem, IsSystem
<1>7. QED
  BY <1>5, <1>6

(* Both machines execute alike.                                            *)
LEMMA SameExecute ==
  ASSUME NEW c, NEW p, NEW imm, NEW a, NEW b
  PROVE  /\ A!NextPc(c, p, imm, a, b) = NextPc(c, p, imm, a, b)
         /\ A!AluY(c, p, imm, a, b) = AluY(c, p, imm, a, b)
  BY DEF A!NextPc, NextPc, A!Taken, Taken, A!Target, Target, A!CondOp, CondOp,
         A!AluY, AluY

(* Both machines have the same registers and the same memory.              *)
LEMMA SameState ==
  ASSUME NEW x, NEW y, NEW z, NEW u, NEW v
  PROVE  /\ A!RegRead(x, y) = RegRead(x, y)
         /\ A!RegWrite(x, y, z, u) = RegWrite(x, y, z, u)
         /\ A!MemRead(x, y, z) = MemRead(x, y, z)
         /\ A!MemWrite(x, y, z, u, v) = MemWrite(x, y, z, u, v)
         /\ A!Misaligned(x, y, z, u) <=> Misaligned(x, y, z, u)
         /\ A!IsTohost(x) <=> IsTohost(x)
         /\ A!WbData(x, y, z, u) = WbData(x, y, z, u)
         /\ A!XReg = XReg
  BY DEF A!RegRead, RegRead, A!RegWrite, RegWrite, A!MemRead, MemRead, A!MemWrite,
         MemWrite, A!Misaligned, Misaligned, A!IsTohost, IsTohost, A!IsMmio, IsMmio,
         A!WbData, WbData, A!XReg, A!Reg, XReg, Reg

(* A reset pipeline stands for the reset machine.                          *)
LEMMA ResetMapsToReset ==
  ASSUME TypeOK, pc = PC_RESET, regs = [r \in XReg |-> Zero],
         mem_wb = MemWbFlushed, wb_hc = "HC_NONE", trace = NoTrace
  PROVE  ArchPc = PC_RESET /\ ArchRegs = [r \in XReg |-> Zero]
<1>1. ArchPc = PC_RESET
  BY DEF ArchPc, AfterMem, AfterEx, Holds, NoTrace
<1>2. ArchRegs = [r \in XReg |-> Zero]
  BY DEF ArchRegs, RegWrite, MemWbFlushed, Bubble
<1>3. QED
  BY <1>1, <1>2

(* While running, the abstract registers are those the MEM stage sees.     *)
LEMMA ArchRegsRunning ==
  ASSUME TypeOK, wb_hc = "HC_NONE"
  PROVE  ArchRegs = RegsForMem
  BY FieldTypes DEF ArchRegs, RegsForMem, RegWrite, Control

(* After a running edge: the registers commit with the instruction that    *)
(* leaves MEM, unless it halts.                                            *)
LEMMA ArchAfterEdge ==
  ASSUME IInv, ~halted, TCycle
  PROVE  /\ ArchRegs' = IF mem_hc = "HC_NONE" THEN RegsForEx ELSE RegsForMem
         /\ ArchPc' = IF mem_hc = "HC_NONE" THEN AfterMem ELSE trace.mem
<1> USE DEF IInv
<1>1. /\ wb_hc' = mem_hc /\ trace'.wb = trace.mem /\ trace'.mem = trace.ex
  BY RunningEdge
<1>2. /\ regs' = RegsForMem
      /\ mem_wb'.ctrl = ex_mem.ctrl /\ mem_wb'.rd_idx = ex_mem.rd_idx
      /\ wb_data' = mem_wb_value
  BY RegsAdvance DEF TCycle, Cycle, ClockMemWb, pipe_en, wb_data, mem_wb_value
<1>3. CASE mem_hc = "HC_NONE"
  <2>1. ArchRegs' = RegsForEx
    BY <1>1, <1>2, <1>3, FieldTypes DEF ArchRegs, RegsForEx, RegWrite, Control
  <2>2. ArchPc' = AfterMem
    BY <1>1, <1>3, FrontAdvances DEF ArchPc, AfterMem, Holds
  <2>3. QED
    BY <1>3, <2>1, <2>2
<1>4. CASE mem_hc # "HC_NONE"
  <2>1. ArchRegs' = RegsForMem
    BY <1>1, <1>2, <1>4 DEF ArchRegs, RegWrite, RegsForMem
  <2>2. QED
    BY <1>1, <1>4, <2>1 DEF ArchPc
<1>5. QED
  BY <1>3, <1>4

(* An edge with a bubble in MEM changes nothing the machine can see.       *)
LEMMA BubbleStutters ==
  ASSUME IInv, ~halted, TCycle, ~Holds(trace.mem)
  PROVE  UNCHANGED A!isaVars
<1> USE DEF IInv
<1>1. /\ Inert(ex_mem.ctrl) /\ ex_mem.rd_idx = 0 /\ mem_hc_carried = "HC_NONE"
  BY DEF StagesAgree, MemSlot
<1>2. ~ex_mem.ctrl.mem_read /\ ~ex_mem.ctrl.mem_write
  BY <1>1, InertFacts
<1>3. mem_hc = "HC_NONE" /\ ~tohost_we /\ ~mem_write
  BY <1>1, <1>2 DEF mem_hc, mem_misaligned, tohost_we, mem_write, Misaligned
<1>4. wb_hc = "HC_NONE"
  BY DEF halted
<1>5. ArchRegs = RegsForMem /\ RegsForEx = RegsForMem
  <2>1. RegsForEx = RegsForMem
    BY <1>1 DEF RegsForEx, RegsForMem, RegWrite, XReg
  <2>2. QED
    BY <1>4, <2>1, ArchRegsRunning
<1>6. ArchPc = AfterMem
  BY <1>4 DEF ArchPc
<1>7. ArchRegs' = ArchRegs /\ ArchPc' = ArchPc
  BY <1>3, <1>5, <1>6, ArchAfterEdge
<1>8. UNCHANGED <<imem, dmem, tohost_value>> /\ wb_hc' = wb_hc
  <2>1. wb_hc' = wb_hc
    BY <1>3, <1>4, RunningEdge
  <2>2. QED
    BY <1>3, <2>1 DEF TCycle, Cycle, ClockDmem, ClockHalted, MemWrite
<1>9. QED
  BY <1>7, <1>8 DEF A!isaVars

(* An edge with an instruction in MEM executes exactly that instruction,   *)
(* or halts on it.                                                         *)
LEMMA InstructionSteps ==
  ASSUME IInv, ~halted, TCycle, Holds(trace.mem)
  PROVE  A!Execute \/ A!Halt
<1> DEFINE i == InstAt(trace.mem)
           c == Decode(i)
           x == RegsForMem
           y == AluY(c, trace.mem, i.imm, RegRead(x, i.rs1), RegRead(x, i.rs2))
<1> USE DEF IInv
<1>1. wb_hc = "HC_NONE" /\ ArchRegs = x /\ ArchPc = trace.mem
  BY ArchRegsRunning DEF halted, ArchPc
<1>2. trace.mem \in Word /\ i \in Inst /\ c \in Control
  <2>1. trace.mem \in Word
    BY DEF StagesAgree, Trace, Slot, Holds
  <2>2. QED
    BY <2>1, InstAtType
<1>3. /\ ex_mem.ctrl = c /\ ex_mem.rd_idx = i.rd /\ ex_mem.pc4 = Plus4(trace.mem)
      /\ mem_hc_carried = IdHc(i)
      /\ c.reg_write \/ c.mem_read \/ c.mem_write => ex_mem.alu_y = y
      /\ c.mem_write => ex_mem.rs2_val = RegRead(x, i.rs2)
  BY DEF StagesAgree, MemSlot
<1>4. /\ A!inst = i /\ A!ctrl = c
      /\ A!rs1v = RegRead(x, i.rs1) /\ A!rs2v = RegRead(x, i.rs2) /\ A!alu_y = y
  <2>1. A!inst = i
    BY <1>1 DEF A!inst, InstAt
  <2>2. A!ctrl = c
    BY <2>1, SameDecode DEF A!ctrl
  <2>3. A!rs1v = RegRead(x, i.rs1) /\ A!rs2v = RegRead(x, i.rs2)
    BY <2>1, <1>1, SameState DEF A!rs1v, A!rs2v
  <2>4. A!alu_y = y
    BY <2>1, <2>2, <2>3, <1>1, SameExecute DEF A!alu_y
  <2>5. QED
    BY <2>1, <2>2, <2>3, <2>4
<1>5. mem_write = c.mem_write
  BY <1>2, <1>3 DEF mem_write, pipe_en, Control
<1>6. /\ mem_misaligned <=> Misaligned(c.mem_read, c.mem_write, c.mem_size, y)
      /\ tohost_we <=> c.mem_write /\ IsTohost(y)
  BY <1>3, <1>5 DEF mem_misaligned, tohost_we, Misaligned
<1>7. A!HaltOf = mem_hc
  <2>1. /\ A!Misaligned(c.mem_read, c.mem_write, c.mem_size, y) <=> mem_misaligned
        /\ c.mem_write /\ A!IsTohost(y) <=> tohost_we
        /\ A!IdHc(i) = mem_hc_carried
    BY <1>3, <1>6, SameState, SameDecode
  <2>2. QED
    BY <2>1, <1>4 DEF A!HaltOf, mem_hc
<1>8. imem' = imem /\ wb_hc' = mem_hc
  BY RunningEdge
<1>9. CASE mem_hc = "HC_NONE"
  <2>1. ArchPc' = NextPc(c, trace.mem, i.imm, RegRead(x, i.rs1), RegRead(x, i.rs2))
    <3>1. AfterMem = NextAfter(trace.mem, RegsForMem)
      BY DEF CorrectPath
    <3>2. QED
      BY <1>9, <3>1, ArchAfterEdge DEF NextAfter
  <2>2. ArchRegs' = RegWrite(x, c.reg_write, i.rd,
                       WbData(c.wb_src, y, MemRead(dmem, c, y), Plus4(trace.mem)))
    <3>1. ArchRegs' = RegWrite(x, c.reg_write, i.rd, mem_wb_value)
      BY <1>3, <1>9, ArchAfterEdge DEF RegsForEx
    <3>2. c.reg_write => mem_wb_value = WbData(c.wb_src, y, MemRead(dmem, c, y),
                                               Plus4(trace.mem))
      BY <1>3 DEF mem_wb_value, mem_rdata
    <3>3. QED
      BY <3>1, <3>2 DEF RegWrite
  <2>3. dmem' = MemWrite(dmem, c.mem_write, c.mem_size, y, RegRead(x, i.rs2))
    BY <1>3, <1>5 DEF TCycle, Cycle, ClockDmem, MemWrite
  <2>4. tohost_value' = tohost_value
    BY <1>9 DEF TCycle, Cycle, ClockHalted, mem_hc, mem_misaligned, Misaligned,
                tohost_we, IsMmio, IsTohost
  <2>5. A!Execute
    <3>1. wb_hc = "HC_NONE" /\ A!HaltOf = "HC_NONE"
      BY <1>1, <1>7, <1>9
    <3>2. ArchPc' = A!NextPc(A!ctrl, ArchPc, A!inst.imm, A!rs1v, A!rs2v)
      BY <1>1, <1>4, <2>1, SameExecute
    <3>3. ArchRegs' = A!RegWrite(ArchRegs, A!ctrl.reg_write, A!inst.rd,
                        A!WbData(A!ctrl.wb_src, A!alu_y, A!MemRead(dmem, A!ctrl, A!alu_y),
                                 Plus4(ArchPc)))
      BY <1>1, <1>4, <2>2, SameState, SameExecute
    <3>4. dmem' = A!MemWrite(dmem, A!ctrl.mem_write, A!ctrl.mem_size, A!alu_y, A!rs2v)
      BY <1>4, <2>3, SameState
    <3>5. UNCHANGED <<imem, wb_hc, tohost_value>>
      BY <1>1, <1>8, <1>9, <2>4
    <3>6. QED
      BY <3>1, <3>2, <3>3, <3>4, <3>5 DEF A!Execute
  <2>6. QED
    BY <2>5
<1>10. CASE mem_hc # "HC_NONE"
  <2>1. ArchPc' = ArchPc /\ ArchRegs' = ArchRegs
    BY <1>1, <1>10, ArchAfterEdge
  <2>2. dmem' = dmem
    <3>1. ASSUME mem_write, ~IsMmio(ex_mem.alu_y),
                 ~Unaligned(ex_mem.ctrl.mem_size, ByteOff(ex_mem.alu_y))
          PROVE  FALSE
      <4>1. ~mem_misaligned /\ ~tohost_we
        BY <3>1 DEF mem_misaligned, Misaligned, tohost_we, IsMmio, IsTohost
      <4>2. IdHc(i) # "HC_NONE"
        BY <1>3, <1>10, <4>1 DEF mem_hc
      <4>3. QED
        BY <1>2, <1>5, <3>1, <4>2, HaltingIsInert
    <3>2. QED
      BY <3>1 DEF TCycle, Cycle, ClockDmem, MemWrite
  <2>3. tohost_value' = IF mem_hc = "HC_TOHOST" THEN RegRead(x, i.rs2) ELSE tohost_value
    <3>1. IdHc(i) # "HC_TOHOST"
      BY DEF IdHc
    <3>2. mem_hc = "HC_TOHOST" <=> tohost_we
      BY <1>3, <3>1 DEF mem_hc, mem_misaligned, Misaligned, tohost_we, IsMmio, IsTohost
    <3>3. tohost_we => ex_mem.rs2_val = RegRead(x, i.rs2)
      BY <1>3, <1>6
    <3>4. QED
      BY <3>2, <3>3 DEF TCycle, Cycle, ClockHalted
  <2>4. A!Halt
    BY <1>1, <1>4, <1>7, <1>8, <1>10, <2>1, <2>2, <2>3 DEF A!Halt
  <2>5. QED
    BY <2>4
<1>11. QED
  BY <1>9, <1>10

(* Every step of the pipeline is a step of the machine or invisible.       *)
LEMMA StepRefines == IInv /\ [TNext]_tvars => [A!IsaNext]_(A!isaVars)
<1> SUFFICES ASSUME IInv, [TNext]_tvars PROVE [A!IsaNext]_(A!isaVars)
  OBVIOUS
<1>1. CASE TCycle /\ halted
  <2>1. /\ UNCHANGED <<imem, dmem, regs, mem_wb, hcVars, tohost_value>>
        /\ wb_hc # "HC_NONE" /\ trace'.wb = trace.wb
    BY <1>1, FrozenEdge
       DEF IInv, StagesAgree, HaltLatched, halted, TCycle, ClockTrace, pipe_en
  <2>2. ArchPc' = ArchPc /\ ArchRegs' = ArchRegs
    BY <2>1 DEF ArchPc, ArchRegs, wb_data, hcVars
  <2>3. QED
    BY <2>1, <2>2 DEF A!isaVars, hcVars
<1>2. CASE TCycle /\ ~halted
  BY <1>2, BubbleStutters, InstructionSteps DEF A!IsaNext
<1>3. CASE TReset
  <2>1. ArchPc' = PC_RESET
    BY <1>3 DEF TReset, Reset, ArchPc, AfterMem, AfterEx, Holds, NoTrace
  <2>2. ArchRegs' = [r \in XReg |-> Zero]
    BY <1>3 DEF TReset, Reset, ArchRegs, RegWrite, MemWbFlushed, Bubble
  <2>3. QED
    BY <1>3, <2>1, <2>2, SameState DEF TReset, Reset, A!IsaNext, A!Restart
<1>4. CASE UNCHANGED tvars
  BY <1>4 DEF tvars, vars, hcVars, A!isaVars, ArchPc, AfterMem, AfterEx, ArchRegs, wb_data
<1>5. QED
  BY <1>1, <1>2, <1>3, <1>4 DEF TNext

(* Instructions take effect one at a time and in program order, whatever   *)
(* hazards, branches, halts and resets the pipeline goes through.          *)
THEOREM PipelineImplementsIsa == TSpec => ImplementsIsa
<1>1. TInit => A!IsaInit
  <2> SUFFICES ASSUME TInit PROVE A!IsaInit
    OBVIOUS
  <2>1. TypeOK /\ ArchPc = PC_RESET /\ ArchRegs = [r \in XReg |-> Zero]
    BY TypeInit, ResetMapsToReset DEF TInit, Init
  <2>2. imem \in [IMemIdx -> A!Inst]
    BY <2>1 DEF TypeOK, A!Inst, Inst, A!Opcode, Opcode, A!Funct3, Funct3, A!Funct7,
                Funct7, A!Funct12, Funct12, A!Reg, Reg
  <2>3. QED
    BY <2>1, <2>2, SameState DEF TInit, Init, TypeOK, A!IsaInit
<1>2. QED
  BY <1>1, InvariantHolds, StepRefines, PTL DEF TSpec, ImplementsIsa, A!IsaSpec
=============================================================================
