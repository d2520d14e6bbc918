------------------------------ MODULE Pipeline ------------------------------
(***************************************************************************)
(* The five-stage pipeline (rtl/top_pipeline.sv with its pipeline          *)
(* registers, hazard unit, forwarding unit and register file).             *)
(*                                                                         *)
(* The variables are the flip-flops and memories.  Every other signal of   *)
(* the RTL is combinational: a state function here, under the RTL's name.  *)
(* The two actions are the two kinds of clock edge, Cycle with rst low and *)
(* Reset with rst high.                                                    *)
(***************************************************************************)
EXTENDS Units

VARIABLES
  imem, dmem,      \* the two memories
  pc,              \* pc_register: if_pc
  regs,            \* reg_file: xregs
  if_id,           \* [pc, pc4, inst]
  id_ex,           \* [ctrl, pc, pc4, rs1_val, rs2_val, imm, rs1_idx, rs2_idx, rd_idx]
  ex_mem,          \* [ctrl, alu_y, rs2_val, rd_idx, pc4]
  mem_wb,          \* [ctrl, alu_y, mem_rdata, rd_idx, pc4]
  ex_hc, mem_hc_carried, wb_hc,   \* the shadow halt-cause pipeline
  halted_q, tohost_value

hcVars == <<ex_hc, mem_hc_carried, wb_hc>>
vars == <<imem, dmem, pc, regs, if_id, id_ex, ex_mem, mem_wb, hcVars,
          halted_q, tohost_value>>

IfId  == [pc: Word, pc4: Word, inst: Inst]
IdEx  == [ctrl: Control, pc: Word, pc4: Word, rs1_val: Word, rs2_val: Word,
          imm: Word, rs1_idx: Reg, rs2_idx: Reg, rd_idx: Reg]
ExMem == [ctrl: Control, alu_y: Word, rs2_val: Word, rd_idx: Reg, pc4: Word]
MemWb == [ctrl: Control, alu_y: Word, mem_rdata: Word, rd_idx: Reg, pc4: Word]

(* What reset and flush leave in each pipeline register.                   *)
IfIdFlushed  == [pc |-> Zero, pc4 |-> Zero, inst |-> NOP_INST]
IdExFlushed  == [ctrl |-> Bubble, pc |-> Zero, pc4 |-> Zero,
                 rs1_val |-> Zero, rs2_val |-> Zero, imm |-> Zero,
                 rs1_idx |-> 0, rs2_idx |-> 0, rd_idx |-> 0]
ExMemFlushed == [ctrl |-> Bubble, alu_y |-> Zero, rs2_val |-> Zero,
                 rd_idx |-> 0, pc4 |-> Zero]
MemWbFlushed == [ctrl |-> Bubble, alu_y |-> Zero, mem_rdata |-> Zero,
                 rd_idx |-> 0, pc4 |-> Zero]

(* The state after the power-up reset, with the images the plusargs name.  *)
Init ==
  /\ imem \in Programs
  /\ dmem \in DataImages
  /\ pc = PC_RESET
  /\ regs = [r \in XReg |-> Zero]
  /\ if_id = IfIdFlushed
  /\ id_ex = IdExFlushed
  /\ ex_mem = ExMemFlushed
  /\ mem_wb = MemWbFlushed
  /\ ex_hc = "HC_NONE" /\ mem_hc_carried = "HC_NONE" /\ wb_hc = "HC_NONE"
  /\ halted_q = FALSE
  /\ tohost_value = Zero

(***************************************************************************)
(* Halt and enable signals.                                                *)
(***************************************************************************)
halted  == wb_hc # "HC_NONE" \/ halted_q
pipe_en == ~halted

(***************************************************************************)
(* WB stage.  The write port of the register file is shut once halted.     *)
(***************************************************************************)
wb_data == WbData(mem_wb.ctrl.wb_src, mem_wb.alu_y, mem_wb.mem_rdata, mem_wb.pc4)
wb_we   == mem_wb.ctrl.reg_write /\ ~halted

(* A stage writes register r: its instruction has reg_write and rd = r.    *)
Writes(stage, r) == stage.ctrl.reg_write /\ stage.rd_idx # 0 /\ stage.rd_idx = r

(***************************************************************************)
(* MEM stage.                                                              *)
(***************************************************************************)
(* Mutant of mem_write: the store in MEM is not held back by a halt.       *)
mem_write_ungated == ex_mem.ctrl.mem_write

mem_write      == ex_mem.ctrl.mem_write /\ pipe_en
mem_rdata      == MemRead(dmem, ex_mem.ctrl, ex_mem.alu_y)
mem_misaligned == Misaligned(ex_mem.ctrl.mem_read, mem_write,
                             ex_mem.ctrl.mem_size, ex_mem.alu_y)
tohost_we      == mem_write /\ IsTohost(ex_mem.alu_y)
mem_wb_value   == WbData(ex_mem.ctrl.wb_src, ex_mem.alu_y, mem_rdata, ex_mem.pc4)

mem_hc ==
  IF mem_misaligned THEN "HC_MISALIGNED"
  ELSE IF tohost_we THEN "HC_TOHOST"
  ELSE mem_hc_carried

(***************************************************************************)
(* EX stage.  The younger producer, in MEM, is forwarded before the one in *)
(* WB.  mem_fwd_value has no load data: the load-use stall keeps a load in *)
(* MEM from being consumed here.                                           *)
(***************************************************************************)
mem_fwd_value ==
  IF ex_mem.ctrl.wb_src = "WB_PC4" THEN ex_mem.pc4 ELSE ex_mem.alu_y

(* Mutant of Forward: the older producer, in WB, wins.                     *)
ForwardOldest(idx, val) ==
  IF Writes(mem_wb, idx) THEN wb_data
  ELSE IF Writes(ex_mem, idx) THEN mem_fwd_value
  ELSE val

Forward(idx, val) ==
  IF Writes(ex_mem, idx) THEN mem_fwd_value
  ELSE IF Writes(mem_wb, idx) THEN wb_data
  ELSE val

ex_rs1_fwd == Forward(id_ex.rs1_idx, id_ex.rs1_val)
ex_rs2_fwd == Forward(id_ex.rs2_idx, id_ex.rs2_val)
ex_alu_y   == AluY(id_ex.ctrl, id_ex.pc, id_ex.imm, ex_rs1_fwd, ex_rs2_fwd)

(***************************************************************************)
(* ID stage.                                                               *)
(***************************************************************************)
id_inst == if_id.inst
id_ctrl == Decode(id_inst)

(* The register file is write-first: a read sees the write of this cycle.  *)
RegFileRead(r) ==
  IF r = 0 THEN Zero
  ELSE IF wb_we /\ mem_wb.rd_idx = r THEN wb_data
  ELSE regs[r]

(* Mutants of load_use_stall: it overlooks rs2; it compares both register  *)
(* fields whatever the opcode reads; it also waits for a load that is      *)
(* already in MEM.                                                         *)
load_use_rs1_only ==
  /\ id_ex.ctrl.mem_read /\ id_ex.rd_idx # 0
  /\ ReadsRs1(id_inst.op) /\ id_ex.rd_idx = id_inst.rs1

load_use_any_field ==
  id_ex.ctrl.mem_read /\ id_ex.rd_idx # 0 /\ id_ex.rd_idx \in {id_inst.rs1, id_inst.rs2}

load_use_twice ==
  \E load \in {[c |-> id_ex.ctrl, rd |-> id_ex.rd_idx],
               [c |-> ex_mem.ctrl, rd |-> ex_mem.rd_idx]} :
    /\ load.c.mem_read /\ load.rd # 0
    /\ \/ ReadsRs1(id_inst.op) /\ load.rd = id_inst.rs1
       \/ ReadsRs2(id_inst.op) /\ load.rd = id_inst.rs2

load_use_stall ==
  /\ id_ex.ctrl.mem_read
  /\ id_ex.rd_idx # 0
  /\ \/ ReadsRs1(id_inst.op) /\ id_ex.rd_idx = id_inst.rs1
     \/ ReadsRs2(id_inst.op) /\ id_ex.rd_idx = id_inst.rs2

(* Branches and JALR compare in ID; a producer still in EX stalls them.    *)
id_is_cond_branch == id_ctrl.branch_op \in CondOp
id_is_jalr        == id_ctrl.branch_op = "BR_JUMP" /\ id_ctrl.jalr

(* Mutant of branch_stall: none at all.                                    *)
branch_no_stall == FALSE

branch_stall ==
  \/ (id_is_cond_branch \/ id_is_jalr) /\ Writes(id_ex, id_inst.rs1)
  \/ id_is_cond_branch /\ Writes(id_ex, id_inst.rs2)

stall    == load_use_stall \/ branch_stall
front_en == ~halted /\ ~stall

(* MEM-to-ID forwarding into the comparator, load data included.           *)
Compared(r) == IF Writes(ex_mem, r) THEN mem_wb_value ELSE RegFileRead(r)
id_rs1_cmp == Compared(id_inst.rs1)
id_rs2_cmp == Compared(id_inst.rs2)

id_target   == Target(id_ctrl, if_id.pc, id_inst.imm, id_rs1_cmp)
id_redirect == Taken(id_ctrl.branch_op, id_rs1_cmp, id_rs2_cmp) /\ ~stall

(* Mutant of next_pc: the fetch address is wider than a word.               *)
next_pc_wide == IF id_redirect THEN id_target ELSE pc + 4

next_pc == IF id_redirect THEN id_target ELSE Plus4(pc)

(***************************************************************************)
(* The clock edge with rst low, one conjunct group per register.  A flush  *)
(* wins over the enable in IF/ID and ID/EX.                                *)
(***************************************************************************)
ClockPc == pc' = IF front_en THEN next_pc ELSE pc

ClockIfId ==
  if_id' = IF id_redirect THEN IfIdFlushed
           ELSE IF front_en
           THEN [pc |-> pc, pc4 |-> Plus4(pc), inst |-> imem[ImemIdx(pc)]]
           ELSE if_id

(* Mutant of ClockIdEx: a stall holds ID/EX instead of bubbling it.        *)
ClockIdExHeld ==
  id_ex' = IF pipe_en /\ ~stall
           THEN [ctrl |-> id_ctrl, pc |-> if_id.pc, pc4 |-> if_id.pc4,
                 rs1_val |-> RegFileRead(id_inst.rs1),
                 rs2_val |-> RegFileRead(id_inst.rs2),
                 imm |-> id_inst.imm,
                 rs1_idx |-> id_inst.rs1, rs2_idx |-> id_inst.rs2,
                 rd_idx |-> id_inst.rd]
           ELSE id_ex

ClockIdEx ==
  id_ex' = IF stall THEN IdExFlushed
           ELSE IF pipe_en
           THEN [ctrl |-> id_ctrl, pc |-> if_id.pc, pc4 |-> if_id.pc4,
                 rs1_val |-> RegFileRead(id_inst.rs1),
                 rs2_val |-> RegFileRead(id_inst.rs2),
                 imm |-> id_inst.imm,
                 rs1_idx |-> id_inst.rs1, rs2_idx |-> id_inst.rs2,
                 rd_idx |-> id_inst.rd]
           ELSE id_ex

ClockExMem ==
  ex_mem' = IF pipe_en
            THEN [ctrl |-> id_ex.ctrl, alu_y |-> ex_alu_y, rs2_val |-> ex_rs2_fwd,
                  rd_idx |-> id_ex.rd_idx, pc4 |-> id_ex.pc4]
            ELSE ex_mem

ClockMemWb ==
  mem_wb' = IF pipe_en
            THEN [ctrl |-> ex_mem.ctrl, alu_y |-> ex_mem.alu_y,
                  mem_rdata |-> mem_rdata, rd_idx |-> ex_mem.rd_idx,
                  pc4 |-> ex_mem.pc4]
            ELSE mem_wb

ClockRegFile == regs' = RegWrite(regs, wb_we, mem_wb.rd_idx, wb_data)

ClockDmem ==
  dmem' = MemWrite(dmem, mem_write, ex_mem.ctrl.mem_size, ex_mem.alu_y,
                   ex_mem.rs2_val)

ClockHaltCause ==
  IF pipe_en
  THEN /\ ex_hc' = IF stall THEN "HC_NONE" ELSE IdHc(id_inst)
       /\ mem_hc_carried' = ex_hc
       /\ wb_hc' = mem_hc
  ELSE UNCHANGED hcVars

ClockHalted ==
  /\ halted_q' = (halted_q \/ halted)
  /\ tohost_value' = IF tohost_we /\ ~halted THEN ex_mem.rs2_val ELSE tohost_value

Cycle ==
  /\ ClockPc /\ ClockIfId /\ ClockIdEx /\ ClockExMem /\ ClockMemWb
  /\ ClockRegFile /\ ClockDmem
  /\ ClockHaltCause /\ ClockHalted
  /\ UNCHANGED imem

(* Mutant of Reset: it leaves the halt cause in WB.                        *)
ResetKeepsCause ==
  /\ pc' = PC_RESET
  /\ regs' = [r \in XReg |-> Zero]
  /\ if_id' = IfIdFlushed
  /\ id_ex' = IdExFlushed
  /\ ex_mem' = ExMemFlushed
  /\ mem_wb' = MemWbFlushed
  /\ ex_hc' = "HC_NONE" /\ mem_hc_carried' = "HC_NONE" /\ wb_hc' = wb_hc
  /\ halted_q' = FALSE
  /\ tohost_value' = Zero
  /\ UNCHANGED <<imem, dmem>>

(* The clock edge with rst high: every register but not the memories.      *)
Reset ==
  /\ pc' = PC_RESET
  /\ regs' = [r \in XReg |-> Zero]
  /\ if_id' = IfIdFlushed
  /\ id_ex' = IdExFlushed
  /\ ex_mem' = ExMemFlushed
  /\ mem_wb' = MemWbFlushed
  /\ ex_hc' = "HC_NONE" /\ mem_hc_carried' = "HC_NONE" /\ wb_hc' = "HC_NONE"
  /\ halted_q' = FALSE
  /\ tohost_value' = Zero
  /\ UNCHANGED <<imem, dmem>>

Next == Cycle \/ Reset

Spec == Init /\ [][Next]_vars

(***************************************************************************)
(* Properties of the state alone.                                          *)
(***************************************************************************)

(* Every register and memory holds a value of its SystemVerilog type.      *)
TypeOK ==
  /\ imem \in [IMemIdx -> Inst]
  /\ dmem \in [DMemIdx -> Word]
  /\ pc \in Word
  /\ regs \in [XReg -> Word]
  /\ if_id \in IfId
  /\ id_ex \in IdEx
  /\ ex_mem \in ExMem
  /\ mem_wb \in MemWb
  /\ ex_hc \in HaltCause /\ mem_hc_carried \in HaltCause /\ wb_hc \in HaltCause
  /\ halted_q \in BOOLEAN
  /\ tohost_value \in Word

(* Once halted is up, the architectural state, the cause the testbench     *)
(* reads and the latched tohost word stay as they are until a reset, even  *)
(* though instructions younger than the halting one sit in EX, MEM and WB  *)
(* with writes of their own (top_pipeline.sv:26-35, 77-87, 436, 376).      *)
HaltIsFinal ==
  [][halted => \/ UNCHANGED <<dmem, regs, wb_hc, tohost_value>> /\ halted'
               \/ Reset]_vars
=============================================================================
