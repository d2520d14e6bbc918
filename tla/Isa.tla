--------------------------------- MODULE Isa --------------------------------
(***************************************************************************)
(* What a RiscForge core promises a program: instructions take effect one  *)
(* at a time, in program order, each reading the state its predecessors    *)
(* left.  An instruction that halts takes no effect, its cause is reported *)
(* and nothing changes afterwards until the next reset; only a store to    *)
(* the tohost address also publishes its data.  A reset restores the PC    *)
(* and the registers and leaves both memories alone.                       *)
(***************************************************************************)
EXTENDS Units

VARIABLES
  imem,      \* instruction memory, loaded once
  dmem,      \* data memory
  pc,        \* the instruction that takes effect next
  regs,      \* x1 .. x31
  cause,     \* HC_NONE while running
  tohost     \* the value the program stored to the tohost address

isaVars == <<imem, dmem, pc, regs, cause, tohost>>

IsaInit ==
  /\ imem \in [IMemIdx -> Inst]
  /\ dmem \in [DMemIdx -> Word]
  /\ pc = PC_RESET
  /\ regs = [r \in XReg |-> Zero]
  /\ cause = "HC_NONE"
  /\ tohost = Zero

(* The instruction at pc, its control bundle, operands and address.        *)
inst  == imem[ImemIdx(pc)]
ctrl  == Decode(inst)
rs1v  == RegRead(regs, inst.rs1)
rs2v  == RegRead(regs, inst.rs2)
alu_y == AluY(ctrl, pc, inst.imm, rs1v, rs2v)

(* Why the instruction at pc halts, HC_NONE if it does not.                *)
HaltOf ==
  IF Misaligned(ctrl.mem_read, ctrl.mem_write, ctrl.mem_size, alu_y)
  THEN "HC_MISALIGNED"
  ELSE IF ctrl.mem_write /\ IsTohost(alu_y) THEN "HC_TOHOST"
  ELSE IdHc(inst)

Execute ==
  /\ cause = "HC_NONE"
  /\ HaltOf = "HC_NONE"
  /\ pc' = NextPc(ctrl, pc, inst.imm, rs1v, rs2v)
  /\ regs' = RegWrite(regs, ctrl.reg_write, inst.rd,
               WbData(ctrl.wb_src, alu_y, MemRead(dmem, ctrl, alu_y), Plus4(pc)))
  /\ dmem' = MemWrite(dmem, ctrl.mem_write, ctrl.mem_size, alu_y, rs2v)
  /\ UNCHANGED <<imem, cause, tohost>>

Halt ==
  /\ cause = "HC_NONE"
  /\ HaltOf # "HC_NONE"
  /\ cause' = HaltOf
  /\ tohost' = IF HaltOf = "HC_TOHOST" THEN rs2v ELSE tohost
  /\ UNCHANGED <<imem, dmem, pc, regs>>

Restart ==
  /\ pc' = PC_RESET
  /\ regs' = [r \in XReg |-> Zero]
  /\ cause' = "HC_NONE"
  /\ tohost' = Zero
  /\ UNCHANGED <<imem, dmem>>

IsaNext == Execute \/ Halt \/ Restart

IsaSpec == IsaInit /\ [][IsaNext]_isaVars
=============================================================================
