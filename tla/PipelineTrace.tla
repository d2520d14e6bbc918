---------------------------- MODULE PipelineTrace ---------------------------
(***************************************************************************)
(* The pipeline with a history variable that records which instruction     *)
(* address each stage works for, NoPc for a bubble.  The RTL drops the PC  *)
(* after EX, and an address alone would not do: a flushed slot and a nop   *)
(* at the top of the address space look alike in EX/MEM.  No action of the *)
(* pipeline reads the variable, so it adds no behaviour.                   *)
(*                                                                         *)
(* With it: what instruction each stage must hold, which operand values it *)
(* must see, that only the correct path gets past ID, how many bubbles a   *)
(* hazard costs, and the refinement of module Isa.                         *)
(***************************************************************************)
EXTENDS Pipeline

CONSTANT NoPc

ASSUME NoPcAssumption == NoPc \notin Word

VARIABLE trace    \* [id, ex, mem, wb] -> Word \cup {NoPc}

tvars == <<vars, trace>>

Slot == Word \cup {NoPc}
Trace == [id: Slot, ex: Slot, mem: Slot, wb: Slot]
NoTrace == [id |-> NoPc, ex |-> NoPc, mem |-> NoPc, wb |-> NoPc]

(* The history moves with the pipeline registers, under their conditions.  *)
ClockTrace ==
  trace' = [id  |-> IF id_redirect THEN NoPc
                    ELSE IF front_en THEN pc ELSE trace.id,
            ex  |-> IF stall THEN NoPc
                    ELSE IF pipe_en THEN trace.id ELSE trace.ex,
            mem |-> IF pipe_en THEN trace.ex ELSE trace.mem,
            wb  |-> IF pipe_en THEN trace.mem ELSE trace.wb]

TInit  == Init /\ trace = NoTrace
TCycle == Cycle /\ ClockTrace
TReset == Reset /\ trace' = NoTrace
TNext  == TCycle \/ TReset
TSpec  == TInit /\ [][TNext]_tvars

(* A run after the last reset: the clock never stops.                      *)
RunSpec == TInit /\ [][TCycle]_tvars /\ WF_tvars(TCycle)

InstAt(p) == imem[ImemIdx(p)]
Holds(slot) == slot # NoPc

(***************************************************************************)
(* The register values an instruction must see: the one in MEM sees what   *)
(* WB will write, the one in EX also sees what MEM will write.             *)
(***************************************************************************)
RegsForMem == RegWrite(regs, mem_wb.ctrl.reg_write, mem_wb.rd_idx, wb_data)
RegsForEx  == RegWrite(RegsForMem, ex_mem.ctrl.reg_write, ex_mem.rd_idx, mem_wb_value)

(* The addresses the front of the pipeline continues with after MEM, EX.   *)
AfterEx  == IF Holds(trace.id) THEN trace.id ELSE pc
AfterMem == IF Holds(trace.ex) THEN trace.ex ELSE AfterEx

(* Where program order says to go after the instruction at p, when it sees *)
(* the register values x.                                                  *)
NextAfter(p, x) ==
  LET i == InstAt(p)
  IN  NextPc(Decode(i), p, i.imm, RegRead(x, i.rs1), RegRead(x, i.rs2))

(***************************************************************************)
(* Safety.                                                                 *)
(***************************************************************************)

(* Every register an instruction in EX reads reaches it with the value the *)
(* older instructions leave there, whichever of the register file, EX/MEM  *)
(* or MEM/WB supplies it: forwarding priority, the write-first read in ID  *)
(* and the load-use stall together (top_pipeline.sv:279-330).              *)
OperandsAreCurrent ==
  ~halted /\ Holds(trace.ex) =>
    LET i == InstAt(trace.ex)
    IN  /\ ReadsRs1(i.op) => ex_rs1_fwd = RegRead(RegsForEx, i.rs1)
        /\ ReadsRs2(i.op) => ex_rs2_fwd = RegRead(RegsForEx, i.rs2)

(* Instructions in EX and MEM are followed by the instruction that program *)
(* order puts after them: a branch resolved in ID with forwarded operands  *)
(* redirects to the right place, and the wrong-path instruction behind it  *)
(* never gets past IF/ID (top_pipeline.sv:187-240).                        *)
CorrectPath ==
  ~halted =>
    /\ Holds(trace.mem) => AfterMem = NextAfter(trace.mem, RegsForMem)
    /\ Holds(trace.ex)  => AfterEx = NextAfter(trace.ex, RegsForEx)

(* The pipeline loses at most one cycle between two consecutive            *)
(* instructions: two adjacent stages are empty together only while the     *)
(* pipeline fills after a reset (docs/architecture.md, "one-cycle").       *)
AtMostOneBubble ==
  ~halted =>
    /\ ~Holds(trace.id) /\ ~Holds(trace.ex) => ~Holds(trace.mem) /\ ~Holds(trace.wb)
    /\ ~Holds(trace.ex) /\ ~Holds(trace.mem) => ~Holds(trace.wb)

(* The instruction at p, seeing the registers x, leaves the fall-through.  *)
Redirects(p, x) ==
  LET i == InstAt(p)
  IN  Taken(Decode(i).branch_op, RegRead(x, i.rs1), RegRead(x, i.rs2))

(* The instruction at q has to wait for the one at p directly ahead of it: *)
(* it reads what p loads, or it is a branch or JALR on what p writes.      *)
MustWait(q, p) ==
  LET i == InstAt(q)
      j == InstAt(p)
  IN  /\ Decode(j).reg_write /\ j.rd # 0
      /\ \/ ReadsRs1(i.op) /\ i.rs1 = j.rd
         \/ ReadsRs2(i.op) /\ i.rs2 = j.rd
      /\ Decode(j).mem_read \/ i.op \in {"OP_BRANCH", "OP_JALR"}

(* A cycle is lost behind an instruction only if it is a taken branch or a *)
(* jump, or if its successor has to wait for its result: no stall on a     *)
(* register that is not read, no flush for a branch that falls through     *)
(* (docs/architecture.md:155-186).                                         *)
BubblesAreEarned ==
  ~halted =>
    /\ Holds(trace.ex) /\ ~Holds(trace.id) => Redirects(trace.ex, RegsForEx)
    /\ Holds(trace.mem) /\ ~Holds(trace.ex) =>
         \/ Redirects(trace.mem, RegsForMem)
         \/ Holds(trace.id) /\ MustWait(trace.id, trace.mem)

(***************************************************************************)
(* The inductive invariant: what each stage holds.  A slot either works    *)
(* for the instruction at its recorded address or is inert.                *)
(***************************************************************************)
Inert(c) == c \in {Bubble, Decode(NOP_INST)}

IdSlot ==
  IF Holds(trace.id)
  THEN /\ if_id.pc = trace.id
       /\ if_id.pc4 = Plus4(trace.id)
       /\ id_inst = InstAt(trace.id)
  ELSE id_inst = NOP_INST

ExSlot ==
  IF Holds(trace.ex)
  THEN LET i == InstAt(trace.ex)
       IN  /\ id_ex.ctrl = Decode(i)
           /\ id_ex.pc = trace.ex /\ id_ex.pc4 = Plus4(trace.ex)
           /\ id_ex.imm = i.imm
           /\ id_ex.rs1_idx = i.rs1 /\ id_ex.rs2_idx = i.rs2 /\ id_ex.rd_idx = i.rd
           /\ ~halted => ex_hc = IdHc(i)
  ELSE Inert(id_ex.ctrl) /\ id_ex.rd_idx = 0 /\ (~halted => ex_hc = "HC_NONE")

(* The operands latched in ID are the register file's contents now.        *)
FreshReads ==
  /\ id_ex.rs1_val = RegRead(regs, id_ex.rs1_idx)
  /\ id_ex.rs2_val = RegRead(regs, id_ex.rs2_idx)

(* No instruction in EX reads what a load in MEM is still fetching.        *)
LoadUse ==
  ex_mem.ctrl.mem_read /\ ex_mem.rd_idx # 0 /\ Holds(trace.ex) =>
    LET i == InstAt(trace.ex)
    IN  /\ ReadsRs1(i.op) => i.rs1 # ex_mem.rd_idx
        /\ ReadsRs2(i.op) => i.rs2 # ex_mem.rd_idx

MemSlot ==
  IF Holds(trace.mem)
  THEN LET i == InstAt(trace.mem)
           c == Decode(i)
       IN  /\ ex_mem.ctrl = c
           /\ ex_mem.rd_idx = i.rd
           /\ ex_mem.pc4 = Plus4(trace.mem)
           /\ mem_hc_carried = IdHc(i)
           /\ c.reg_write \/ c.mem_read \/ c.mem_write =>
                ex_mem.alu_y = AluY(c, trace.mem, i.imm, RegRead(RegsForMem, i.rs1),
                                    RegRead(RegsForMem, i.rs2))
           /\ c.mem_write => ex_mem.rs2_val = RegRead(RegsForMem, i.rs2)
  ELSE Inert(ex_mem.ctrl) /\ ex_mem.rd_idx = 0 /\ mem_hc_carried = "HC_NONE"

HaltLatched == halted_q => wb_hc # "HC_NONE"

(* The fetch address follows the instruction in ID.                        *)
FetchFollows == ~halted /\ Holds(trace.id) => pc = Plus4(trace.id)

StagesAgree ==
  /\ trace \in Trace
  /\ HaltLatched /\ IdSlot /\ ExSlot /\ FreshReads /\ LoadUse /\ MemSlot
  /\ FetchFollows

(* The inductive invariant: every stage holds what the instruction at its  *)
(* recorded address puts there, with operands that are still current in    *)
(* the register file (top_pipeline.sv:92-423), on the correct path and     *)
(* with at most one bubble between instructions.                           *)
IInv == TypeOK /\ StagesAgree /\ CorrectPath /\ AtMostOneBubble

(***************************************************************************)
(* Refinement.  An instruction takes effect at the edge that moves it from *)
(* MEM to WB, so a write still waiting in WB counts as done, unless WB     *)
(* holds the instruction that halted.                                      *)
(***************************************************************************)
ArchRegs ==
  RegWrite(regs, mem_wb.ctrl.reg_write /\ wb_hc = "HC_NONE", mem_wb.rd_idx, wb_data)

ArchPc == IF wb_hc # "HC_NONE" THEN trace.wb
          ELSE IF Holds(trace.mem) THEN trace.mem
          ELSE AfterMem

A == INSTANCE Isa WITH pc <- ArchPc, regs <- ArchRegs,
                       cause <- wb_hc, tohost <- tohost_value

(* The pipeline behaves as the one-instruction-at-a-time machine: a halt   *)
(* is precise, no wrong-path or younger instruction leaves a trace.        *)
ImplementsIsa == A!IsaSpec

(***************************************************************************)
(* Liveness.                                                               *)
(***************************************************************************)

(* The pipeline never locks up: it halts or keeps completing instructions, *)
(* whatever stalls and redirects the program causes.                       *)
KeepsCompleting == []<>(halted \/ Holds(trace.wb))
=============================================================================
