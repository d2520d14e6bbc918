--------------------------- MODULE EncodingSweep ----------------------------
(***************************************************************************)
(* Every immediate of some windows of integers through the assembler's     *)
(* packers and back through the decoders of the emulator and of the RTL.   *)
(* The windows lie around the ends of the fields.                          *)
(***************************************************************************)
EXTENDS Encoding

CONSTANTS Windows,    \* where the windows begin
          WIDTH       \* integers in a window

ASSUME WindowsAssumption == Windows \subseteq Int /\ WIDTH \in Nat

VARIABLE v

SweepInit == v \in Windows

NextValue ==
  /\ \E start \in Windows : start <= v /\ v + 1 < start + WIDTH
  /\ v' = v + 1

SweepSpec == SweepInit /\ [][NextValue]_v

-----------------------------------------------------------------------------
(* Register numbers that vary with v.                                      *)
x1 == v % 32
x2 == (v \div 32) % 32

(* An immediate that the range checks accept is the one that the emulator  *)
(* reads back from the word: in every format, at both ends of the range.   *)
(* The branch and jump formats drop the lowest bit, and that bit alone.    *)
ImmediatesSurvive ==
  /\ FitsSigned(v, 2048) =>
       /\ imm_i(i_type(OPC.LOAD, x1, 2, x2, fit_signed(v, 2048))) = v
       /\ imm_s(s_type(OPC.STORE, 2, x1, x2, fit_signed(v, 2048))) = v
  /\ FitsSigned(v, 4096) =>
       imm_b(b_type(OPC.BRANCH, 0, x1, x2, fit_signed(v, 4096))) = v - (v % 2)
  /\ FitsSigned(v, 1048576) =>
       imm_j(j_type(OPC.JAL, x1, fit_signed(v, 1048576))) = v - (v % 2)
  /\ imm_u(u_type(OPC.LUI, x1, v % 1048576)) = [hi |-> v % 1048576, lo |-> 0]

(* The scattered immediate bits stay clear of the register and function    *)
(* fields that share the word with them.                                   *)
FieldsSurvive ==
  LET i == i_type(OPC.LOAD, x1, 5, x2, fit_signed(v, 2048))
      s == s_type(OPC.STORE, 2, x1, x2, fit_signed(v, 2048))
      b == b_type(OPC.BRANCH, 7, x1, x2, fit_signed(v, 4096))
      u == u_type(OPC.LUI, x1, v % 1048576)
      j == j_type(OPC.JAL, x1, fit_signed(v, 1048576))
  IN  /\ rd_of(i) = x1 /\ rs1_of(i) = x2 /\ funct3_of(i) = 5
      /\ rs1_of(s) = x1 /\ rs2_of(s) = x2 /\ funct3_of(s) = 2
      /\ rs1_of(b) = x1 /\ rs2_of(b) = x2 /\ funct3_of(b) = 7
      /\ rd_of(u) = x1 /\ rd_of(j) = x1

(* imm_gen.sv extends to the 32-bit word that the emulator uses.           *)
ImmGenAgrees ==
  \A w \in {i_type(OPC.JALR, x1, 0, x2, fit_signed(v, 2048)),
            s_type(OPC.STORE, 0, x1, x2, fit_signed(v, 2048)),
            b_type(OPC.BRANCH, 0, x1, x2, fit_signed(v, 4096)),
            u_type(OPC.AUIPC, x1, v % 1048576),
            j_type(OPC.JAL, x1, fit_signed(v, 1048576))} :
    imm_gen(w) = step_imm(w)

(* The two instructions of li, la and call add up to the 32-bit value they *)
(* were cut from, carry into the upper part included.                      *)
SplitAddsUp ==
  LET p  == Word32(v)
      hi == imm_u(u_type(OPC.LUI, x1, HiPart(p)))
      lo == imm_i(i_type(OPC.IMM, x1, 0, x1, LoPart(p)))
  IN  Plus12(hi, lo) = p
=============================================================================
