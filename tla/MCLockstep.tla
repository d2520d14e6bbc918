----------------------------- MODULE MCLockstep -----------------------------
(***************************************************************************)
(* The emulator and the core on programs of three instructions from a      *)
(* list.  An instruction word is the position of the instruction in the    *)
(* list, so that a program can store a word over its own code and fetch it *)
(* back; every other word is illegal.                                      *)
(***************************************************************************)
EXTENDS Lockstep, MCImages

(* Where the data of these programs lives: the last words of data memory,  *)
(* clear of the code and inside the emulator's memory.                     *)
Data == 4 * (DMEM_WORDS - 3)

ori(rd, rs1, i)  == I("OP_IMM", F3_OR, rd, rs1, 0, i)
srai(rd, rs1, i) == [I("OP_IMM", F3_SR, rd, rs1, 0, i) EXCEPT !.f7 = "F7_ALT"]
sub(rd, a, b)    == [add(rd, a, b) EXCEPT !.f7 = "F7_ALT"]
lhu(rd, rs1, i)  == I("OP_LOAD", 5, rd, rs1, 0, i)
sb(rs2, rs1, i)  == I("OP_STORE", 0, 0, rs1, rs2, i)
blt(rs1, rs2, i) == I("OP_BRANCH", 4, 0, rs1, rs2, i)
auipc(rd, i)     == I("OP_AUIPC", 0, rd, 0, 0, i)
fence            == I("OP_FENCE", 0, 0, 0, 0, 0)

(* Every kind of RV32I instruction, with loads and stores clear of the     *)
(* code, on the code (the last instruction), misaligned, and at tohost;    *)
(* jumps and branches that loop, leave the memory or miss a word boundary; *)
(* two encodings outside RV32I.                                            *)
Codes ==
  <<addi(1, 1, 2), ori(2, 1, -112), lui(1, 144), auipc(2, 16), jal(2, 8),
    lw(1, 0, Data), sub(1, 2, 1), srai(1, 2, 1), jalr(2, 1, 4), beq(1, 2, 8),
    blt(2, 1, -4), lb(2, 1, Data - 2), lhu(1, 2, 6), sw(2, 0, Data + 4), sb(2, 1, Data + 2),
    sw(1, 0, 8), sh(1, 1, Data - 1), sw(1, 0, TOHOST_ADDR), ecall, ebreak,
    fence, [sub(1, 2, 1) EXCEPT !.f7 = "F7_OTHER"],
    [beq(1, 2, 8) EXCEPT !.f3 = 2]>>

MCInstOf(w) == IF w \in DOMAIN Codes THEN Codes[w] ELSE ZERO_INST

(* Three instructions, a data word with a sign bit in every lane size, and *)
(* zeros.                                                                  *)
MCImageSet ==
  {[k \in 0 .. (MEM_WORDS - 1) |->
      CASE k < 3 -> s[k + 1]
        [] k = DMEM_WORDS - 3 -> 145
        [] OTHER -> 0] : s \in [1 .. 3 -> DOMAIN Codes]}
=============================================================================
