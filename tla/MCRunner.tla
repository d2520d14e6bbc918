------------------------------ MODULE MCRunner ------------------------------
(***************************************************************************)
(* The runner on directories of up to three small test programs, built     *)
(* like those of riscv-tests: a boot part that sets mtvec, a body that     *)
(* ends in ECALL, and a trap handler that writes the result to tohost.     *)
(***************************************************************************)
EXTENDS Runner

TOHOST == 184
BASE   == 128

MCI(op, f3, rd, rs1, rs2, i) ==
  [NOP_INST EXCEPT !.op = op, !.f3 = f3, !.rd = rd, !.rs1 = rs1, !.rs2 = rs2,
                   !.imm = u32(i)]
li(rd, i)     == MCI("OP_IMM", F3_ADD_SUB, rd, 0, 0, i)
jal(i)        == MCI("OP_JAL", 0, 0, 0, 0, i)
tohost(rs2)   == MCI("OP_STORE", 2, 0, 0, rs2, TOHOST)
system(f12)   == [MCI("OP_SYSTEM", 0, 0, 0, 0, 0) EXCEPT !.f12 = f12]
csr(f3, rd, f12, rs1) ==
  [MCI("OP_SYSTEM", f3, rd, rs1, 0, 0) EXCEPT !.f12 = f12]

(* The instruction words, by number; every other word is illegal.          *)
Codes ==
  << li(1, BASE + 16), csr(1, 0, "F12_MTVEC", 1), system("F12_ECALL"), jal(0),
     li(1, 1), tohost(1), system("F12_EBREAK"), csr(2, 2, "F12_MCAUSE", 0),
     tohost(2), csr(1, 1, "F12_MEPC", 1), system("F12_MRET"),
     system("F12_WFI"), csr(7, 1, "F12_MEPC", 2), csr(6, 0, "F12_MTVEC", 1),
     csr(3, 2, "F12_MTVEC", 1) >>

MCInstOf(w) ==
  IF w \in DOMAIN Codes THEN Codes[w] ELSE [NOP_INST EXCEPT !.op = "OP_OTHER"]

Bytes(words) ==
  [x \in 1 .. (4 * Len(words)) |->
     (words[(x - 1) \div 4 + 1] \div 2^(BYTE * ((x - 1) % 4))) % 2^BYTE]

Segment(paddr, words) == [paddr |-> paddr, data |-> Bytes(words)]
Elf(segments) == [segments |-> segments, tohost |-> TOHOST]

(* Passes: mtvec, ECALL, and the handler at BASE + 16 writes 1.            *)
Passing == Elf(<<Segment(BASE, <<1, 2, 3, 4, 5, 6>>)>>)
(* The same handler, but mtvec is never set: ECALL goes to address 0.      *)
NoBoot  == Elf(<<Segment(BASE, <<3, 4, 4, 4, 5, 6>>)>>)
(* The handler first, then the boot part below it, over a hole; EBREAK,    *)
(* and the handler writes mcause.                                          *)
Failing == Elf(<<Segment(BASE + 16, <<8, 9>>), Segment(BASE, <<1, 2, 7>>)>>)
Looping == Elf(<<Segment(BASE, <<12, 4>>)>>)
(* MRET to the handler; the second segment overlaps the first.             *)
Return  == Elf(<<Segment(BASE, <<1, 10, 11, 0, 0, 0>>),
                 Segment(BASE + 16, <<13, 14, 15, 5, 6>>)>>)
NoEntry  == [Passing EXCEPT !.tohost = NoSymbol]
NoImage  == Elf(<<>>)

MCElves == {Passing, NoBoot, Failing, Looping, Return, NoEntry, NoImage}
MCFilters == {NoFilter, {1, 4, 5}}
=============================================================================
