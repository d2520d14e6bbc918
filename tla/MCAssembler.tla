---------------------------- MODULE MCAssembler -----------------------------
EXTENDS Assembler

L(label, op, args) == [label |-> label, op |-> op, args |-> args]

A0 == Name("a0")
Sym == Name("here")

(* Lines for layouts: every directive, every size, labels in both roles.   *)
LayoutLines ==
  {L("here", None, <<>>), L("here", "nop", <<>>), L(None, None, <<>>),
   L(None, ".data", <<>>), L(None, ".text", <<>>),
   L(None, ".align", <<Num(1)>>), L(None, ".align", <<Num(3)>>),
   L(None, ".byte", <<Num(1), Num(-1)>>), L(None, ".byte", <<Num(300)>>),
   L(None, ".word", <<Num(-2), Sym>>), L(None, "li", <<A0, Num(5)>>),
   L(None, "la", <<A0, Sym>>), L(None, "call", <<Sym>>),
   L(None, "bne", <<A0, A0, Sym>>)}

Layouts == [1 .. 4 -> LayoutLines]

(* Every mnemonic with operands of every kind, at the ends of the ranges.  *)
Mnemonics ==
  DOMAIN _R_TABLE \cup DOMAIN _I_ALU_TABLE \cup DOMAIN _LOAD_TABLE
    \cup DOMAIN _STORE_TABLE \cup DOMAIN _BRANCH_TABLE \cup Shifts
    \cup DOMAIN Fixed
    \cup {"jal", "jalr", "lui", "auipc", "mv", "not", "neg", "j", "jr", "ret",
          "beqz", "bnez", "li", "la", "call", ".word", ".byte", ".globl"}

Tokens == {Name("x31"), Sym, Num(2047), Num(-4096), Junk}
Operands == UNION {[1 .. n -> Tokens] : n \in 0 .. 3}
OneLiners == {<<L("here", op, args)>> : op \in Mnemonics, args \in Operands}

(* pc-relative operands around the ends of their fields.                   *)
Edges == {4096 + e : e \in {-1048576, -1048578, 1048574, 1048576, -4096, -4098,
                            4094, 4096, -2050, -2049, -2048, 2046, 2047, 2048,
                            2147479550}}
EdgeLines == {<<L(None, op, args \o <<Num(e)>>)>> : e \in Edges,
                op \in {"li", "la", "beqz", "jal", "lui", "auipc"}, args \in {<<A0>>}}
             \cup {<<L(None, op, <<Num(e)>>)>> : op \in {"j", "call", "jal"}, e \in Edges}

(* .align as the passes read it.                                           *)
AlignLines == {<<L(None, ".align", args), L(None, "nop", <<>>)>> :
                 args \in {<<>>, <<Num(0)>>, <<Num(12)>>, <<Num(13)>>, <<Num(-1)>>, <<Sym>>,
                           <<Num(1), Num(2)>>}}

AsmSources == Layouts \cup OneLiners \cup EdgeLines \cup AlignLines

AlignedBases == {4096}
OneBase == {4}
NoPin == {None}
FreeOrPinned == {None, 8192}

(* Short sources for the disagreements.                                    *)
AlignFirst == {<<L(None, ".align", <<Num(3)>>), L(None, "nop", <<>>),
                 L(None, ".data", <<>>), L(None, ".word", <<Num(1)>>)>>}
OddTarget == {<<L(None, "j", <<Sym>>), L(None, ".data", <<>>),
                L(None, ".byte", <<Num(1)>>), L("here", ".byte", <<Num(2)>>)>>}
=============================================================================
