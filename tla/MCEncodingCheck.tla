-------------------------- MODULE MCEncodingCheck ---------------------------
EXTENDS EncodingCheck

Line(kind, name, val) == [kind |-> kind, name |-> name, val |-> val]
Open  == Line("open", <<>>, None)
Blank == Line("blank", <<>>, None)

(* Two enums, the prefix of one a prefix of the other's, and a localparam. *)
Package ==
  <<Line("param", <<"XLEN">>, 32), Blank,
    Open, Line("member", <<"ALU", "ADD">>, 0), Line("member", <<"ALU", "SUB">>, 1),
    Line("close", <<"alu_op_e">>, None),
    Open, Line("member", <<"ALU", "A", "RS1">>, 0), Line("member", <<"ALU", "A", "PC">>, 1),
    Line("close", <<"alu_src_a_e">>, None)>>

(* One edit away: a line lost, added or replaced.                          *)
NewLines == {Blank, Open, Line("member", <<"ALU", "XOR">>, 2),
             Line("member", <<"ALU", "A", "IMM">>, 2), Line("member", <<"WB", "SUB">>, 1),
             Line("member", <<"ALU", "OR">>, None), Line("bare", <<"ALU", "OR">>, None),
             Line("close", <<"wb_src_e">>, None)}
MCPackages ==
  {Package} \cup {RemoveAt(Package, i) : i \in DOMAIN Package}
    \cup {InsertAt(Package, i, l) : i \in DOMAIN Package, l \in NewLines}
    \cup {[Package EXCEPT ![i] = l] : i \in DOMAIN Package, l \in NewLines}
    \cup {[Package EXCEPT ![i].val = 3] : i \in {1, 4, 5, 8, 9}}

Def(stem, val) == [name |-> stem, val |-> val]
AluOps == {<<Def(<<"ADD">>, 0), Def(<<"SUB">>, 1)>>,
           <<Def(<<"SUB">>, 1), Def(<<"ADD">>, 0)>>,
           <<Def(<<"ADD">>, 0)>>,
           <<Def(<<"ADD">>, 0), Def(<<"SUB">>, 3)>>,
           <<Def(<<"ADD">>, 0), Def(<<"SUB">>, 1), Def(<<"XOR">>, 2)>>}
AluSrcAs == {<<Def(<<"RS1">>, 0), Def(<<"PC">>, 1)>>,
             <<Def(<<"RS1">>, 0), Def(<<"PC">>, 1), Def(<<"IMM">>, 2)>>,
             <<Def(<<"RS1">>, 1), Def(<<"PC">>, 0)>>,
             <<Def(<<"RS1">>, 0), Def(<<"PC">>, 1), Def(<<"REG">>, 0)>>}
MCClasses == [AluOp: AluOps, AluSrcA: AluSrcAs]

MCMappings == <<[typedef |-> <<"alu_op_e">>, cls |-> "AluOp", prefix |-> <<"ALU">>],
                [typedef |-> <<"alu_src_a_e">>, cls |-> "AluSrcA", prefix |-> <<"ALU", "A">>]>>
MCLocalparams == <<<<"XLEN">>>>
MCParams == {[x \in {<<"XLEN">>} |-> n] : n \in {32, 64}}
=============================================================================
