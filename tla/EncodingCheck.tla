--------------------------- MODULE EncodingCheck ----------------------------
(***************************************************************************)
(* scripts/encoding_check.py: the gate that compares the enums and         *)
(* localparams of rtl/pkg/riscv_pkg.sv with tools/refmodel/encoding.py.    *)
(*                                                                         *)
(* The package is a sequence of lines: "open" (typedef enum), "member"     *)
(* (with a value, or None where it is no literal), "bare" (a member with   *)
(* no "="), "close" (of a typedef), "param" and "blank".  An SV name is    *)
(* the sequence of its parts, so that a prefix is a prefix.  A Python      *)
(* class is the sequence of its definitions.                               *)
(***************************************************************************)
EXTENDS Integers, Sequences, SequencesExt

CONSTANTS Packages, Classes,  \* the files that may meet: lines, and classes by name
          Params,             \* values of the Python module's constants, by name
          ENUM_MAPPINGS,      \* sequence of [typedef, cls, prefix]
          LOCALPARAMS,        \* sequence of names
          None

(* The types of the files: a name is the sequence of its parts.            *)
Name == Seq(STRING)
TextLine == [kind: {"open", "member", "bare", "close", "param", "blank"},
             name: Name, val: Int \cup {None}]
Definition == [name: Name, val: Int]

ASSUME TablesAssumption ==
  /\ None \notin Int
  /\ ENUM_MAPPINGS \in Seq([typedef: Name, cls: STRING, prefix: Name])
  /\ LOCALPARAMS \in Seq(Name)

(* Line i of a text is between an opener and the next closer, with nothing *)
(* but members around it.                                                  *)
Enclosed(text, i) ==
  \E o \in 1 .. i - 1, c \in i + 1 .. Len(text) :
    /\ text[o].kind = "open" /\ text[c].kind = "close"
    /\ \A d \in o + 1 .. c - 1 : text[d].kind \notin {"open", "close"}

(* Of what a compiler demands of a package: a name is defined once, be it  *)
(* of a type, an enum member or a parameter, and no parameter is declared  *)
(* inside an enum.  A bare member has no value in the text.                *)
ASSUME PackagesAssumption ==
  \A text \in Packages :
    /\ text \in Seq(TextLine)
    /\ \A i, j \in DOMAIN text :
         /\ i # j /\ text[i].name = text[j].name
         /\ text[i].kind = text[j].kind
         => text[i].kind \in {"open", "blank"}
    /\ \A i \in DOMAIN text :
         /\ text[i].kind = "bare" => text[i].val = None
         /\ text[i].kind = "param" => ~Enclosed(text, i)

(* The interpreter rejects a class that defines a name twice, and the enum *)
(* classes that are compared have members.                                 *)
ASSUME ClassesAssumption ==
  /\ \A cs \in Classes : \A i \in DOMAIN ENUM_MAPPINGS :
       LET defs == cs[ENUM_MAPPINGS[i].cls]
       IN  /\ ENUM_MAPPINGS[i].cls \in DOMAIN cs
           /\ defs \in Seq(Definition) /\ defs # <<>>
           /\ \A j, k \in DOMAIN defs : defs[j].name = defs[k].name => j = k
  /\ \A ps \in Params : \A i \in DOMAIN LOCALPARAMS : ps[LOCALPARAMS[i]] \in Int

VARIABLES sv_text, py, consts,
          e, p,               \* enums and localparams compared so far
          errors,             \* whether an error was noted
          exit                \* "none", then "zero", "one" or "raised"

vars == <<sv_text, py, consts, e, p, errors, exit>>

Init ==
  /\ sv_text \in Packages /\ py \in Classes /\ consts \in Params
  /\ e = 0 /\ p = 0 /\ errors = FALSE /\ exit = "none"

-----------------------------------------------------------------------------
(* Parsers return the set of their result, empty where the code raises.    *)
(* The first closing line of the typedef, and the nearest opener above it. *)
CloseIdx(name) ==
  LET found == {i \in DOMAIN sv_text :
                  sv_text[i].kind = "close" /\ sv_text[i].name = name}
  IN  {i \in found : \A j \in found : i <= j}

OpenIdx(close) ==
  LET found == {i \in 1 .. close - 1 : sv_text[i].kind = "open"}
  IN  {i \in found : \A j \in found : j <= i}

(* The members between two lines; a later line of the same name wins.      *)
Members(o, c) ==
  LET body == {i \in o + 1 .. c - 1 : sv_text[i].kind # "blank"}
      LastOf(n) == CHOOSE i \in body : /\ sv_text[i].name = n
                                     /\ \A j \in body : sv_text[j].name = n => j <= i
  IN  [n \in {sv_text[i].name : i \in body} |-> sv_text[LastOf(n)].val]

(* A line of an enum that is not blank must have an "=" and a literal.     *)
parse_sv_enum(name) ==
  UNION {{Members(o, c) : o \in OpenIdx(c)} : c \in CloseIdx(name)}

ParsesEnum(name) ==
  \E c \in CloseIdx(name) : \E o \in OpenIdx(c) :
    \A i \in o + 1 .. c - 1 :
      \/ sv_text[i].kind = "blank"
      \/ sv_text[i].kind = "member" /\ sv_text[i].val # None

parse_sv_localparam(name) ==
  LET found == {i \in DOMAIN sv_text :
                  sv_text[i].kind = "param" /\ sv_text[i].name = name}
  IN  {sv_text[i].val : i \in {j \in found : \A h \in found : j <= h}} \ {None}

(* { m.name: m.value for m in py_cls }: an IntEnum lists a number once,    *)
(* under the first name that has it.                                       *)
Canonical(cls) == {i \in DOMAIN py[cls] :
                     \A j \in 1 .. i - 1 : py[cls][j].val # py[cls][i].val}
py_members(cls) ==
  [n \in {py[cls][i].name : i \in Canonical(cls)} |->
     (CHOOSE x \in Range(py[cls]) : x.name = n).val]

Strip(prefix, members) ==
  LET kept == {n \in DOMAIN members : IsPrefix(prefix, n)}
  IN  [s \in {SubSeq(n, Len(prefix) + 1, Len(n)) : n \in kept} |->
         members[prefix \o s]]

-----------------------------------------------------------------------------
Running == exit = "none"
m == ENUM_MAPPINGS[e + 1]

(* Mutant of EnumErrors: only the numbers of the SV side are compared.     *)
EnumErrorsOneSided(members) ==
  \/ \E n \in DOMAIN members : ~IsPrefix(m.prefix, n)
  \/ LET s == Strip(m.prefix, members)
     IN  \E n \in DOMAIN s : n \notin DOMAIN py_members(m.cls)
                             \/ py_members(m.cls)[n] # s[n]

(* A member without the prefix, or two tables that differ.                 *)
EnumErrors(members) ==
  \/ \E n \in DOMAIN members : ~IsPrefix(m.prefix, n)
  \/ Strip(m.prefix, members) # py_members(m.cls)

CompareEnum ==
  /\ Running /\ e < Len(ENUM_MAPPINGS)
  /\ ParsesEnum(m.typedef)
  /\ \E members \in parse_sv_enum(m.typedef) :
       errors' = (errors \/ EnumErrors(members))
  /\ e' = e + 1
  /\ UNCHANGED <<sv_text, py, consts, p, exit>>

EnumRaises ==
  /\ Running /\ e < Len(ENUM_MAPPINGS)
  /\ ~ParsesEnum(m.typedef)
  /\ exit' = "raised"
  /\ UNCHANGED <<sv_text, py, consts, e, p, errors>>

CompareParam ==
  /\ Running /\ e = Len(ENUM_MAPPINGS) /\ p < Len(LOCALPARAMS)
  /\ \E sv_val \in parse_sv_localparam(LOCALPARAMS[p + 1]) :
       errors' = (errors \/ sv_val # consts[LOCALPARAMS[p + 1]])
  /\ p' = p + 1
  /\ UNCHANGED <<sv_text, py, consts, e, exit>>

ParamRaises ==
  /\ Running /\ e = Len(ENUM_MAPPINGS) /\ p < Len(LOCALPARAMS)
  /\ parse_sv_localparam(LOCALPARAMS[p + 1]) = {}
  /\ exit' = "raised"
  /\ UNCHANGED <<sv_text, py, consts, e, p, errors>>

Verdict ==
  /\ Running /\ e = Len(ENUM_MAPPINGS) /\ p = Len(LOCALPARAMS)
  /\ exit' = IF errors THEN "one" ELSE "zero"
  /\ UNCHANGED <<sv_text, py, consts, e, p, errors>>

Next == CompareEnum \/ EnumRaises \/ CompareParam \/ ParamRaises \/ Verdict

Spec == Init /\ [][Next]_vars

-----------------------------------------------------------------------------
(***************************************************************************)
(* What a compiler and the interpreter see: the members that belong to an  *)
(* enum, as (name, number) pairs, and every definition of a class.         *)
(***************************************************************************)
InEnum(j, typedef) ==
  \E o \in 1 .. j - 1, c \in j + 1 .. Len(sv_text) :
    /\ sv_text[o].kind = "open"
    /\ sv_text[c].kind = "close" /\ sv_text[c].name = typedef
    /\ \A d \in o + 1 .. c - 1 : sv_text[d].kind \notin {"open", "close"}
SvTable(typedef) ==
  {<<sv_text[i].name, sv_text[i].val>> :
     i \in {j \in DOMAIN sv_text :
              sv_text[j].kind \in {"member", "bare"} /\ InEnum(j, typedef)}}
PyTable(cls, prefix) == {<<prefix \o d.name, d.val>> : d \in Range(py[cls])}

Drifted ==
  \/ \E x \in Range(ENUM_MAPPINGS) : SvTable(x.typedef) # PyTable(x.cls, x.prefix)
  \/ \E n \in Range(LOCALPARAMS) : \A i \in DOMAIN sv_text :
       ~(sv_text[i].kind = "param" /\ sv_text[i].name = n /\ sv_text[i].val = consts[n])

Aliased == \E c \in DOMAIN py : \E i, j \in DOMAIN py[c] :
             i # j /\ py[c][i].val = py[c][j].val

(* "Exit code 0 means agreement.  Nonzero means drift": the verdict is     *)
(* right whichever side drifted, in its names, its numbers, its members or *)
(* a line that the scan does not take, as long as no Python class gives a  *)
(* number two names.                                                       *)
VerdictIsRight ==
  ~Running /\ ~Aliased => (exit = "zero") = ~Drifted
=============================================================================
