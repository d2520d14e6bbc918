------------------------ MODULE EncodingCheckProofs -------------------------
(***************************************************************************)
(* The verdict of scripts/encoding_check.py is right, for every package    *)
(* whose names are defined once and all Python classes without aliases.    *)
(***************************************************************************)
EXTENDS EncodingCheck, SequenceTheorems, TLAPS

(* The three files are those of one run.                                   *)
FilesOK == sv_text \in Packages /\ py \in Classes /\ consts \in Params

(* What the comparison of table i, or of constant i, should find.          *)
EnumDrift(i) ==
  SvTable(ENUM_MAPPINGS[i].typedef) # PyTable(ENUM_MAPPINGS[i].cls, ENUM_MAPPINGS[i].prefix)
ParamDrift(i) ==
  \A j \in DOMAIN sv_text : ~(/\ sv_text[j].kind = "param"
                              /\ sv_text[j].name = LOCALPARAMS[i]
                              /\ sv_text[j].val = consts[LOCALPARAMS[i]])

(***************************************************************************)
(* Prefixes.                                                               *)
(***************************************************************************)

(* Taking a prefix off undoes putting it on.                               *)
LEMMA StripPrefix ==
  ASSUME NEW f \in Name, NEW s \in Name
  PROVE  /\ f \o s \in Name /\ IsPrefix(f, f \o s)
         /\ SubSeq(f \o s, Len(f) + 1, Len(f \o s)) = s
<1>1. f \o s \in Name /\ Len(f \o s) = Len(f) + Len(s)
  BY DEF Name
<1>2. SubSeq(f, 1, Len(f)) = SubSeq(f \o s, 1, Len(f))
  BY DEF Name
<1>3. SubSeq(f \o s, Len(f) + 1, Len(f \o s)) = s
  BY DEF Name
<1>4. QED
  BY <1>1, <1>2, <1>3 DEF IsPrefix, Name

(* Putting a prefix on undoes taking it off.                               *)
LEMMA AddPrefix ==
  ASSUME NEW f \in Name, NEW n \in Name, IsPrefix(f, n)
  PROVE  /\ SubSeq(n, Len(f) + 1, Len(n)) \in Name
         /\ f \o SubSeq(n, Len(f) + 1, Len(n)) = n
<1> DEFINE s == SubSeq(n, Len(f) + 1, Len(n))
<1>1. s \in Name /\ Len(s) = Len(n) - Len(f)
  BY DEF Name, IsPrefix
<1>2. \A i \in 1 .. Len(f) : n[i] = f[i]
  <2>1. \A i \in 1 .. Len(f) : SubSeq(f, 1, Len(f))[i] = f[i] /\ SubSeq(n, 1, Len(f))[i] = n[i]
    BY DEF Name, IsPrefix
  <2>2. QED
    BY <2>1 DEF IsPrefix
<1>3. \A i \in 1 .. Len(s) : s[i] = n[Len(f) + i]
  BY DEF Name, IsPrefix
<1> HIDE DEF s
<1>4. f \o s \in Name /\ Len(f \o s) = Len(n) /\ Len(f) \in Nat /\ Len(n) \in Nat
  BY <1>1 DEF Name
<1>5. ASSUME NEW i \in 1 .. Len(n) PROVE (f \o s)[i] = n[i]
  <2>1. CASE i <= Len(f)
    BY <1>1, <1>2, <1>4, <2>1 DEF Name
  <2>2. CASE i > Len(f)
    <3> DEFINE k == i - Len(f)
    <3>1. k \in 1 .. Len(s) /\ i = Len(f) + k
      BY <1>1, <1>4, <2>2
    <3>2. (f \o s)[i] = s[k]
      BY <1>1, <1>4, <2>2 DEF Name
    <3> HIDE DEF k
    <3>3. QED
      BY <1>3, <3>1, <3>2
  <2>3. QED
    BY <1>4, <2>1, <2>2
<1>6. f \o s = n
  <2>1. f \o s \in Seq(STRING) /\ n \in Seq(STRING)
    BY <1>4 DEF Name
  <2>2. QED
    BY <1>4, <1>5, <2>1, SeqEqual
<1>7. QED
  BY <1>1, <1>6 DEF s

(***************************************************************************)
(* The enum that the scan finds is the one that the compiler sees.         *)
(***************************************************************************)

(* The lines of the package have their types.                              *)
LEMMA LineTypes ==
  ASSUME FilesOK, NEW i \in DOMAIN sv_text
  PROVE  /\ sv_text[i] \in TextLine /\ i \in Nat /\ 1 <= i /\ i <= Len(sv_text)
         /\ sv_text[i].name \in Name
         /\ sv_text[i].kind \in {"open", "member", "bare", "close", "param", "blank"}
<1>1. sv_text \in Seq(TextLine)
  BY PackagesAssumption DEF FilesOK
<1>2. sv_text[i] \in TextLine /\ i \in Nat /\ 1 <= i /\ i <= Len(sv_text)
  <2> HIDE DEF TextLine
  <2>1. QED
    BY <1>1
<1>3. QED
  BY <1>2 DEF TextLine

(* A member of an enum lies between the opener and the closer that the     *)
(* scan finds, and neither is followed or preceded by another.             *)
LEMMA MemberIsFound ==
  ASSUME FilesOK, NEW T, NEW j \in DOMAIN sv_text, InEnum(j, T)
  PROVE  \E c \in CloseIdx(T) : \E o \in OpenIdx(c) :
           /\ j \in o + 1 .. c - 1
           /\ \A d \in o + 1 .. c - 1 : sv_text[d].kind \notin {"open", "close"}
<1>1. PICK o \in 1 .. j - 1, c \in j + 1 .. Len(sv_text) :
        /\ sv_text[o].kind = "open"
        /\ sv_text[c].kind = "close" /\ sv_text[c].name = T
        /\ \A d \in o + 1 .. c - 1 : sv_text[d].kind \notin {"open", "close"}
  BY DEF InEnum
<1>2. sv_text \in Seq(TextLine) /\ Len(sv_text) \in Nat /\ DOMAIN sv_text = 1 .. Len(sv_text)
  BY PackagesAssumption DEF FilesOK
<1>3. j \in Nat /\ o \in Nat /\ c \in Nat /\ c \in DOMAIN sv_text /\ o \in 1 .. c - 1 /\ j \in o + 1 .. c - 1
  BY <1>2
<1>4. c \in CloseIdx(T)
  <2>1. ASSUME NEW i \in DOMAIN sv_text, sv_text[i].kind = "close", sv_text[i].name = T
        PROVE  i = c
    BY <1>1, <1>3, <2>1, PackagesAssumption DEF FilesOK
  <2>2. QED
    BY <1>1, <1>3, <2>1 DEF CloseIdx
<1>5. o \in OpenIdx(c)
  <2>1. ASSUME NEW i \in 1 .. c - 1, sv_text[i].kind = "open" PROVE i <= o
    <3>1. i \notin o + 1 .. c - 1
      BY <1>1, <2>1
    <3>2. QED
      BY <1>3, <3>1
  <2>2. QED
    BY <1>1, <1>3, <2>1 DEF OpenIdx
<1>6. QED
  BY <1>1, <1>3, <1>4, <1>5

(* At most one closer, and at most one nearest opener.                     *)
LEMMA FoundOnce ==
  ASSUME FilesOK, NEW T, NEW c \in CloseIdx(T), NEW o \in OpenIdx(c)
  PROVE  /\ CloseIdx(T) = {c} /\ OpenIdx(c) = {o}
         /\ c \in DOMAIN sv_text /\ o \in 1 .. c - 1
         /\ sv_text[c].kind = "close" /\ sv_text[c].name = T /\ sv_text[o].kind = "open"
         /\ \A d \in o + 1 .. c - 1 : sv_text[d].kind # "open" /\ d \in DOMAIN sv_text
<1>1. /\ c \in DOMAIN sv_text /\ sv_text[c].kind = "close" /\ sv_text[c].name = T
      /\ o \in 1 .. c - 1 /\ sv_text[o].kind = "open"
  BY DEF CloseIdx, OpenIdx
<1>2. sv_text \in Seq(TextLine) /\ Len(sv_text) \in Nat /\ DOMAIN sv_text = 1 .. Len(sv_text)
  BY PackagesAssumption DEF FilesOK
<1>3. CloseIdx(T) = {c}
  BY <1>1, <1>2, PackagesAssumption DEF FilesOK, CloseIdx
<1>4. OpenIdx(c) = {o}
  BY <1>1, <1>2 DEF OpenIdx
<1>5. \A d \in o + 1 .. c - 1 : sv_text[d].kind # "open" /\ d \in DOMAIN sv_text
  BY <1>1, <1>2 DEF OpenIdx
<1>6. QED
  BY <1>1, <1>3, <1>4, <1>5

(* The definitions of a compared class have their types.                   *)
LEMMA ClassTypes ==
  ASSUME FilesOK, NEW x \in DOMAIN ENUM_MAPPINGS
  PROVE  LET t == ENUM_MAPPINGS[x]
         IN  /\ t.prefix \in Name
             /\ t.cls \in DOMAIN py
             /\ py[t.cls] \in Seq(Definition) /\ DOMAIN py[t.cls] # {}
             /\ \A j \in DOMAIN py[t.cls] :
                  /\ j \in Nat
                  /\ py[t.cls][j].name \in Name /\ py[t.cls][j].val \in Int
             /\ \A j, k \in DOMAIN py[t.cls] : py[t.cls][j].name = py[t.cls][k].name => j = k
<1> DEFINE t == ENUM_MAPPINGS[x]
           defs == py[t.cls]
<1>1. t.prefix \in Name
  <2> DEFINE R == [typedef: Name, cls: STRING, prefix: Name]
  <2>1. ENUM_MAPPINGS \in Seq(R)
    BY TablesAssumption
  <2> HIDE DEF R
  <2>2. t \in R
    BY <2>1
  <2>3. QED
    BY <2>2 DEF R
<1>2. /\ t.cls \in DOMAIN py /\ defs \in Seq(Definition) /\ defs # <<>>
      /\ \A j, k \in DOMAIN defs : defs[j].name = defs[k].name => j = k
  BY ClassesAssumption DEF FilesOK
<1> HIDE DEF defs
<1>3. DOMAIN defs # {} /\ \A j \in DOMAIN defs : j \in Nat /\ defs[j] \in Definition
  <2>1. DOMAIN defs = 1 .. Len(defs) /\ Len(defs) \in Nat
    BY <1>2
  <2>2. Len(defs) # 0
    BY <1>2
  <2>3. 1 \in DOMAIN defs
    BY <2>1, <2>2
  <2>4. \A j \in DOMAIN defs : j \in Nat /\ defs[j] \in Definition
    BY <1>2, <2>1
  <2>5. QED
    BY <2>3, <2>4
<1>4. \A j \in DOMAIN defs : defs[j].name \in Name /\ defs[j].val \in Int
  BY <1>3 DEF Definition
<1>5. QED
  BY <1>1, <1>2, <1>3, <1>4 DEF defs

(* What the interpreter sees of it, by position.                           *)
LEMMA PyEntries ==
  ASSUME NEW cls, NEW f
  PROVE  PyTable(cls, f) = {<<f \o py[cls][j].name, py[cls][j].val>> : j \in DOMAIN py[cls]}
<1>1. PyTable(cls, f) = {<<f \o d.name, d.val>> : d \in {py[cls][j] : j \in DOMAIN py[cls]}}
  BY DEF PyTable, Range
<1>2. QED
  BY <1>1

(* Where the scan raises, the tables differ.                               *)
LEMMA RaisedIsDrift ==
  ASSUME FilesOK, NEW x \in DOMAIN ENUM_MAPPINGS, ~ParsesEnum(ENUM_MAPPINGS[x].typedef)
  PROVE  EnumDrift(x)
<1> DEFINE t == ENUM_MAPPINGS[x]
           T == t.typedef
           S == SvTable(T)
           P == PyTable(t.cls, t.prefix)
<1>1. SUFFICES ASSUME S = P PROVE FALSE
  BY DEF EnumDrift
<1>2. \A y \in P : y[2] \in Int
  <2>1. \A j \in DOMAIN py[t.cls] : py[t.cls][j].val \in Int
    BY ClassTypes
  <2>2. P = {<<t.prefix \o py[t.cls][j].name, py[t.cls][j].val>> : j \in DOMAIN py[t.cls]}
    BY PyEntries
  <2>3. ASSUME NEW y \in P PROVE y[2] \in Int
    <3>1. PICK j \in DOMAIN py[t.cls] :
            y = <<t.prefix \o py[t.cls][j].name, py[t.cls][j].val>>
      BY <2>2
    <3>2. y[2] = py[t.cls][j].val
      BY <3>1
    <3>3. QED
      BY <2>1, <3>2
  <2>4. QED
    BY <2>3
<1>3. P # {}
  <2>1. DOMAIN py[t.cls] # {}
    BY ClassTypes
  <2>2. P = {<<t.prefix \o py[t.cls][j].name, py[t.cls][j].val>> : j \in DOMAIN py[t.cls]}
    BY PyEntries
  <2>3. QED
    BY <2>1, <2>2
<1>4. PICK j \in DOMAIN sv_text : InEnum(j, T)
  BY <1>1, <1>3 DEF SvTable
<1>5. PICK c \in CloseIdx(T) : \E o \in OpenIdx(c) :
        /\ j \in o + 1 .. c - 1
        /\ \A d \in o + 1 .. c - 1 : sv_text[d].kind \notin {"open", "close"}
  BY <1>4, MemberIsFound
<1>6. PICK o \in OpenIdx(c) :
        /\ j \in o + 1 .. c - 1
        /\ \A d \in o + 1 .. c - 1 : sv_text[d].kind \notin {"open", "close"}
  BY <1>5
<1>7. PICK k \in o + 1 .. c - 1 : /\ sv_text[k].kind # "blank"
                                  /\ ~(sv_text[k].kind = "member" /\ sv_text[k].val # None)
  BY <1>6 DEF ParsesEnum
<1>8. /\ k \in DOMAIN sv_text /\ c \in DOMAIN sv_text /\ o \in 1 .. c - 1
      /\ sv_text[c].kind = "close" /\ sv_text[c].name = T /\ sv_text[o].kind = "open"
  BY FoundOnce
<1>9. o \in 1 .. k - 1 /\ c \in k + 1 .. Len(sv_text) /\ k \in Nat
  BY <1>8, LineTypes
<1>10. Enclosed(sv_text, k) /\ InEnum(k, T)
  BY <1>6, <1>8, <1>9 DEF Enclosed, InEnum
<1>11. sv_text[k].kind # "param"
  BY <1>8, <1>10, PackagesAssumption DEF FilesOK
<1>12. sv_text[k].kind \in {"member", "bare"} /\ sv_text[k].val = None
  <2>1. sv_text[k].kind \in {"member", "bare"}
    BY <1>6, <1>7, <1>8, <1>11, LineTypes
  <2>2. sv_text[k].kind = "bare" => sv_text[k].val = None
    BY <1>8, PackagesAssumption DEF FilesOK
  <2>3. QED
    BY <1>7, <2>1, <2>2
<1>13. <<sv_text[k].name, None>> \in S
  BY <1>8, <1>10, <1>12 DEF SvTable
<1>14. None \in Int
  BY <1>1, <1>2, <1>13
<1>15. QED
  BY <1>14, TablesAssumption

(* Where it does not, it finds one table: that of the compiler.            *)
LEMMA ParsedIsTable ==
  ASSUME FilesOK, NEW T, ParsesEnum(T), NEW members \in parse_sv_enum(T)
  PROVE  /\ parse_sv_enum(T) = {members}
         /\ SvTable(T) = {<<n, members[n]>> : n \in DOMAIN members}
         /\ DOMAIN members \subseteq Name
<1>1. PICK c \in CloseIdx(T) : \E o \in OpenIdx(c) :
        \A i \in o + 1 .. c - 1 :
          \/ sv_text[i].kind = "blank"
          \/ sv_text[i].kind = "member" /\ sv_text[i].val # None
  BY DEF ParsesEnum
<1>2. PICK o \in OpenIdx(c) :
        \A i \in o + 1 .. c - 1 :
          \/ sv_text[i].kind = "blank"
          \/ sv_text[i].kind = "member" /\ sv_text[i].val # None
  BY <1>1
<1>3. /\ CloseIdx(T) = {c} /\ OpenIdx(c) = {o}
      /\ c \in DOMAIN sv_text /\ o \in 1 .. c - 1
      /\ sv_text[c].kind = "close" /\ sv_text[c].name = T /\ sv_text[o].kind = "open"
      /\ \A d \in o + 1 .. c - 1 : d \in DOMAIN sv_text
  BY FoundOnce
<1> DEFINE body == {i \in o + 1 .. c - 1 : sv_text[i].kind # "blank"}
           LastOf(n) == CHOOSE i \in body : /\ sv_text[i].name = n
                                          /\ \A j \in body : sv_text[j].name = n => j <= i
           table == [n \in {sv_text[i].name : i \in body} |-> sv_text[LastOf(n)].val]
<1>4. parse_sv_enum(T) = {table}
  <2>1. Members(o, c) = table
    BY DEF Members
  <2>2. parse_sv_enum(T) = UNION {{Members(h, i) : h \in OpenIdx(i)} : i \in {c}}
    BY <1>3 DEF parse_sv_enum
  <2>3. parse_sv_enum(T) = {Members(o, c)}
    BY <1>3, <2>2
  <2>4. QED
    BY <2>1, <2>3
<1>5. members = table
  BY <1>4
<1>6. \A i, j \in body : sv_text[i].name = sv_text[j].name => i = j
  BY <1>2, <1>3, PackagesAssumption DEF FilesOK
<1>7. ASSUME NEW i \in body PROVE LastOf(sv_text[i].name) = i
  <2>1. i \in Nat
    BY <1>3, LineTypes
  <2>2. \A j \in body : sv_text[j].name = sv_text[i].name => j = i /\ j <= i
    BY <1>6, <2>1
  <2> HIDE DEF body
  <2>3. QED
    BY <2>2
<1>8. \A j \in DOMAIN sv_text : InEnum(j, T) <=> j \in o + 1 .. c - 1
  <2>1. ASSUME NEW j \in DOMAIN sv_text, InEnum(j, T) PROVE j \in o + 1 .. c - 1
    BY <1>3, <2>1, MemberIsFound
  <2>2. ASSUME NEW j \in DOMAIN sv_text, j \in o + 1 .. c - 1 PROVE InEnum(j, T)
    <3>1. o \in 1 .. j - 1 /\ c \in j + 1 .. Len(sv_text)
      BY <1>3, <2>2, LineTypes
    <3>2. \A d \in o + 1 .. c - 1 : sv_text[d].kind \notin {"open", "close"}
      BY <1>2
    <3>3. QED
      BY <1>3, <3>1, <3>2 DEF InEnum
  <2>3. QED
    BY <2>1, <2>2
<1>9. {j \in DOMAIN sv_text : sv_text[j].kind \in {"member", "bare"} /\ InEnum(j, T)} = body
  BY <1>2, <1>3, <1>8
<1>10. SvTable(T) = {<<sv_text[i].name, sv_text[i].val>> : i \in body}
  BY <1>9 DEF SvTable
<1>11. \A i \in body : members[sv_text[i].name] = sv_text[i].val
  BY <1>5, <1>7
<1>12. DOMAIN members = {sv_text[i].name : i \in body}
  BY <1>5
<1>13. \A i \in body : sv_text[i].name \in Name
  BY <1>3, LineTypes
<1> HIDE DEF body, table
<1>14. SvTable(T) = {<<n, members[n]>> : n \in DOMAIN members}
  BY <1>10, <1>11, <1>12
<1>15. QED
  BY <1>4, <1>5, <1>12, <1>13, <1>14

(* The comparison of one table finds exactly its drift.                    *)
LEMMA ComparesRight ==
  ASSUME FilesOK, ~Aliased, e + 1 \in DOMAIN ENUM_MAPPINGS, ParsesEnum(m.typedef),
         NEW members \in parse_sv_enum(m.typedef)
  PROVE  EnumErrors(members) <=> EnumDrift(e + 1)
<1> DEFINE f == m.prefix
           defs == py[m.cls]
           S == SvTable(m.typedef)
           P == PyTable(m.cls, f)
           pm == py_members(m.cls)
           st == Strip(f, members)
           Stem(n) == SubSeq(n, Len(f) + 1, Len(n))
<1>1. EnumDrift(e + 1) <=> S # P
  BY DEF EnumDrift, m
<1>2. /\ f \in Name /\ m.cls \in DOMAIN py
      /\ \A j \in DOMAIN defs : j \in Nat /\ defs[j].name \in Name
      /\ \A j, k \in DOMAIN defs : defs[j].name = defs[k].name => j = k
  BY ClassTypes DEF m
<1>3. /\ S = {<<n, members[n]>> : n \in DOMAIN members}
      /\ DOMAIN members \subseteq Name
  BY ParsedIsTable
<1>4. P = {<<f \o defs[j].name, defs[j].val>> : j \in DOMAIN defs}
  BY PyEntries
<1>5. /\ DOMAIN pm = {defs[j].name : j \in DOMAIN defs}
      /\ \A j \in DOMAIN defs : pm[defs[j].name] = defs[j].val
      /\ pm = [n \in DOMAIN pm |-> pm[n]]
  <2>1. Canonical(m.cls) = DOMAIN defs
    <3>1. DOMAIN defs = 1 .. Len(defs) /\ Len(defs) \in Nat
      BY ClassTypes DEF m
    <3>2. \A j, k \in DOMAIN defs : j # k => defs[j].val # defs[k].val
      BY <1>2 DEF Aliased
    <3>3. ASSUME NEW i \in DOMAIN defs, NEW j \in 1 .. i - 1 PROVE defs[j].val # defs[i].val
      BY <3>1, <3>2, <3>3
    <3>4. QED
      BY <3>3 DEF Canonical
  <2>2. pm = [n \in {defs[j].name : j \in DOMAIN defs} |->
                (CHOOSE x \in {defs[j] : j \in DOMAIN defs} : x.name = n).val]
    BY <2>1 DEF py_members, Range
  <2>3. ASSUME NEW j \in DOMAIN defs
        PROVE  (CHOOSE x \in {defs[k] : k \in DOMAIN defs} : x.name = defs[j].name) = defs[j]
    BY <1>2
  <2> HIDE DEF defs, pm
  <2>4. DOMAIN pm = {defs[j].name : j \in DOMAIN defs} /\ pm = [n \in DOMAIN pm |-> pm[n]]
    BY <2>2
  <2>5. ASSUME NEW j \in DOMAIN defs PROVE pm[defs[j].name] = defs[j].val
    <3>1. defs[j].name \in {defs[k].name : k \in DOMAIN defs}
      OBVIOUS
    <3>2. pm[defs[j].name]
          = (CHOOSE x \in {defs[k] : k \in DOMAIN defs} : x.name = defs[j].name).val
      BY <2>2, <3>1
    <3>3. QED
      BY <2>3, <3>2
  <2>6. QED
    BY <2>4, <2>5
<1>6. /\ DOMAIN st = {Stem(n) : n \in {i \in DOMAIN members : IsPrefix(f, i)}}
      /\ \A s \in DOMAIN st : st[s] = members[f \o s]
      /\ st = [s \in DOMAIN st |-> st[s]]
  BY DEF Strip
<1>7. \A n \in DOMAIN members : IsPrefix(f, n) => f \o Stem(n) = n
  BY <1>2, <1>3, AddPrefix
<1>8. \A j \in DOMAIN defs : /\ IsPrefix(f, f \o defs[j].name)
                             /\ Stem(f \o defs[j].name) = defs[j].name
  BY <1>2, StripPrefix
<1>9. EnumErrors(members) <=> (\E n \in DOMAIN members : ~IsPrefix(f, n)) \/ st # pm
  BY DEF EnumErrors
<1> HIDE DEF f, defs, S, P, pm, st, Stem
<1>10. ASSUME \A n \in DOMAIN members : IsPrefix(f, n), st = pm
       PROVE  S = P
  <2>1. ASSUME NEW n \in DOMAIN members
        PROVE  \E j \in DOMAIN defs : n = f \o defs[j].name /\ members[n] = defs[j].val
    <3>1. Stem(n) \in DOMAIN st /\ f \o Stem(n) = n
      BY <1>6, <1>7, <1>10
    <3>2. PICK j \in DOMAIN defs : Stem(n) = defs[j].name
      BY <1>5, <1>10, <3>1
    <3>3. members[n] = defs[j].val
      BY <1>5, <1>6, <1>10, <3>1, <3>2
    <3>4. QED
      BY <3>1, <3>2, <3>3
  <2>2. ASSUME NEW j \in DOMAIN defs
        PROVE  /\ f \o defs[j].name \in DOMAIN members
               /\ members[f \o defs[j].name] = defs[j].val
    <3>1. defs[j].name \in DOMAIN st
      BY <1>5, <1>10
    <3>2. PICK n \in DOMAIN members : IsPrefix(f, n) /\ Stem(n) = defs[j].name
      BY <1>6, <3>1
    <3>3. f \o defs[j].name = n
      BY <1>7, <3>2
    <3>4. QED
      BY <1>5, <1>6, <1>10, <3>1, <3>2, <3>3
  <2>3. QED
    BY <1>3, <1>4, <2>1, <2>2
<1>11. ASSUME S = P
       PROVE  (\A n \in DOMAIN members : IsPrefix(f, n)) /\ st = pm
  <2>1. ASSUME NEW n \in DOMAIN members
        PROVE  \E j \in DOMAIN defs : n = f \o defs[j].name /\ members[n] = defs[j].val
    <3>1. <<n, members[n]>> \in P
      BY <1>3, <1>11
    <3>2. QED
      BY <1>4, <3>1
  <2>2. ASSUME NEW j \in DOMAIN defs
        PROVE  /\ f \o defs[j].name \in DOMAIN members
               /\ members[f \o defs[j].name] = defs[j].val
    <3>1. <<f \o defs[j].name, defs[j].val>> \in S
      BY <1>4, <1>11
    <3>2. PICK n \in DOMAIN members : <<f \o defs[j].name, defs[j].val>> = <<n, members[n]>>
      BY <1>3, <3>1
    <3>3. QED
      BY <3>2
  <2>3. \A n \in DOMAIN members : IsPrefix(f, n)
    BY <1>8, <2>1
  <2>4. DOMAIN st = DOMAIN pm
    <3>1. ASSUME NEW s \in DOMAIN st PROVE s \in DOMAIN pm
      <4>1. PICK n \in DOMAIN members : s = Stem(n)
        BY <1>6
      <4>2. PICK j \in DOMAIN defs : n = f \o defs[j].name
        BY <2>1
      <4>3. s = defs[j].name
        BY <1>8, <4>1, <4>2
      <4>4. QED
        BY <1>5, <4>3
    <3>2. ASSUME NEW s \in DOMAIN pm PROVE s \in DOMAIN st
      <4>1. PICK j \in DOMAIN defs : s = defs[j].name
        BY <1>5
      <4>2. QED
        BY <1>6, <1>8, <2>2, <4>1
    <3>3. QED
      BY <3>1, <3>2
  <2>5. ASSUME NEW s \in DOMAIN pm PROVE st[s] = pm[s]
    <3>1. PICK j \in DOMAIN defs : s = defs[j].name
      BY <1>5
    <3>2. st[s] = members[f \o defs[j].name] /\ pm[s] = defs[j].val
      BY <1>5, <1>6, <2>4, <3>1
    <3>3. QED
      BY <2>2, <3>2
  <2>6. QED
    BY <1>5, <1>6, <2>3, <2>4, <2>5
<1>12. QED
  BY <1>1, <1>9, <1>10, <1>11

(* The comparison of one constant, too.                                    *)
LEMMA ParamRight ==
  ASSUME FilesOK, NEW x \in DOMAIN LOCALPARAMS
  PROVE  /\ \A v \in parse_sv_localparam(LOCALPARAMS[x]) :
              v # consts[LOCALPARAMS[x]] <=> ParamDrift(x)
         /\ parse_sv_localparam(LOCALPARAMS[x]) = {} => ParamDrift(x)
<1> DEFINE n == LOCALPARAMS[x]
           found == {i \in DOMAIN sv_text : sv_text[i].kind = "param" /\ sv_text[i].name = n}
<1>1. \A i, j \in found : i = j /\ i <= j
  <2>1. \A i, j \in found : i = j
    BY PackagesAssumption DEF FilesOK
  <2>2. \A i \in found : i \in Nat
    BY LineTypes
  <2>3. QED
    BY <2>1, <2>2
<1>2. parse_sv_localparam(n) = {sv_text[i].val : i \in found} \ {None}
  <2>1. {j \in found : \A h \in found : j <= h} = found
    BY <1>1
  <2>2. QED
    BY <2>1 DEF parse_sv_localparam
<1>3. consts[n] \in Int /\ None \notin Int
  BY ClassesAssumption, TablesAssumption DEF FilesOK
<1>4. ParamDrift(x) <=> \A i \in found : sv_text[i].val # consts[n]
  BY DEF ParamDrift
<1> HIDE DEF found, n
<1>5. \A v \in parse_sv_localparam(n) : v # consts[n] <=> ParamDrift(x)
  BY <1>1, <1>2, <1>4
<1>6. parse_sv_localparam(n) = {} => ParamDrift(x)
  BY <1>2, <1>3, <1>4
<1>7. QED
  BY <1>5, <1>6 DEF n

(***************************************************************************)
(* The inductive invariant: an error has been noted exactly when one of    *)
(* the tables or constants compared so far has drifted, and the script     *)
(* raises only on drift.                                                   *)
(***************************************************************************)
CheckInv ==
  /\ FilesOK
  /\ e \in 0 .. Len(ENUM_MAPPINGS) /\ p \in 0 .. Len(LOCALPARAMS)
  /\ ~Aliased =>
       /\ errors <=> \/ \E i \in 1 .. e : EnumDrift(i)
                     \/ \E i \in 1 .. p : ParamDrift(i)
       /\ exit = "zero" => /\ e = Len(ENUM_MAPPINGS) /\ p = Len(LOCALPARAMS)
                           /\ ~errors
       /\ exit = "one" => errors
       /\ exit = "raised" => \/ \E i \in DOMAIN ENUM_MAPPINGS : EnumDrift(i)
                             \/ \E i \in DOMAIN LOCALPARAMS : ParamDrift(i)
  /\ exit \in {"none", "zero", "one", "raised"}

(* Drift is drift of some table or constant.                               *)
LEMMA DriftIs ==
  Drifted <=> \/ \E i \in DOMAIN ENUM_MAPPINGS : EnumDrift(i)
              \/ \E i \in DOMAIN LOCALPARAMS : ParamDrift(i)
<1>1. (\E x \in Range(ENUM_MAPPINGS) : SvTable(x.typedef) # PyTable(x.cls, x.prefix))
      <=> \E i \in DOMAIN ENUM_MAPPINGS : EnumDrift(i)
  BY DEF Range, EnumDrift
<1>2. (\E n \in Range(LOCALPARAMS) : \A i \in DOMAIN sv_text :
         ~(sv_text[i].kind = "param" /\ sv_text[i].name = n /\ sv_text[i].val = consts[n]))
      <=> \E i \in DOMAIN LOCALPARAMS : ParamDrift(i)
  BY DEF Range, ParamDrift
<1>3. QED
  BY <1>1, <1>2 DEF Drifted

(* The files stay as they are, and so does what is true of them.           *)
LEMMA FilesStay ==
  ASSUME UNCHANGED <<sv_text, py, consts>>
  PROVE  /\ FilesOK' <=> FilesOK
         /\ Aliased' <=> Aliased
         /\ \A i : EnumDrift(i)' <=> EnumDrift(i)
         /\ \A i : ParamDrift(i)' <=> ParamDrift(i)
<1>1. (FilesOK' <=> FilesOK) /\ (Aliased' <=> Aliased)
  BY DEF FilesOK, Aliased
<1>2. \A i : EnumDrift(i)' <=> EnumDrift(i)
  BY DEF EnumDrift, SvTable, PyTable, InEnum
<1>3. \A i : ParamDrift(i)' <=> ParamDrift(i)
  BY DEF ParamDrift
<1>4. QED
  BY <1>1, <1>2, <1>3

(* Every comparison notes exactly the drift it meets.                      *)
THEOREM CheckInvariant == Spec => []CheckInv
<1>1. Init => CheckInv
  BY TablesAssumption DEF Init, CheckInv, FilesOK
<1>2. ASSUME CheckInv, [Next]_vars PROVE CheckInv'
  <2> DEFINE E == Len(ENUM_MAPPINGS)
             Q == Len(LOCALPARAMS)
  <2>1. /\ E \in Nat /\ Q \in Nat /\ e \in Nat /\ p \in Nat
        /\ DOMAIN ENUM_MAPPINGS = 1 .. E /\ DOMAIN LOCALPARAMS = 1 .. Q
    BY <1>2, TablesAssumption DEF CheckInv
  <2>2. UNCHANGED <<sv_text, py, consts>>
    BY <1>2 DEF Next, vars, CompareEnum, EnumRaises, CompareParam, ParamRaises, Verdict
  <2>3. /\ FilesOK /\ FilesOK' /\ (Aliased' <=> Aliased)
        /\ \A i : EnumDrift(i)' <=> EnumDrift(i)
        /\ \A i : ParamDrift(i)' <=> ParamDrift(i)
    BY <1>2, <2>2, FilesStay DEF CheckInv
  <2> HIDE DEF E, Q
  <2>4. CASE CompareEnum
    <3>1. e < E /\ e + 1 \in DOMAIN ENUM_MAPPINGS /\ e' = e + 1 /\ p' = p /\ exit' = "none"
          /\ exit = "none"
      BY <2>1, <2>4 DEF CompareEnum, Running, E
    <3>2. ~Aliased => (errors' <=> errors \/ EnumDrift(e + 1))
      BY <2>3, <2>4, <3>1, ComparesRight DEF CompareEnum
    <3>3. (\E i \in 1 .. e + 1 : EnumDrift(i)) <=> (\E i \in 1 .. e : EnumDrift(i)) \/ EnumDrift(e + 1)
      BY <2>1
    <3>4. ~Aliased' => (errors' <=> \/ \E i \in 1 .. e' : EnumDrift(i)'
                                    \/ \E i \in 1 .. p' : ParamDrift(i)')
      BY <1>2, <2>3, <3>1, <3>2, <3>3 DEF CheckInv
    <3>5. e' \in 0 .. E /\ p' \in 0 .. Q
      BY <1>2, <2>1, <3>1 DEF CheckInv, E, Q
    <3>6. QED
      BY <2>3, <3>1, <3>4, <3>5 DEF CheckInv, E, Q
  <2>5. CASE EnumRaises
    <3>1. /\ e + 1 \in DOMAIN ENUM_MAPPINGS /\ UNCHANGED <<e, p, errors>> /\ exit' = "raised"
      BY <2>1, <2>5 DEF EnumRaises, E
    <3>2. EnumDrift(e + 1)
      BY <2>3, <2>5, <3>1, RaisedIsDrift DEF EnumRaises, m
    <3>3. QED
      BY <1>2, <2>3, <3>1, <3>2 DEF CheckInv
  <2>6. CASE CompareParam
    <3>1. e = E /\ p + 1 \in DOMAIN LOCALPARAMS /\ e' = e /\ p' = p + 1 /\ exit' = "none"
          /\ exit = "none"
      BY <2>1, <2>6 DEF CompareParam, Running, E, Q
    <3>2. errors' <=> errors \/ ParamDrift(p + 1)
      BY <2>3, <2>6, <3>1, ParamRight DEF CompareParam
    <3>3. (\E i \in 1 .. p + 1 : ParamDrift(i)) <=> (\E i \in 1 .. p : ParamDrift(i)) \/ ParamDrift(p + 1)
      BY <2>1
    <3>4. ~Aliased' => (errors' <=> \/ \E i \in 1 .. e' : EnumDrift(i)'
                                    \/ \E i \in 1 .. p' : ParamDrift(i)')
      BY <1>2, <2>3, <3>1, <3>2, <3>3 DEF CheckInv
    <3>5. e' \in 0 .. E /\ p' \in 0 .. Q
      BY <1>2, <2>1, <3>1 DEF CheckInv, E, Q
    <3>6. QED
      BY <2>3, <3>1, <3>4, <3>5 DEF CheckInv, E, Q
  <2>7. CASE ParamRaises
    <3>1. /\ p + 1 \in DOMAIN LOCALPARAMS /\ UNCHANGED <<e, p, errors>> /\ exit' = "raised"
      BY <2>1, <2>7 DEF ParamRaises, Q
    <3>2. ParamDrift(p + 1)
      BY <2>3, <2>7, <3>1, ParamRight DEF ParamRaises
    <3>3. QED
      BY <1>2, <2>3, <3>1, <3>2 DEF CheckInv
  <2>8. CASE Verdict
    <3>1. /\ UNCHANGED <<e, p, errors>> /\ e = Len(ENUM_MAPPINGS) /\ p = Len(LOCALPARAMS)
          /\ exit' = IF errors THEN "one" ELSE "zero"
      BY <2>8 DEF Verdict
    <3>2. QED
      BY <1>2, <2>3, <3>1 DEF CheckInv
  <2>9. CASE UNCHANGED vars
    BY <1>2, <2>3, <2>9 DEF CheckInv, vars
  <2>10. QED
    BY <1>2, <2>4, <2>5, <2>6, <2>7, <2>8, <2>9 DEF Next
<1>3. QED
  BY <1>1, <1>2, PTL DEF Spec

(* Exit code 0 of encoding_check.py means agreement and every other end    *)
(* means drift, for packages and classes of any size.                      *)
THEOREM VerdictAlwaysRight == Spec => []VerdictIsRight
<1>1. CheckInv => VerdictIsRight
  <2>1. SUFFICES ASSUME CheckInv, ~Running, ~Aliased PROVE (exit = "zero") = ~Drifted
    BY DEF VerdictIsRight
  <2>2. DOMAIN ENUM_MAPPINGS = 1 .. Len(ENUM_MAPPINGS) /\ DOMAIN LOCALPARAMS = 1 .. Len(LOCALPARAMS)
    BY TablesAssumption
  <2>3. exit = "zero" => ~Drifted
    BY <2>1, <2>2, DriftIs DEF CheckInv
  <2>4. exit = "one" => Drifted
    <3>1. 1 .. e \subseteq DOMAIN ENUM_MAPPINGS /\ 1 .. p \subseteq DOMAIN LOCALPARAMS
      <4>1. Len(ENUM_MAPPINGS) \in Nat /\ Len(LOCALPARAMS) \in Nat
        BY TablesAssumption
      <4>2. e \in 0 .. Len(ENUM_MAPPINGS) /\ p \in 0 .. Len(LOCALPARAMS)
        BY <2>1 DEF CheckInv
      <4>3. QED
        BY <2>2, <4>1, <4>2
    <3>2. QED
      BY <2>1, <3>1, DriftIs DEF CheckInv
  <2>5. exit = "raised" => Drifted
    BY <2>1, DriftIs DEF CheckInv
  <2>6. exit = "zero" <=> ~Drifted
    BY <2>1, <2>3, <2>4, <2>5 DEF CheckInv, Running
  <2>7. QED
    BY <2>6, Zenon DEF Drifted
<1>2. QED
  BY <1>1, CheckInvariant, PTL
=============================================================================
