---------------------------- MODULE RunnerProofs ----------------------------
(***************************************************************************)
(* The conformance runner, for every set of names, filters and ELF files:  *)
(* the loader raises for no file, the emulators keep their types and tell  *)
(* everything in their traces, exit code 0 is earned, and a verdict is     *)
(* about the file alone.                                                   *)
(***************************************************************************)
EXTENDS Runner, EmulatorProofs, FiniteSetTheorems

(***************************************************************************)
(* Least and greatest numbers.                                             *)
(***************************************************************************)
LEMMA MinIsLeast ==
  ASSUME NEW S \in SUBSET Nat, S # {}
  PROVE  Min(S) \in S /\ \A y \in S : Min(S) <= y
<1>1. \E x \in S : \A y \in S : x <= y
  BY Least
<1>2. QED
  BY <1>1 DEF Min

(* A set of numbers below a bound has a greatest one.                      *)
LEMMA MaxOfBounded ==
  ASSUME NEW n \in Nat, NEW S \in SUBSET (0 .. n), S # {}
  PROVE  Max(S) \in S /\ \A y \in S : Max(S) >= y
<1> DEFINE T == {n - x : x \in S}
<1>1. T \in SUBSET Nat /\ T # {}
  <2>1. \A x \in S : x \in 0 .. n /\ n - x \in Nat
    OBVIOUS
  <2>2. QED
    BY <2>1
<1>2. PICK t \in T : \A y \in T : t <= y
  BY <1>1, Least
<1>3. PICK x \in S : t = n - x
  OBVIOUS
<1>4. \A y \in S : x >= y
  BY <1>2, <1>3
<1>5. QED
  BY <1>4 DEF Max

(* So has the image of a nonempty interval: by induction on its length.    *)
LEMMA MaxOfImage ==
  ASSUME NEW n \in Nat \ {0}, NEW f \in [1 .. n -> Nat]
  PROVE  /\ Max({f[j] : j \in 1 .. n}) \in Nat
         /\ \A i \in 1 .. n : Max({f[j] : j \in 1 .. n}) >= f[i]
<1> DEFINE Bounded(k) == \E i \in 1 .. k : \A j \in 1 .. k : f[i] >= f[j]
           S == {k \in 1 .. n : ~Bounded(k)}
<1>1. Bounded(n)
  <2>1. SUFFICES ASSUME S # {} PROVE FALSE
    <3>1. n \in 1 .. n
      OBVIOUS
    <3>2. QED
      BY <3>1
  <2>2. S \in SUBSET Nat
    OBVIOUS
  <2>3. PICK k \in S : \A y \in S : k <= y
    BY <2>1, <2>2, Least
  <2>4. k # 1
    <3>1. 1 \in 1 .. 1 /\ \A j \in 1 .. 1 : f[1] >= f[j]
      OBVIOUS
    <3>2. Bounded(1)
      BY <3>1
    <3>3. QED
      BY <2>3, <3>2
  <2>5. k - 1 \in 1 .. n /\ k - 1 \notin S
    <3>1. k \in 1 .. n
      OBVIOUS
    <3>2. k - 1 \in 1 .. n /\ ~(k <= k - 1)
      BY <2>4, <3>1
    <3>3. QED
      BY <2>3, <3>2, Zenon
  <2>6. PICK i \in 1 .. (k - 1) : \A j \in 1 .. (k - 1) : f[i] >= f[j]
    BY <2>5
  <2>7. \A j \in 1 .. k : j \in 1 .. (k - 1) \/ j = k
    BY <2>5
  <2>8. f[i] \in Nat /\ f[k] \in Nat /\ \A j \in 1 .. (k - 1) : f[j] \in Nat
    BY <2>3, <2>6
  <2>9. i \in 1 .. k /\ k \in 1 .. k
    BY <2>5, <2>6
  <2>10. CASE f[i] >= f[k]
    <3>1. \A j \in 1 .. k : f[i] >= f[j]
      BY <2>6, <2>7, <2>10
    <3>2. QED
      BY <2>3, <2>9, <3>1
  <2>11. CASE ~(f[i] >= f[k])
    <3>1. \A j \in 1 .. k : f[k] >= f[j]
      BY <2>6, <2>7, <2>8, <2>11
    <3>2. QED
      BY <2>3, <2>9, <3>1
  <2>12. QED
    BY <2>10, <2>11
<1>2. \E x \in {f[j] : j \in 1 .. n} : \A y \in {f[j] : j \in 1 .. n} : x >= y
  BY <1>1
<1>3. QED
  BY <1>2 DEF Max

(***************************************************************************)
(* The loader.                                                             *)
(***************************************************************************)

(* What the ELF assumption says of the segments of a file with some.       *)
LEMMA Segments ==
  ASSUME NEW elf \in Elves, elf.segments # <<>>
  PROVE  \E n \in Nat \ {0} :
           /\ DOMAIN elf.segments = 1 .. n
           /\ \A i \in 1 .. n :
                /\ elf.segments[i].paddr \in Nat
                /\ elf.segments[i].paddr \in RtlWord
                /\ elf.segments[i].data \in Seq(Bytes)
                /\ EndOf(elf.segments[i]) \in Nat
                /\ elf.segments[i].paddr <= EndOf(elf.segments[i])
<1> DEFINE segs == elf.segments
           Segment == [paddr: RtlWord, data: Seq(Bytes)]
<1>1. segs \in Seq(Segment)
  BY ElvesAssumption DEF Bytes
<1>2. Len(segs) \in Nat \ {0} /\ DOMAIN segs = 1 .. Len(segs)
  BY <1>1
<1>3. ASSUME NEW i \in 1 .. Len(segs)
      PROVE  /\ segs[i].paddr \in Nat /\ segs[i].paddr \in RtlWord
             /\ segs[i].data \in Seq(Bytes)
             /\ EndOf(segs[i]) \in Nat /\ segs[i].paddr <= EndOf(segs[i])
  <2>1. segs[i] \in Segment
    <3> HIDE DEF segs, Segment
    <3>1. QED
      BY <1>1
  <2>2. segs[i].paddr \in RtlWord /\ segs[i].data \in Seq(Bytes)
    BY <2>1
  <2>3. segs[i].paddr \in Nat
    BY <2>2, WordSizes DEF RtlWord
  <2>4. Len(segs[i].data) \in Nat
    BY <2>2
  <2>5. QED
    BY <2>2, <2>3, <2>4 DEF EndOf
<1>4. QED
  BY <1>2, <1>3

(* base is the lowest address and top is above every segment.              *)
LEMMA BaseAndTop ==
  ASSUME NEW elf \in Elves, elf.segments # <<>>
  PROVE  /\ Base(elf) \in Nat /\ Base(elf) \in RtlWord /\ Top(elf) \in Nat
         /\ Base(elf) <= Top(elf)
         /\ \A i \in DOMAIN elf.segments :
              /\ Base(elf) <= elf.segments[i].paddr
              /\ EndOf(elf.segments[i]) <= Top(elf)
<1>1. PICK n \in Nat \ {0} :
        /\ DOMAIN elf.segments = 1 .. n
        /\ \A i \in 1 .. n :
             /\ elf.segments[i].paddr \in Nat
             /\ elf.segments[i].paddr \in RtlWord
             /\ elf.segments[i].data \in Seq(Bytes)
             /\ EndOf(elf.segments[i]) \in Nat
             /\ elf.segments[i].paddr <= EndOf(elf.segments[i])
  BY Segments
<1>2. /\ Base(elf) \in {elf.segments[i].paddr : i \in 1 .. n}
      /\ \A i \in 1 .. n : Base(elf) <= elf.segments[i].paddr
  <2> DEFINE S == {elf.segments[i].paddr : i \in 1 .. n}
  <2>1. 1 \in 1 .. n
    OBVIOUS
  <2>2. S \in SUBSET Nat /\ S # {}
    BY <1>1, <2>1
  <2>3. Base(elf) = Min(S)
    BY <1>1 DEF Base
  <2>4. Min(S) \in S /\ \A y \in S : Min(S) <= y
    BY <2>2, MinIsLeast
  <2>5. QED
    BY <2>3, <2>4
<1>3. /\ Top(elf) \in Nat
      /\ \A i \in 1 .. n : EndOf(elf.segments[i]) <= Top(elf)
  <2> DEFINE f == [i \in 1 .. n |-> EndOf(elf.segments[i])]
  <2>1. f \in [1 .. n -> Nat]
    BY <1>1
  <2>2. Top(elf) = Max({f[i] : i \in 1 .. n})
    <3>1. {EndOf(elf.segments[i]) : i \in DOMAIN elf.segments} = {f[i] : i \in 1 .. n}
      BY <1>1
    <3>2. QED
      BY <3>1 DEF Top
  <2>3. /\ Max({f[i] : i \in 1 .. n}) \in Nat
        /\ \A i \in 1 .. n : Max({f[j] : j \in 1 .. n}) >= f[i]
    <3> HIDE DEF f
    <3>1. QED
      BY <2>1, MaxOfImage
  <2>4. QED
    BY <2>2, <2>3, <1>1
<1>4. Base(elf) \in Nat /\ Base(elf) \in RtlWord
  BY <1>1, <1>2
<1>5. Base(elf) <= Top(elf)
  <2>1. 1 \in 1 .. n
    OBVIOUS
  <2>2. /\ Base(elf) <= elf.segments[1].paddr
        /\ elf.segments[1].paddr <= EndOf(elf.segments[1])
        /\ EndOf(elf.segments[1]) <= Top(elf)
        /\ elf.segments[1].paddr \in Nat /\ EndOf(elf.segments[1]) \in Nat
    BY <1>1, <1>2, <1>3, <2>1
  <2>3. QED
    BY <1>3, <1>4, <2>2
<1>6. QED
  BY <1>1, <1>2, <1>3, <1>4, <1>5

(* Rounded up to a page and one page more, the memory covers the image.    *)
LEMMA RoundUp ==
  ASSUME NEW x \in Nat, NEW p \in Nat \ {0}
  PROVE  ((x + p - 1) \div p) * p + p \in Nat /\ ((x + p - 1) \div p) * p + p >= x
<1> DEFINE y == x + p - 1
<1>1. y \in Nat
  OBVIOUS
<1>2. y = p * (y \div p) + (y % p) /\ y % p \in 0 .. (p - 1) /\ y \div p \in Nat
  BY <1>1
<1>3. p * (y \div p) = (y \div p) * p
  BY <1>2
<1>4. QED
  BY <1>2, <1>3

(* load_program accepts every file: this is the code's ValueError.         *)
LEMMA LoaderFits ==
  ASSUME NEW elf \in Elves, elf.segments # <<>>
  PROVE  Fits(elf) /\ mem_size(elf) \in Nat
<1>1. Top(elf) - Base(elf) \in Nat
  BY BaseAndTop
<1>2. mem_size(elf) \in Nat /\ mem_size(elf) >= Top(elf) - Base(elf)
  BY <1>1, RoundUp, PageAssumption DEF mem_size
<1>3. PICK n \in Nat \ {0} : DOMAIN elf.segments = 1 .. n
                             /\ \A i \in 1 .. n : /\ EndOf(elf.segments[i]) \in Nat
                                                  /\ elf.segments[i].paddr \in Nat
  BY Segments
<1>4. QED
  BY <1>2, <1>3, BaseAndTop DEF Fits

(* The loaded memory is one interval of bytes.                             *)
LEMMA LoadedOK ==
  ASSUME NEW elf \in Elves, elf.segments # <<>>
  PROVE  MemOK(Loaded(elf))
<1>1. PICK n \in Nat \ {0} :
        /\ DOMAIN elf.segments = 1 .. n
        /\ \A i \in 1 .. n :
             /\ elf.segments[i].paddr \in Nat
             /\ elf.segments[i].paddr \in RtlWord
             /\ elf.segments[i].data \in Seq(Bytes)
             /\ EndOf(elf.segments[i]) \in Nat
             /\ elf.segments[i].paddr <= EndOf(elf.segments[i])
  BY Segments
<1> DEFINE lo == Base(elf)
           hi == Base(elf) + mem_size(elf) - 1
           holding(x) == {i \in DOMAIN elf.segments :
                            x \in elf.segments[i].paddr .. (EndOf(elf.segments[i]) - 1)}
           seg(x) == elf.segments[Max(holding(x))]
<1>2. lo \in Int /\ hi \in Int
  BY BaseAndTop, LoaderFits
<1>3. ASSUME NEW x \in lo .. hi, holding(x) # {}
      PROVE  seg(x).data[x - seg(x).paddr + 1] \in Bytes
  <2>1. holding(x) \in SUBSET (0 .. n)
    BY <1>1
  <2>2. Max(holding(x)) \in holding(x)
    <3> HIDE DEF holding
    <3>1. QED
      BY <1>3, <2>1, MaxOfBounded
  <2> DEFINE i == Max(holding(x))
  <2> HIDE DEF i
  <2>3. /\ i \in 1 .. n
        /\ x \in elf.segments[i].paddr .. (EndOf(elf.segments[i]) - 1)
    BY <1>1, <2>2 DEF i
  <2>4. /\ elf.segments[i].paddr \in Nat /\ elf.segments[i].data \in Seq(Bytes)
        /\ EndOf(elf.segments[i]) = elf.segments[i].paddr + Len(elf.segments[i].data)
        /\ Len(elf.segments[i].data) \in Nat
    BY <1>1, <2>3 DEF EndOf
  <2>5. x - elf.segments[i].paddr + 1 \in 1 .. Len(elf.segments[i].data)
    <3>1. x \in Int
      BY <1>2
    <3>2. ASSUME NEW p \in Nat, NEW k \in Nat, x \in p .. (p + k - 1)
          PROVE  x - p + 1 \in 1 .. k
      BY <3>1, <3>2
    <3> DEFINE at == elf.segments[i].paddr
               len == Len(elf.segments[i].data)
    <3>3. at \in Nat /\ len \in Nat /\ x \in at .. (at + len - 1)
      BY <2>3, <2>4
    <3> HIDE DEF at, len, holding, seg
    <3>4. x - at + 1 \in 1 .. len
      BY <3>2, <3>3
    <3>5. QED
      BY <3>4 DEF at, len
  <2>6. elf.segments[i].data[x - elf.segments[i].paddr + 1] \in Bytes
    BY <2>4, <2>5
  <2>7. QED
    BY <2>6 DEF i
<1>4. 0 \in Bytes
  BY WordSizes DEF Bytes
<1>5. Loaded(elf) = [x \in lo .. hi |->
                       IF holding(x) = {} THEN 0 ELSE seg(x).data[x - seg(x).paddr + 1]]
  BY DEF Loaded
<1> HIDE DEF lo, hi, holding, seg
<1>6. Loaded(elf) \in [lo .. hi -> Bytes]
  BY <1>3, <1>4, <1>5
<1>7. QED
  BY <1>2, <1>6 DEF MemOK

(***************************************************************************)
(* The books.  While the runner tests, every selected file is in todo, on  *)
(* the emulator or on exactly one of the three counts; the counts are not  *)
(* touched once an exit code is there.                                     *)
(***************************************************************************)
Skipped == {skips[i] : i \in DOMAIN skips}

Reasons == {"no tohost", "no segments", "none", "illegal", "mem-range",
            "misaligned-fetch", "misaligned-load", "misaligned-store", "ecall",
            "ebreak", "tohost-pass", "tohost-fail", "step-limit", "running"}

Balanced ==
  /\ todo \subseteq Matching
  /\ running \in {NoTest} \cup (Matching \ (todo \cup KNOWN_SKIPS))
  /\ passes + Len(fails) = Cardinality(Done \ KNOWN_SKIPS)
  /\ Skipped = (Matching \ todo) \cap KNOWN_SKIPS

BookInv ==
  /\ DOMAIN files \subseteq Names
  /\ passes \in Nat /\ fails \in Seq(Nat \X Reasons) /\ skips \in Seq(Nat)
  /\ phase \in {"listing", "testing", "returned"}
  /\ phase # "returned" => exit_code = NoCode
  /\ phase = "listing" => running = NoTest /\ passes = 0 /\ fails = <<>> /\ skips = <<>>
  /\ phase = "testing" => Matching # {} /\ Balanced
  /\ GreenIsEarned

LEMMA MatchingFinite ==
  ASSUME DOMAIN files \subseteq Names
  PROVE  /\ Matching \subseteq Nat /\ NoTest \notin Matching
         /\ \A S \in SUBSET Matching : IsFiniteSet(S) /\ Cardinality(S) \in Nat
<1>1. Matching \subseteq Names /\ Matching \subseteq Nat
  BY NamesAssumption DEF Matching
<1>2. NoTest \notin Nat
  BY DEF NoTest
<1>3. ASSUME NEW S \in SUBSET Matching
      PROVE  IsFiniteSet(S) /\ Cardinality(S) \in Nat
  <2>1. S \in SUBSET Names
    BY <1>1
  <2>2. IsFiniteSet(S)
    BY <2>1, NamesAssumption, FS_Subset
  <2>3. QED
    BY <2>2, FS_CardinalityType
<1>4. QED
  BY <1>1, <1>2, <1>3

(* The next test is one that is left.                                      *)
LEMMA NextIsLeft ==
  ASSUME BookInv, phase = "testing", todo # {}
  PROVE  NextTest \in todo /\ NextTest \in Matching /\ NextTest \in Nat
<1>1. todo \in SUBSET Nat /\ todo \subseteq Matching
  BY MatchingFinite DEF BookInv, Balanced
<1>2. QED
  BY <1>1, MinIsLeast DEF NextTest

(* A verdict for one more file is one more on the count.                   *)
LEMMA OneMore ==
  ASSUME BookInv, NEW S \in SUBSET Matching, NEW n \in Matching, n \notin S
  PROVE  Cardinality(S \cup {n}) = Cardinality(S) + 1 /\ Cardinality(S) \in Nat
<1>1. IsFiniteSet(S) /\ Cardinality(S) \in Nat
  BY MatchingFinite DEF BookInv
<1>2. QED
  BY <1>1, FS_AddElement

(* The verdict of a finished emulator is a word.                           *)
LEMMA VerdictType ==
  ASSUME EmuInv
  PROVE  RunResult \in Reasons
BY DEF RunResult, EmuInv, EmuTypeOK, Reasons

LEMMA AppendFail ==
  ASSUME NEW s \in Seq(Nat \X Reasons), NEW n \in Nat, NEW why \in Reasons
  PROVE  /\ Append(s, <<n, why>>) \in Seq(Nat \X Reasons)
         /\ Len(Append(s, <<n, why>>)) = Len(s) + 1
<1>1. <<n, why>> \in Nat \X Reasons
  OBVIOUS
<1>2. QED
  BY <1>1

LEMMA AppendSkip ==
  ASSUME NEW s \in Seq(Nat), NEW n \in Nat
  PROVE  /\ Append(s, n) \in Seq(Nat)
         /\ {Append(s, n)[i] : i \in DOMAIN Append(s, n)} = {s[i] : i \in DOMAIN s} \cup {n}
<1> DEFINE t == Append(s, n)
<1>1. /\ t \in Seq(Nat) /\ DOMAIN s = 1 .. Len(s) /\ DOMAIN t = 1 .. (Len(s) + 1)
      /\ Len(s) \in Nat
  OBVIOUS
<1>2. \A i \in 1 .. (Len(s) + 1) : t[i] = IF i = Len(s) + 1 THEN n ELSE s[i]
  OBVIOUS
<1> HIDE DEF t
<1>3. {t[i] : i \in DOMAIN t} \subseteq {s[i] : i \in DOMAIN s} \cup {n}
  BY <1>1, <1>2
<1>4. ASSUME NEW i \in DOMAIN s PROVE s[i] \in {t[j] : j \in DOMAIN t}
  <2>1. i \in 1 .. (Len(s) + 1) /\ i # Len(s) + 1
    BY <1>1, <1>4
  <2>2. s[i] = t[i]
    BY <1>2, <2>1
  <2>3. QED
    BY <1>1, <2>1, <2>2
<1>5. n \in {t[j] : j \in DOMAIN t}
  <2>1. Len(s) + 1 \in 1 .. (Len(s) + 1)
    BY <1>1
  <2>2. QED
    BY <1>1, <1>2, <2>1
<1>6. QED
  BY <1>1, <1>3, <1>4, <1>5 DEF t

(***************************************************************************)
(* One step of the runner.                                                 *)
(***************************************************************************)

(* The selection never changes.                                            *)
LEMMA MatchingFixed ==
  ASSUME UNCHANGED <<files, filter>>
  PROVE  Matching' = Matching
BY DEF Matching

(* Before an exit code there is nothing to earn.                           *)
LEMMA NotGreen ==
  ASSUME exit_code = NoCode
  PROVE  GreenIsEarned
BY DEF GreenIsEarned, NoCode

LEMMA ListKeeps ==
  ASSUME BookInv, List
  PROVE  BookInv'
<1>1. /\ UNCHANGED <<files, filter, running, passes, fails, skips>> /\ Matching' = Matching
      /\ running = NoTest /\ passes = 0 /\ fails = <<>> /\ skips = <<>>
      /\ exit_code = NoCode
  BY MatchingFixed DEF BookInv, List, book
<1>2. CASE Matching = {}
  <2>1. exit_code' = 2 /\ phase' = "returned"
    BY <1>2 DEF List
  <2>2. GreenIsEarned'
    BY <2>1 DEF GreenIsEarned
  <2>3. QED
    BY <1>1, <2>1, <2>2 DEF BookInv
<1>3. CASE Matching # {}
  <2>1. exit_code' = NoCode /\ phase' = "testing" /\ todo' = Matching
    BY <1>1, <1>3 DEF List
  <2>2. (Done \ KNOWN_SKIPS)' = {} /\ Skipped' = {}
    BY <1>1, <2>1 DEF Done, Skipped
  <2>3. Balanced'
    <3>1. passes' + Len(fails') = 0 /\ Cardinality((Done \ KNOWN_SKIPS)') = 0
      BY <1>1, <2>2, FS_EmptySet
    <3>2. passes' + Len(fails') = Cardinality((Done \ KNOWN_SKIPS)')
      BY <3>1
    <3>3. QED
      BY <1>1, <2>1, <2>2, <3>2 DEF Balanced
  <2>4. GreenIsEarned'
    BY <2>1 DEF GreenIsEarned, NoCode
  <2>5. QED
    BY <1>1, <1>3, <2>1, <2>3, <2>4 DEF BookInv
<1>4. QED
  BY <1>2, <1>3

LEMMA SkipKeeps ==
  ASSUME BookInv, Skip
  PROVE  BookInv'
<1>1. /\ phase = "testing" /\ running = NoTest /\ todo # {} /\ NextTest \in KNOWN_SKIPS
      /\ skips' = Append(skips, NextTest) /\ todo' = todo \ {NextTest}
      /\ UNCHANGED <<files, filter, running, passes, fails, exit_code, phase>>
      /\ Matching' = Matching
  BY MatchingFixed DEF Skip, Idle
<1>2. NextTest \in todo /\ NextTest \in Matching /\ NextTest \in Nat
  BY <1>1, NextIsLeft
<1>3. skips' \in Seq(Nat) /\ Skipped' = Skipped \cup {NextTest}
  <2>1. skips \in Seq(Nat)
    BY DEF BookInv
  <2>2. /\ Append(skips, NextTest) \in Seq(Nat)
        /\ {Append(skips, NextTest)[i] : i \in DOMAIN Append(skips, NextTest)}
             = {skips[i] : i \in DOMAIN skips} \cup {NextTest}
    BY <1>2, <2>1, AppendSkip
  <2>3. QED
    BY <1>1, <2>2 DEF Skipped
<1>4. (Done \ KNOWN_SKIPS)' = Done \ KNOWN_SKIPS
  BY <1>1 DEF Done
<1>5. Balanced'
  BY <1>1, <1>2, <1>3, <1>4 DEF BookInv, Balanced
<1>6. exit_code' = NoCode
  BY <1>1 DEF BookInv
<1>7. GreenIsEarned'
  BY <1>6 DEF GreenIsEarned, NoCode
<1>8. QED
  BY <1>1, <1>3, <1>5, <1>6, <1>7 DEF BookInv

LEMMA RejectKeeps ==
  ASSUME BookInv, RejectElf
  PROVE  BookInv'
<1>1. /\ phase = "testing" /\ running = NoTest /\ todo # {} /\ NextTest \notin KNOWN_SKIPS
      /\ todo' = todo \ {NextTest}
      /\ UNCHANGED <<files, filter, running, passes, skips, exit_code, phase>>
      /\ Matching' = Matching
  BY MatchingFixed DEF RejectElf, Starts, Idle
<1>2. PICK why \in Reasons : fails' = Append(fails, <<NextTest, why>>)
  BY DEF RejectElf, Reasons
<1>3. NextTest \in todo /\ NextTest \in Matching /\ NextTest \in Nat /\ NoTest \notin Matching
  BY <1>1, NextIsLeft, MatchingFinite DEF BookInv
<1>4. fails' \in Seq(Nat \X Reasons) /\ Len(fails') = Len(fails) + 1 /\ Len(fails) \in Nat
  BY <1>2, <1>3, AppendFail DEF BookInv
<1>5. (Done \ KNOWN_SKIPS)' = (Done \ KNOWN_SKIPS) \cup {NextTest}
  BY <1>1, <1>3 DEF Done
<1>6. /\ Cardinality((Done \ KNOWN_SKIPS) \cup {NextTest}) = Cardinality(Done \ KNOWN_SKIPS) + 1
      /\ Cardinality(Done \ KNOWN_SKIPS) \in Nat
  <2>1. Done \ KNOWN_SKIPS \in SUBSET Matching /\ NextTest \notin Done \ KNOWN_SKIPS
    BY <1>3 DEF Done
  <2>2. QED
    BY <1>3, <2>1, OneMore
<1>7. Skipped' = Skipped
  BY <1>1 DEF Skipped
<1>8. passes' + Len(fails') = Cardinality((Done \ KNOWN_SKIPS)')
  <2>1. passes + Len(fails) = Cardinality(Done \ KNOWN_SKIPS) /\ passes \in Nat
    BY <1>1 DEF BookInv, Balanced
  <2>2. Cardinality((Done \ KNOWN_SKIPS)') = Cardinality(Done \ KNOWN_SKIPS) + 1
    BY <1>5, <1>6, Zenon
  <2>3. passes' + Len(fails') = (passes + Len(fails)) + 1
    BY <1>1, <1>4, <2>1
  <2>4. QED
    BY <2>1, <2>2, <2>3, Zenon
<1>9. Balanced'
  BY <1>1, <1>3, <1>7, <1>8 DEF BookInv, Balanced
<1>10. exit_code' = NoCode
  BY <1>1 DEF BookInv
<1>11. GreenIsEarned'
  BY <1>10 DEF GreenIsEarned, NoCode
<1>12. QED
  BY <1>1, <1>4, <1>9, <1>10, <1>11 DEF BookInv

(* A test that starts leaves todo for the emulator; the loader never       *)
(* raises, and the emulator is fresh.                                      *)
LEMMA StartKeeps ==
  ASSUME BookInv, Start
  PROVE  BookInv' /\ EmuInv' /\ steps' = 0
<1>1. PICK elf \in Elves :
        /\ Starts(elf) /\ elf.segments # <<>>
        /\ IF Fits(elf)
           THEN /\ FreshCpu(Loaded(elf), Base(elf), elf.tohost, TRUE)
                /\ running' = NextTest
                /\ todo' = todo \ {NextTest}
                /\ UNCHANGED phase
           ELSE phase' = "crashed" /\ UNCHANGED <<emuVars, running, todo>>
        /\ UNCHANGED <<files, filter, book, exit_code>>
  BY DEF Start
<1>2. /\ FreshCpu(Loaded(elf), Base(elf), elf.tohost, TRUE)
      /\ running' = NextTest /\ todo' = todo \ {NextTest}
      /\ UNCHANGED <<files, filter, passes, fails, skips, exit_code, phase>>
      /\ Matching' = Matching
  BY <1>1, LoaderFits, MatchingFixed DEF book
<1>3. EmuInv' /\ steps' = 0
  <2>1. steps' = 0
    BY <1>2 DEF FreshCpu
  <2>2. QED
    BY <1>1, <1>2, <2>1, LoadedOK, BaseAndTop, FreshKeeps
<1>4. phase = "testing" /\ running = NoTest /\ todo # {} /\ NextTest \notin KNOWN_SKIPS
  BY <1>1 DEF Starts, Idle
<1>5. NextTest \in todo /\ NextTest \in Matching /\ NoTest \notin Matching
  BY <1>4, NextIsLeft, MatchingFinite DEF BookInv
<1>6. (Done \ KNOWN_SKIPS)' = Done \ KNOWN_SKIPS /\ Skipped' = Skipped
  BY <1>2, <1>4, <1>5 DEF Done, Skipped
<1>7. Balanced'
  BY <1>2, <1>4, <1>5, <1>6 DEF BookInv, Balanced
<1>8. exit_code' = NoCode
  BY <1>2, <1>4 DEF BookInv
<1>9. GreenIsEarned'
  BY <1>8 DEF GreenIsEarned, NoCode
<1>10. QED
  BY <1>2, <1>3, <1>4, <1>7, <1>8, <1>9 DEF BookInv

LEMMA FinishKeeps ==
  ASSUME BookInv, EmuInv, Finish
  PROVE  BookInv'
<1>1. /\ phase = "testing" /\ running # NoTest /\ running' = NoTest
      /\ UNCHANGED <<files, filter, todo, skips, exit_code, phase>>
      /\ Matching' = Matching
  BY MatchingFixed DEF Finish
<1>2. /\ running \in Matching \ (todo \cup KNOWN_SKIPS) /\ running \in Nat
      /\ NoTest \notin Matching
  BY <1>1, MatchingFinite DEF BookInv, Balanced
<1>3. /\ fails' \in Seq(Nat \X Reasons) /\ passes' \in Nat
      /\ passes' + Len(fails') = passes + Len(fails) + 1 /\ Len(fails) \in Nat
      /\ passes \in Nat
  <2>1. CASE ok
    BY <2>1 DEF Finish, BookInv
  <2>2. CASE ~ok
    <3>1. fails' = Append(fails, <<running, RunResult>>) /\ passes' = passes
      BY <2>2 DEF Finish
    <3>2. fails \in Seq(Nat \X Reasons) /\ passes \in Nat /\ RunResult \in Reasons
      BY VerdictType DEF BookInv
    <3>3. fails' \in Seq(Nat \X Reasons) /\ Len(fails') = Len(fails) + 1
      BY <1>2, <3>1, <3>2, AppendFail
    <3>4. Len(fails) \in Nat
      BY <3>2
    <3>5. QED
      BY <3>1, <3>2, <3>3, <3>4
  <2>3. QED
    BY <2>1, <2>2
<1>4. (Done \ KNOWN_SKIPS)' = (Done \ KNOWN_SKIPS) \cup {running}
  BY <1>1, <1>2 DEF Done
<1>5. /\ Cardinality((Done \ KNOWN_SKIPS) \cup {running}) = Cardinality(Done \ KNOWN_SKIPS) + 1
      /\ Cardinality(Done \ KNOWN_SKIPS) \in Nat
  <2>1. Done \ KNOWN_SKIPS \in SUBSET Matching /\ running \notin Done \ KNOWN_SKIPS
    BY <1>2 DEF Done
  <2>2. QED
    BY <1>2, <2>1, OneMore
<1>6. Skipped' = Skipped
  BY <1>1 DEF Skipped
<1>7. passes' + Len(fails') = Cardinality((Done \ KNOWN_SKIPS)')
  <2>1. passes + Len(fails) = Cardinality(Done \ KNOWN_SKIPS)
    BY <1>1 DEF BookInv, Balanced
  <2>2. QED
    BY <1>1, <1>3, <1>4, <1>5, <2>1
<1>8. Balanced'
  BY <1>1, <1>6, <1>7 DEF BookInv, Balanced
<1>9. exit_code' = NoCode
  BY <1>1 DEF BookInv
<1>10. GreenIsEarned'
  BY <1>9 DEF GreenIsEarned, NoCode
<1>11. QED
  BY <1>1, <1>3, <1>8, <1>9, <1>10 DEF BookInv

(* Nothing is left and nothing failed: the count is all of them.           *)
LEMMA ReportKeeps ==
  ASSUME BookInv, Report
  PROVE  BookInv'
<1>1. /\ phase = "testing" /\ running = NoTest /\ todo = {} /\ phase' = "returned"
      /\ exit_code' = IF fails = <<>> THEN 0 ELSE 1
      /\ UNCHANGED <<files, filter, running, todo, passes, fails, skips>>
      /\ Matching' = Matching
  BY MatchingFixed DEF Report, Idle, book
<1>2. Done \ KNOWN_SKIPS = Matching \ KNOWN_SKIPS
  BY <1>1, MatchingFinite DEF Done, BookInv
<1>3. GreenIsEarned'
  <2>1. SUFFICES ASSUME fails = <<>>
                 PROVE  GreenIsEarned'
    BY <1>1 DEF GreenIsEarned
  <2>2. Len(fails) = 0 /\ passes \in Nat
    BY <2>1 DEF BookInv
  <2>3. passes = Cardinality(Matching \ KNOWN_SKIPS)
    <3>1. passes + Len(fails) = Cardinality(Done \ KNOWN_SKIPS)
      BY <1>1 DEF BookInv, Balanced
    <3>2. Cardinality(Done \ KNOWN_SKIPS) = Cardinality(Matching \ KNOWN_SKIPS)
      BY <1>2, Zenon
    <3>3. passes = passes + Len(fails)
      BY <2>2
    <3>4. QED
      BY <3>1, <3>2, <3>3, Zenon
  <2>4. Matching # {} /\ Skipped = Matching \cap KNOWN_SKIPS
    BY <1>1 DEF BookInv, Balanced
  <2>5. QED
    BY <1>1, <2>3, <2>4 DEF GreenIsEarned, Skipped
<1>4. QED
  BY <1>1, <1>3 DEF BookInv

(***************************************************************************)
(* The theorems.                                                           *)
(***************************************************************************)
RunnerInv == EmuInv /\ BookInv

LEMMA RInitOK ==
  ASSUME RInit
  PROVE  RunnerInv
<1>1. EmuInv
  <2>1. MemOK([x \in {} |-> 0])
    <3>1. [x \in {} |-> 0] \in [1 .. 0 -> Bytes]
      OBVIOUS
    <3>2. QED
      BY <3>1 DEF MemOK
  <2>2. 0 \in RtlWord /\ FALSE \in BOOLEAN
    BY WordSizes DEF RtlWord
  <2>3. PowerOn([x \in {} |-> 0], 0, 0, FALSE)
    BY DEF RInit
  <2>4. QED
    BY <2>1, <2>2, <2>3, PowerOnOK
<1>2. DOMAIN files \subseteq Names
  BY DEF RInit
<1>3. <<>> \in Seq(Nat \X Reasons) /\ <<>> \in Seq(Nat)
  OBVIOUS
<1>4. GreenIsEarned
  BY NotGreen DEF RInit
<1>5. BookInv
  BY <1>2, <1>3, <1>4 DEF RInit, BookInv
<1>6. QED
  BY <1>1, <1>5 DEF RunnerInv

LEMMA RNextKeeps ==
  ASSUME RunnerInv, [RNext]_rvars
  PROVE  RunnerInv'
<1> USE DEF RunnerInv
<1>1. ASSUME UNCHANGED emuVars
      PROVE  EmuInv'
  BY <1>1 DEF emuVars, EmuInv, EmuTypeOK, MemOK
<1>2. ASSUME UNCHANGED runnerVars
      PROVE  BookInv'
  BY <1>2, MatchingFixed
     DEF runnerVars, book, BookInv, Balanced, Skipped, Done, GreenIsEarned
<1>3. CASE List
  BY <1>1, <1>3, ListKeeps DEF List
<1>4. CASE Skip
  BY <1>1, <1>4, SkipKeeps DEF Skip
<1>5. CASE RejectElf
  BY <1>1, <1>5, RejectKeeps DEF RejectElf
<1>6. CASE Start
  BY <1>6, StartKeeps
<1>7. CASE EmulatorStep
  BY <1>2, <1>7, StepKeeps DEF EmulatorStep
<1>8. CASE Finish
  BY <1>1, <1>8, FinishKeeps DEF Finish
<1>9. CASE Report
  BY <1>1, <1>9, ReportKeeps DEF Report
<1>10. CASE UNCHANGED rvars
  BY <1>1, <1>2, <1>10 DEF rvars
<1>11. QED
  BY <1>3, <1>4, <1>5, <1>6, <1>7, <1>8, <1>9, <1>10 DEF RNext

(* Every state of the runner satisfies the books and the emulator's        *)
(* invariant.                                                              *)
THEOREM RunnerInvariant == RSpec => []RunnerInv
<1>1. RInit => RunnerInv
  BY RInitOK
<1>2. RunnerInv /\ [RNext]_rvars => RunnerInv'
  BY RNextKeeps
<1>3. QED
  BY <1>1, <1>2, PTL DEF RSpec

(* Whatever instructions the test programs execute, every register and CSR *)
(* of the emulator holds a word and every byte of memory a byte: wr, the   *)
(* CSR instructions and the stores mask what they write.                   *)
THEOREM EmulatorTypes == RSpec => []EmuTypeOK
<1>1. RunnerInv => EmuTypeOK
  BY DEF RunnerInv, EmuInv
<1>2. QED
  BY <1>1, RunnerInvariant, PTL

(* The StepTrace of an instruction tells everything that the step changed  *)
(* in the registers and the memory, for all programs.                      *)
THEOREM TracesTell == RSpec => TraceTellsAll
<1> DEFINE Told == steps' = steps + 1 =>
                     /\ regs' = Replayed(regs, trace'.rd_write)
                     /\ mem' = IF trace'.mem_write = NoWrite \/ tohost_value' # tohost_value
                               THEN mem
                               ELSE StoreBytes(mem, trace'.mem_write[1],
                                               trace'.mem_write[2], trace'.mem_write[3])
<1>1. RunnerInv /\ [RNext]_rvars => [Told]_emuVars
  <2>1. SUFFICES ASSUME RunnerInv, RNext, ~UNCHANGED emuVars
                 PROVE  Told
    BY DEF rvars
  <2>2. CASE EmulatorStep
    BY <2>1, <2>2, StepTells DEF EmulatorStep, RunnerInv
  <2>3. CASE Start
    <3>1. steps' = 0 /\ steps \in Nat
      BY <2>1, <2>3, StartKeeps, StepsAssumption DEF RunnerInv, EmuInv, EmuTypeOK
    <3>2. QED
      BY <3>1
  <2>4. QED
    BY <2>1, <2>2, <2>3 DEF RNext, List, Skip, RejectElf, Finish, Report
<1>2. QED
  BY <1>1, RunnerInvariant, PTL DEF RSpec, TraceTellsAll

(* load_program raises for no ELF file: base and mem_size cover every      *)
(* segment, whatever the order, the gaps and the overlaps.                 *)
THEOREM RunnerLoads == RSpec => []EveryElfLoads
<1>1. RunnerInv => EveryElfLoads
  BY DEF RunnerInv, BookInv, EveryElfLoads
<1>2. QED
  BY <1>1, RunnerInvariant, PTL

(* main() returns 0 only if something was selected and every selected test *)
(* passed or is a known skip.                                              *)
THEOREM RunnerIsEarned == RSpec => []GreenIsEarned
<1>1. RunnerInv => GreenIsEarned
  BY DEF RunnerInv, BookInv
<1>2. QED
  BY <1>1, RunnerInvariant, PTL

(***************************************************************************)
(* The emulator is deterministic.  An emulator as a value, and the value   *)
(* that step() makes of it: what module Emulator says of the variables,    *)
(* said of the fields of s.                                                *)
(***************************************************************************)
Cpu == [regs |-> regs, pc |-> pc, mem |-> mem, csrs |-> csrs, tohost_addr |-> tohost_addr,
        trap_on_ecall |-> trap_on_ecall, tohost_value |-> tohost_value, halted |-> halted,
        halt_reason |-> halt_reason, steps |-> steps, trap |-> trap, trace |-> trace]

InstIn(s) == InstOf(LoadBytes(s.mem, s.pc, 4))
ImmIn(s) == s32(InstIn(s).imm)
RegIn(s, x) == IF x = 0 THEN 0 ELSE s.regs[x]
Rs1In(s) == RegIn(s, InstIn(s).rs1)
Rs2In(s) == RegIn(s, InstIn(s).rs2)
AddrIn(s) == u32(Rs1In(s) + ImmIn(s))
SizeIn(s) == CASE InstIn(s).f3 \in {0, 4} -> 1
               [] InstIn(s).f3 \in {1, 5} -> 2
               [] OTHER                   -> 4
LinkIn(s) == u32(s.pc + 4)
TargetIn(s) ==
  IF InstIn(s).op = "OP_JALR"
  THEN u32((Rs1In(s) + ImmIn(s)) - ((Rs1In(s) + ImmIn(s)) % 2))
  ELSE u32(s.pc + ImmIn(s))
TakenIn(s) == InstIn(s).f3 \in F3Branch /\ BranchTaken(InstIn(s).f3, Rs1In(s), Rs2In(s))

RangeIn(s, at, size) == at \in DOMAIN s.mem /\ at + size - 1 \in DOMAIN s.mem
FetchTrapIn(s) == IF s.pc % 4 # 0 THEN "misaligned-fetch"
                  ELSE IF ~RangeIn(s, s.pc, 4) THEN "mem-range" ELSE "none"
LoadTrapIn(s) == IF SizeMisaligned(AddrIn(s), SizeIn(s)) THEN "misaligned-load"
                 ELSE IF ~RangeIn(s, AddrIn(s), SizeIn(s)) THEN "mem-range" ELSE "none"
StoreTrapIn(s) == IF AddrIn(s) = s.tohost_addr THEN "none"
                  ELSE IF SizeMisaligned(AddrIn(s), SizeIn(s)) THEN "misaligned-store"
                  ELSE IF ~RangeIn(s, AddrIn(s), SizeIn(s)) THEN "mem-range" ELSE "none"
TargetTrapIn(s) == IF TargetIn(s) % 4 # 0 THEN "misaligned-fetch" ELSE "none"

RaisedIn(s) ==
  IF FetchTrapIn(s) # "none" THEN FetchTrapIn(s) ELSE
  CASE InstIn(s).op \in {"OP_JAL", "OP_JALR"} -> TargetTrapIn(s)
    [] InstIn(s).op = "OP_BRANCH" -> IF InstIn(s).f3 \notin F3Branch THEN "illegal"
                                     ELSE IF TakenIn(s) THEN TargetTrapIn(s) ELSE "none"
    [] InstIn(s).op = "OP_LOAD"   -> IF InstIn(s).f3 \notin F3Load THEN "illegal"
                                     ELSE LoadTrapIn(s)
    [] InstIn(s).op = "OP_STORE"  -> IF InstIn(s).f3 \notin F3Store THEN "illegal"
                                     ELSE StoreTrapIn(s)
    [] InstIn(s).op = "OP_IMM"    -> IllegalIf(AluImmIllegal(InstIn(s).f3, InstIn(s).f7))
    [] InstIn(s).op = "OP_REG"    -> IllegalIf(AluRegIllegal(InstIn(s).f3, InstIn(s).f7))
    [] InstIn(s).op = "OP_SYSTEM" ->
         IllegalIf(\/ InstIn(s).f3 = 4
                   \/ /\ InstIn(s).f3 = 0
                      /\ InstIn(s).f12 \notin {"F12_ECALL", "F12_EBREAK",
                                               "F12_MRET", "F12_WFI"})
    [] OTHER                      -> IllegalIf(InstIn(s).op = "OP_OTHER")

(* The value written to rd, where one is.                                  *)
ValueIn(s) ==
  CASE InstIn(s).op = "OP_LUI"   -> ImmIn(s)
    [] InstIn(s).op = "OP_AUIPC" -> s.pc + ImmIn(s)
    [] InstIn(s).op \in {"OP_JAL", "OP_JALR"} -> LinkIn(s)
    [] InstIn(s).op = "OP_LOAD"  ->
         LoadValue(s.mem, AddrIn(s), SizeIn(s), InstIn(s).f3 \in {0, 1})
    [] InstIn(s).op = "OP_IMM"   -> _alu_imm(InstIn(s).f3, InstIn(s).f7, Rs1In(s), ImmIn(s))
    [] InstIn(s).op = "OP_REG"   -> _alu_reg(InstIn(s).f3, InstIn(s).f7, Rs1In(s), Rs2In(s))
    [] OTHER                     -> s.csrs[InstIn(s).f12]

EnvIn(s) == /\ InstIn(s).op = "OP_SYSTEM" /\ InstIn(s).f3 = 0
            /\ InstIn(s).f12 \in {"F12_ECALL", "F12_EBREAK"}
CsrIn(s) == InstIn(s).op = "OP_SYSTEM" /\ InstIn(s).f3 # 0
TohostIn(s) == InstIn(s).op = "OP_STORE" /\ AddrIn(s) = s.tohost_addr

RegsAfter(s) ==
  IF /\ InstIn(s).op \in WritesRd
     /\ InstIn(s).op = "OP_SYSTEM" => CsrIn(s)
     /\ InstIn(s).rd # 0
  THEN [s.regs EXCEPT ![InstIn(s).rd] = u32(ValueIn(s))] ELSE s.regs

PcAfter(s) ==
  IF InstIn(s).op \in {"OP_JAL", "OP_JALR"} THEN TargetIn(s)
  ELSE IF InstIn(s).op = "OP_BRANCH" /\ TakenIn(s) THEN TargetIn(s)
  ELSE IF EnvIn(s) /\ s.trap_on_ecall THEN s.csrs["F12_MTVEC"] - (s.csrs["F12_MTVEC"] % 4)
  ELSE IF InstIn(s).op = "OP_SYSTEM" /\ InstIn(s).f3 = 0 /\ InstIn(s).f12 = "F12_MRET"
  THEN u32(s.csrs["F12_MEPC"])
  ELSE LinkIn(s)

MemAfter(s) == IF InstIn(s).op = "OP_STORE" /\ ~TohostIn(s)
               THEN StoreBytes(s.mem, AddrIn(s), Rs2In(s), SizeIn(s)) ELSE s.mem

SrcIn(s) == IF InstIn(s).f3 >= 4 THEN InstIn(s).rs1 ELSE Rs1In(s)

CsrsAfter(s) ==
  IF EnvIn(s) /\ s.trap_on_ecall
  THEN [s.csrs EXCEPT !["F12_MEPC"] = s.pc,
                      !["F12_MCAUSE"] = IF InstIn(s).f12 = "F12_ECALL" THEN CAUSE_ECALL_M
                                        ELSE CAUSE_BREAKPOINT]
  ELSE IF ~CsrIn(s) THEN s.csrs
  ELSE IF InstIn(s).f3 % 4 = 1 THEN [s.csrs EXCEPT ![InstIn(s).f12] = SrcIn(s)]
  ELSE IF SrcIn(s) = 0 THEN s.csrs
  ELSE IF InstIn(s).f3 % 4 = 2
  THEN [s.csrs EXCEPT ![InstIn(s).f12] = PyOr(s.csrs[InstIn(s).f12], SrcIn(s))]
  ELSE [s.csrs EXCEPT ![InstIn(s).f12] = PyAnd(s.csrs[InstIn(s).f12], -1 - SrcIn(s))]

HaltsIn(s) == TohostIn(s) \/ (EnvIn(s) /\ ~s.trap_on_ecall)
ReasonAfter(s) ==
  IF TohostIn(s) THEN (IF Rs2In(s) = 1 THEN "tohost-pass" ELSE "tohost-fail")
  ELSE IF EnvIn(s) /\ ~s.trap_on_ecall
  THEN (IF InstIn(s).f12 = "F12_ECALL" THEN "ecall" ELSE "ebreak")
  ELSE s.halt_reason

TraceAfter(s) ==
  [rd_write |-> IF InstIn(s).rd # 0 /\ InstIn(s).op \in WritesRd
                THEN <<InstIn(s).rd, RegsAfter(s)[InstIn(s).rd]>> ELSE NoWrite,
   mem_write |-> IF InstIn(s).op = "OP_STORE" THEN <<AddrIn(s), Rs2In(s), SizeIn(s)>>
                 ELSE NoWrite]

After(s) ==
  IF RaisedIn(s) # "none"
  THEN [regs |-> s.regs, pc |-> s.pc, mem |-> s.mem, csrs |-> s.csrs,
        tohost_addr |-> s.tohost_addr, trap_on_ecall |-> s.trap_on_ecall,
        tohost_value |-> s.tohost_value, halted |-> s.halted,
        halt_reason |-> s.halt_reason, steps |-> s.steps, trap |-> RaisedIn(s),
        trace |-> s.trace]
  ELSE [regs |-> RegsAfter(s), pc |-> PcAfter(s), mem |-> MemAfter(s), csrs |-> CsrsAfter(s),
        tohost_addr |-> s.tohost_addr, trap_on_ecall |-> s.trap_on_ecall,
        tohost_value |-> IF TohostIn(s) THEN <<Rs2In(s)>> ELSE s.tohost_value,
        halted |-> IF HaltsIn(s) THEN TRUE ELSE s.halted, halt_reason |-> ReasonAfter(s),
        steps |-> s.steps + 1, trap |-> s.trap, trace |-> TraceAfter(s)]

LEMMA CpuFields ==
  /\ Cpu.regs = regs /\ Cpu.pc = pc /\ Cpu.mem = mem /\ Cpu.csrs = csrs
  /\ Cpu.tohost_addr = tohost_addr /\ Cpu.trap_on_ecall = trap_on_ecall
  /\ Cpu.tohost_value = tohost_value /\ Cpu.halted = halted
  /\ Cpu.halt_reason = halt_reason /\ Cpu.steps = steps /\ Cpu.trap = trap
  /\ Cpu.trace = trace
BY DEF Cpu

LEMMA CpuViews ==
  /\ InstIn(Cpu) = inst /\ ImmIn(Cpu) = imm /\ Rs1In(Cpu) = rs1_val /\ Rs2In(Cpu) = rs2_val
  /\ AddrIn(Cpu) = data_addr /\ SizeIn(Cpu) = data_size /\ LinkIn(Cpu) = link
  /\ TargetIn(Cpu) = target /\ (TakenIn(Cpu) <=> taken) /\ FetchTrapIn(Cpu) = FetchTrap
  /\ RaisedIn(Cpu) = Raised
<1>1. InstIn(Cpu) = inst
  BY CpuFields, Zenon DEF InstIn, inst
<1>2. ImmIn(Cpu) = imm
  BY <1>1, Zenon DEF ImmIn, imm
<1>3. Rs1In(Cpu) = rs1_val /\ Rs2In(Cpu) = rs2_val
  BY <1>1, CpuFields, Zenon DEF Rs1In, Rs2In, RegIn, rs1_val, rs2_val, r
<1>4. AddrIn(Cpu) = data_addr
  BY <1>2, <1>3, Zenon DEF AddrIn, data_addr
<1>5. SizeIn(Cpu) = data_size
  BY <1>1, Zenon DEF SizeIn, data_size
<1>6. LinkIn(Cpu) = link
  BY CpuFields, Zenon DEF LinkIn, link
<1>7. TargetIn(Cpu) = target
  BY <1>1, <1>2, <1>3, CpuFields, Zenon DEF TargetIn, target
<1>8. TakenIn(Cpu) <=> taken
  BY <1>1, <1>3, Zenon DEF TakenIn, taken
<1>9. /\ FetchTrapIn(Cpu) = FetchTrap /\ TargetTrapIn(Cpu) = TargetTrap
      /\ LoadTrapIn(Cpu) = LoadTrap(data_addr, data_size)
      /\ StoreTrapIn(Cpu) = StoreTrap(data_addr, data_size)
  BY <1>4, <1>5, <1>7, CpuFields, Zenon
     DEF FetchTrapIn, FetchTrap, TargetTrapIn, TargetTrap, LoadTrapIn, LoadTrap,
         StoreTrapIn, StoreTrap, RangeIn, InRange
<1>10. RaisedIn(Cpu) = Raised
  <2>1. CASE FetchTrap # "none"
    BY <1>9, <2>1, Zenon DEF RaisedIn, Raised
  <2>2. CASE FetchTrap = "none"
    BY <1>1, <1>8, <1>9, <2>2 DEF RaisedIn, Raised
  <2>3. QED
    BY <2>1, <2>2
<1>11. QED
  BY <1>1, <1>2, <1>3, <1>4, <1>5, <1>6, <1>7, <1>8, <1>9, <1>10

(* What After computes, in terms of the variables.                         *)
Env == inst.op = "OP_SYSTEM" /\ inst.f3 = 0 /\ inst.f12 \in {"F12_ECALL", "F12_EBREAK"}
Publishes == inst.op = "OP_STORE" /\ data_addr = tohost_addr

LEMMA AfterViews ==
  /\ EnvIn(Cpu) <=> Env
  /\ CsrIn(Cpu) <=> inst.op = "OP_SYSTEM" /\ inst.f3 # 0
  /\ TohostIn(Cpu) <=> Publishes
  /\ RegsAfter(Cpu) = IF inst.op \in WritesRd /\ (inst.op = "OP_SYSTEM" => inst.f3 # 0)
                      THEN wr(inst.rd, ValueIn(Cpu)) ELSE regs
  /\ PcAfter(Cpu) =
       IF inst.op \in {"OP_JAL", "OP_JALR"} THEN target
       ELSE IF inst.op = "OP_BRANCH" /\ taken THEN target
       ELSE IF Env /\ trap_on_ecall THEN csrs["F12_MTVEC"] - (csrs["F12_MTVEC"] % 4)
       ELSE IF inst.op = "OP_SYSTEM" /\ inst.f3 = 0 /\ inst.f12 = "F12_MRET"
       THEN u32(csrs["F12_MEPC"])
       ELSE link
  /\ MemAfter(Cpu) = IF inst.op = "OP_STORE" /\ data_addr # tohost_addr
                     THEN StoreBytes(mem, data_addr, rs2_val, data_size) ELSE mem
  /\ ReasonAfter(Cpu) =
       IF Publishes THEN (IF rs2_val = 1 THEN "tohost-pass" ELSE "tohost-fail")
       ELSE IF Env /\ ~trap_on_ecall
       THEN (IF inst.f12 = "F12_ECALL" THEN "ecall" ELSE "ebreak")
       ELSE halt_reason
  /\ HaltsIn(Cpu) <=> Publishes \/ (Env /\ ~trap_on_ecall)
<1>1. /\ EnvIn(Cpu) <=> Env
      /\ CsrIn(Cpu) <=> inst.op = "OP_SYSTEM" /\ inst.f3 # 0
      /\ TohostIn(Cpu) <=> Publishes
  BY CpuFields, CpuViews, Zenon DEF EnvIn, Env, CsrIn, TohostIn, Publishes
<1>2. RegsAfter(Cpu) = IF inst.op \in WritesRd /\ (inst.op = "OP_SYSTEM" => inst.f3 # 0)
                       THEN wr(inst.rd, ValueIn(Cpu)) ELSE regs
  <2>1. RegsAfter(Cpu) = IF /\ inst.op \in WritesRd
                            /\ inst.op = "OP_SYSTEM" => CsrIn(Cpu)
                            /\ inst.rd # 0
                         THEN [regs EXCEPT ![inst.rd] = u32(ValueIn(Cpu))] ELSE regs
    BY CpuFields, CpuViews, Zenon DEF RegsAfter
  <2>2. QED
    BY <1>1, <2>1, Zenon DEF wr
<1>3. PcAfter(Cpu) =
       IF inst.op \in {"OP_JAL", "OP_JALR"} THEN target
       ELSE IF inst.op = "OP_BRANCH" /\ taken THEN target
       ELSE IF Env /\ trap_on_ecall THEN csrs["F12_MTVEC"] - (csrs["F12_MTVEC"] % 4)
       ELSE IF inst.op = "OP_SYSTEM" /\ inst.f3 = 0 /\ inst.f12 = "F12_MRET"
       THEN u32(csrs["F12_MEPC"])
       ELSE link
  BY <1>1, CpuFields, CpuViews, Zenon DEF PcAfter
<1>4. MemAfter(Cpu) = IF inst.op = "OP_STORE" /\ data_addr # tohost_addr
                      THEN StoreBytes(mem, data_addr, rs2_val, data_size) ELSE mem
  BY <1>1, CpuFields, CpuViews, Zenon DEF MemAfter, Publishes
<1>5. ReasonAfter(Cpu) =
       IF Publishes THEN (IF rs2_val = 1 THEN "tohost-pass" ELSE "tohost-fail")
       ELSE IF Env /\ ~trap_on_ecall
       THEN (IF inst.f12 = "F12_ECALL" THEN "ecall" ELSE "ebreak")
       ELSE halt_reason
  BY <1>1, CpuFields, CpuViews, Zenon DEF ReasonAfter
<1>6. HaltsIn(Cpu) <=> Publishes \/ (Env /\ ~trap_on_ecall)
  BY <1>1, CpuFields, Zenon DEF HaltsIn
<1>7. QED
  BY <1>1, <1>2, <1>3, <1>4, <1>5, <1>6

LEMMA CsrsViews ==
  LET src == IF inst.f3 >= 4 THEN inst.rs1 ELSE rs1_val
      op  == inst.f3 % 4
      old == csrs[inst.f12]
  IN  CsrsAfter(Cpu) =
        IF Env /\ trap_on_ecall
        THEN [csrs EXCEPT !["F12_MEPC"] = pc,
                          !["F12_MCAUSE"] = IF inst.f12 = "F12_ECALL" THEN CAUSE_ECALL_M
                                            ELSE CAUSE_BREAKPOINT]
        ELSE IF ~(inst.op = "OP_SYSTEM" /\ inst.f3 # 0) THEN csrs
        ELSE IF op = 1 THEN [csrs EXCEPT ![inst.f12] = src]
        ELSE IF src = 0 THEN csrs
        ELSE IF op = 2 THEN [csrs EXCEPT ![inst.f12] = PyOr(old, src)]
        ELSE [csrs EXCEPT ![inst.f12] = PyAnd(old, -1 - src)]
<1>1. SrcIn(Cpu) = IF inst.f3 >= 4 THEN inst.rs1 ELSE rs1_val
  BY CpuFields, CpuViews, Zenon DEF SrcIn
<1>2. QED
  BY <1>1, AfterViews, CpuFields, CpuViews, Zenon DEF CsrsAfter

(* The end of step(), once the registers and the memory are there.         *)
LEMMA RetireIs ==
  ASSUME Raised = "none", NEW mw, Retire(PcAfter(Cpu), mw),
         mw = IF inst.op = "OP_STORE" THEN <<data_addr, rs2_val, data_size>> ELSE NoWrite,
         regs' = RegsAfter(Cpu), mem' = MemAfter(Cpu), csrs' = CsrsAfter(Cpu),
         tohost_value' = IF Publishes THEN <<rs2_val>> ELSE tohost_value,
         halted' = IF Publishes \/ (Env /\ ~trap_on_ecall) THEN TRUE ELSE halted,
         halt_reason' = ReasonAfter(Cpu)
  PROVE  Cpu' = After(Cpu)
<1>1. /\ pc' = PcAfter(Cpu) /\ steps' = Cpu.steps + 1 /\ tohost_addr' = Cpu.tohost_addr
      /\ trap_on_ecall' = Cpu.trap_on_ecall /\ trap' = Cpu.trap
  BY CpuFields, Zenon DEF Retire
<1>2. trace' = TraceAfter(Cpu)
  BY CpuFields, CpuViews, Zenon DEF Retire, TraceAfter
<1>3. /\ tohost_value' = IF TohostIn(Cpu) THEN <<Rs2In(Cpu)>> ELSE Cpu.tohost_value
      /\ halted' = IF HaltsIn(Cpu) THEN TRUE ELSE Cpu.halted
  BY CpuFields, CpuViews, AfterViews, Zenon
<1>4. RaisedIn(Cpu) = "none"
  BY CpuViews
<1>5. Cpu' = [regs |-> regs', pc |-> pc', mem |-> mem', csrs |-> csrs',
              tohost_addr |-> tohost_addr', trap_on_ecall |-> trap_on_ecall',
              tohost_value |-> tohost_value', halted |-> halted',
              halt_reason |-> halt_reason', steps |-> steps', trap |-> trap', trace |-> trace']
  BY Zenon DEF Cpu
<1>6. QED
  BY <1>1, <1>2, <1>3, <1>4, <1>5, Zenon DEF After

(* One step of the emulator has one outcome, a function of the emulator.   *)
LEMMA StepIsFunction ==
  ASSUME Step
  PROVE  Running /\ Cpu' = After(Cpu)
<1>1. CASE RaiseTrap
  <2>1. RaisedIn(Cpu) # "none" /\ trap' = RaisedIn(Cpu) /\ Running
    BY <1>1, CpuViews DEF RaiseTrap
  <2>2. Cpu' = [regs |-> Cpu.regs, pc |-> Cpu.pc, mem |-> Cpu.mem, csrs |-> Cpu.csrs,
                tohost_addr |-> Cpu.tohost_addr, trap_on_ecall |-> Cpu.trap_on_ecall,
                tohost_value |-> Cpu.tohost_value, halted |-> Cpu.halted,
                halt_reason |-> Cpu.halt_reason, steps |-> Cpu.steps, trap |-> trap',
                trace |-> Cpu.trace]
    <3>1. Cpu' = [regs |-> regs', pc |-> pc', mem |-> mem', csrs |-> csrs',
              tohost_addr |-> tohost_addr', trap_on_ecall |-> trap_on_ecall',
              tohost_value |-> tohost_value', halted |-> halted',
              halt_reason |-> halt_reason', steps |-> steps', trap |-> trap', trace |-> trace']
      BY Zenon DEF Cpu
    <3>2. QED
      BY <1>1, <3>1, CpuFields, Zenon DEF RaiseTrap
  <2>3. QED
    BY <2>1, <2>2, Zenon DEF After
<1>2. ASSUME NEW op, NEW value, NEW np, Computes(op, value, np),
             op \in WritesRd \ {"OP_SYSTEM"},
             inst.op = op => value = ValueIn(Cpu) /\ np = PcAfter(Cpu)
      PROVE  Running /\ Cpu' = After(Cpu)
  <2>1. /\ inst.op = op /\ Raised = "none" /\ Running /\ regs' = wr(inst.rd, value)
        /\ UNCHANGED <<mem, csrs>> /\ KeepsRunning /\ Retire(PcAfter(Cpu), NoWrite)
    BY <1>2, Zenon DEF Computes, Executes
  <2>2. op \in WritesRd /\ op # "OP_SYSTEM" /\ op # "OP_STORE"
    BY <1>2 DEF WritesRd
  <2>3. ~Publishes /\ ~Env
    BY <2>1, <2>2 DEF Publishes, Env
  <2>4. regs' = RegsAfter(Cpu) /\ mem' = MemAfter(Cpu)
    BY <1>2, <2>1, <2>2, AfterViews, Zenon
  <2>5. csrs' = CsrsAfter(Cpu)
    BY <2>1, <2>2, <2>3, CsrsViews, Zenon
  <2>6. /\ tohost_value' = IF Publishes THEN <<rs2_val>> ELSE tohost_value
        /\ halted' = IF Publishes \/ (Env /\ ~trap_on_ecall) THEN TRUE ELSE halted
        /\ halt_reason' = ReasonAfter(Cpu)
    BY <2>1, <2>3, AfterViews, Zenon DEF KeepsRunning
  <2>7. NoWrite = IF inst.op = "OP_STORE" THEN <<data_addr, rs2_val, data_size>> ELSE NoWrite
    BY <2>1, <2>2, Zenon
  <2>8. QED
    BY <2>1, <2>4, <2>5, <2>6, <2>7, RetireIs
<1>3. CASE Lui \/ Auipc \/ Jal \/ Jalr \/ Load \/ AluI \/ AluR
  <2>1. /\ inst.op = "OP_LUI" => ValueIn(Cpu) = imm
        /\ inst.op = "OP_AUIPC" => ValueIn(Cpu) = pc + imm
        /\ inst.op = "OP_JAL" => ValueIn(Cpu) = link
        /\ inst.op = "OP_JALR" => ValueIn(Cpu) = link
        /\ inst.op = "OP_LOAD" =>
             ValueIn(Cpu) = LoadValue(mem, data_addr, data_size, inst.f3 \in {0, 1})
        /\ inst.op = "OP_IMM" => ValueIn(Cpu) = _alu_imm(inst.f3, inst.f7, rs1_val, imm)
        /\ inst.op = "OP_REG" => ValueIn(Cpu) = _alu_reg(inst.f3, inst.f7, rs1_val, rs2_val)
    <3> DEFINE load == LoadValue(mem, data_addr, data_size, inst.f3 \in {0, 1})
               i == _alu_imm(inst.f3, inst.f7, rs1_val, imm)
               x == _alu_reg(inst.f3, inst.f7, rs1_val, rs2_val)
    <3>1. ValueIn(Cpu) =
            CASE inst.op = "OP_LUI"   -> imm
              [] inst.op = "OP_AUIPC" -> pc + imm
              [] inst.op \in {"OP_JAL", "OP_JALR"} -> link
              [] inst.op = "OP_LOAD"  -> load
              [] inst.op = "OP_IMM"   -> i
              [] inst.op = "OP_REG"   -> x
              [] OTHER                -> csrs[inst.f12]
      BY CpuFields, CpuViews, Zenon DEF ValueIn
    <3> HIDE DEF load, i, x
    <3>2. /\ inst.op = "OP_LUI" => ValueIn(Cpu) = imm
          /\ inst.op = "OP_AUIPC" => ValueIn(Cpu) = pc + imm
          /\ inst.op = "OP_JAL" => ValueIn(Cpu) = link
          /\ inst.op = "OP_JALR" => ValueIn(Cpu) = link
          /\ inst.op = "OP_LOAD" => ValueIn(Cpu) = load
          /\ inst.op = "OP_IMM" => ValueIn(Cpu) = i
          /\ inst.op = "OP_REG" => ValueIn(Cpu) = x
      BY <3>1
    <3>3. QED
      BY <3>2, Zenon DEF load, i, x
  <2>2. /\ inst.op \in {"OP_JAL", "OP_JALR"} => PcAfter(Cpu) = target
        /\ inst.op \in {"OP_LUI", "OP_AUIPC", "OP_LOAD", "OP_IMM", "OP_REG"} =>
             PcAfter(Cpu) = link
    BY AfterViews DEF Env
  <2>3. CASE Lui
    BY <1>2, <2>1, <2>2, <2>3 DEF Lui, WritesRd
  <2>4. CASE Auipc
    BY <1>2, <2>1, <2>2, <2>4 DEF Auipc, WritesRd
  <2>5. CASE Jal
    BY <1>2, <2>1, <2>2, <2>5 DEF Jal, WritesRd
  <2>6. CASE Jalr
    BY <1>2, <2>1, <2>2, <2>6 DEF Jalr, WritesRd
  <2>7. CASE Load
    BY <1>2, <2>1, <2>2, <2>7, Zenon DEF Load, WritesRd
  <2>8. CASE AluI
    BY <1>2, <2>1, <2>2, <2>8 DEF AluI, WritesRd
  <2>9. CASE AluR
    BY <1>2, <2>1, <2>2, <2>9 DEF AluR, WritesRd
  <2>10. QED
    BY <1>3, <2>3, <2>4, <2>5, <2>6, <2>7, <2>8, <2>9
<1>4. ASSUME NEW op, Executes(op), NEW np, np = PcAfter(Cpu), NEW mw, Retire(np, mw),
             mw = IF inst.op = "OP_STORE" THEN <<data_addr, rs2_val, data_size>> ELSE NoWrite,
             regs' = RegsAfter(Cpu), mem' = MemAfter(Cpu), csrs' = CsrsAfter(Cpu),
             \/ KeepsRunning /\ ~Publishes /\ ~(Env /\ ~trap_on_ecall)
             \/ /\ halted' = TRUE /\ (Publishes \/ (Env /\ ~trap_on_ecall))
                /\ tohost_value' = IF Publishes THEN <<rs2_val>> ELSE tohost_value
                /\ halt_reason' = ReasonAfter(Cpu)
      PROVE  Running /\ Cpu' = After(Cpu)
  <2>1. Raised = "none" /\ Running
    BY <1>4 DEF Executes
  <2>2. /\ tohost_value' = IF Publishes THEN <<rs2_val>> ELSE tohost_value
        /\ halted' = IF Publishes \/ (Env /\ ~trap_on_ecall) THEN TRUE ELSE halted
        /\ halt_reason' = ReasonAfter(Cpu)
    BY <1>4, AfterViews, Zenon DEF KeepsRunning
  <2>3. Retire(PcAfter(Cpu), mw)
    BY <1>4, Zenon
  <2>4. QED
    BY <1>4, <2>1, <2>2, <2>3, RetireIs, Zenon
<1>5. CASE Branch \/ Fence
  <2>1. PICK op \in {"OP_BRANCH", "OP_FENCE"} : Executes(op)
    BY <1>5 DEF Branch, Fence
  <2>2. inst.op = op /\ op # "OP_STORE" /\ op # "OP_SYSTEM" /\ op \notin WritesRd
        /\ op \notin {"OP_JAL", "OP_JALR"}
    BY <2>1 DEF Executes, WritesRd
  <2>3. ~Publishes /\ ~Env
    BY <2>2 DEF Publishes, Env
  <2>4. UNCHANGED <<regs, mem, csrs>> /\ KeepsRunning
    BY <1>5 DEF Branch, Fence
  <2>5. regs' = RegsAfter(Cpu) /\ mem' = MemAfter(Cpu)
    BY <2>2, <2>4, AfterViews, Zenon
  <2>6. csrs' = CsrsAfter(Cpu)
    BY <2>2, <2>3, <2>4, CsrsViews, Zenon
  <2>7. PcAfter(Cpu) = IF inst.op = "OP_BRANCH" /\ taken THEN target ELSE link
    BY <2>2, <2>3, AfterViews, Zenon
  <2>8. Retire(PcAfter(Cpu), NoWrite)
    <3>1. CASE Branch
      <4>1. inst.op = "OP_BRANCH" /\ Retire(IF taken THEN target ELSE link, NoWrite)
        BY <3>1 DEF Branch, Executes
      <4>2. QED
        BY <2>7, <4>1, Zenon
    <3>2. CASE Fence
      <4>1. inst.op = "OP_FENCE" /\ Retire(link, NoWrite)
        BY <3>2 DEF Fence, Executes
      <4>2. PcAfter(Cpu) = link
        BY <2>7, <4>1
      <4>3. QED
        BY <4>1, <4>2, Zenon
    <3>3. QED
      BY <1>5, <3>1, <3>2
  <2>9. NoWrite = IF inst.op = "OP_STORE" THEN <<data_addr, rs2_val, data_size>> ELSE NoWrite
    BY <2>2, Zenon
  <2>10. QED
    BY <1>4, <2>1, <2>3, <2>4, <2>5, <2>6, <2>8, <2>9, Zenon
<1>6. CASE Store \/ StoreTohost
  <2>1. /\ Executes("OP_STORE") /\ inst.op = "OP_STORE" /\ UNCHANGED <<regs, csrs>>
        /\ Retire(link, <<data_addr, rs2_val, data_size>>)
    BY <1>6 DEF Store, StoreTohost, Executes
  <2>2. ~Env /\ inst.op \notin WritesRd
    BY <2>1 DEF Env, WritesRd
  <2>3. csrs' = CsrsAfter(Cpu)
    <3>1. inst.op # "OP_SYSTEM"
      BY <2>1
    <3>2. QED
      BY <2>1, <2>2, <3>1, CsrsViews, Zenon
  <2>4. regs' = RegsAfter(Cpu) /\ link = PcAfter(Cpu)
    <3>1. regs' = RegsAfter(Cpu)
      BY <2>1, <2>2, AfterViews, Zenon
    <3>2. link = PcAfter(Cpu)
      BY <2>1, <2>2, AfterViews
    <3>3. QED
      BY <3>1, <3>2
  <2>5. CASE Store
    <3>1. data_addr # tohost_addr /\ mem' = StoreBytes(mem, data_addr, rs2_val, data_size)
          /\ KeepsRunning
      BY <2>5 DEF Store
    <3>2. ~Publishes /\ mem' = MemAfter(Cpu)
      BY <2>1, <3>1, AfterViews, Zenon DEF Publishes
    <3>3. QED
      BY <1>4, <2>1, <2>2, <2>3, <2>4, <3>1, <3>2, Zenon
  <2>6. CASE StoreTohost
    <3>1. data_addr = tohost_addr /\ mem' = mem /\ halted' = TRUE /\ tohost_value' = <<rs2_val>>
          /\ halt_reason' = IF rs2_val = 1 THEN "tohost-pass" ELSE "tohost-fail"
      BY <2>6, Zenon DEF StoreTohost
    <3>2. Publishes /\ mem' = MemAfter(Cpu)
      BY <2>1, <3>1, AfterViews, Zenon DEF Publishes
    <3>3. halt_reason' = ReasonAfter(Cpu)
      BY <3>1, <3>2, AfterViews, Zenon
    <3>4. tohost_value' = IF Publishes THEN <<rs2_val>> ELSE tohost_value
      BY <3>1, <3>2, Zenon
    <3>5. QED
      BY <1>4, <2>1, <2>3, <2>4, <3>1, <3>2, <3>3, <3>4, Zenon
  <2>7. QED
    BY <1>6, <2>5, <2>6
<1>7. CASE Ecall \/ Ebreak \/ Mret \/ Wfi \/ Csr
  <2>1. /\ Executes("OP_SYSTEM") /\ inst.op = "OP_SYSTEM" /\ mem' = mem
    BY <1>7 DEF Ecall, Ebreak, EnvHalt, EnvTrap, Mret, Wfi, Csr, Priv, Executes
  <2>2. ~Publishes /\ mem' = MemAfter(Cpu)
    <3>1. inst.op # "OP_STORE"
      BY <2>1
    <3>2. QED
      BY <2>1, <3>1, AfterViews, Zenon DEF Publishes
  <2>3. /\ NoWrite = IF inst.op = "OP_STORE" THEN <<data_addr, rs2_val, data_size>> ELSE NoWrite
        /\ inst.op \in WritesRd
    <3>1. inst.op # "OP_STORE" /\ inst.op \in WritesRd
      BY <2>1 DEF WritesRd
    <3>2. QED
      BY <3>1, Zenon
  <2>4. inst.f3 = 0 => RegsAfter(Cpu) = regs
    BY <2>1, AfterViews, Zenon
  <2>5. /\ Env /\ trap_on_ecall => PcAfter(Cpu) = csrs["F12_MTVEC"] - (csrs["F12_MTVEC"] % 4)
        /\ ~Env /\ inst.f3 = 0 /\ inst.f12 = "F12_MRET" => PcAfter(Cpu) = u32(csrs["F12_MEPC"])
        /\ ~(Env /\ trap_on_ecall) /\ ~(inst.f3 = 0 /\ inst.f12 = "F12_MRET") =>
             PcAfter(Cpu) = link
    <3>1. inst.op # "OP_BRANCH" /\ inst.op \notin {"OP_JAL", "OP_JALR"}
      BY <2>1
    <3>2. QED
      BY <2>1, <3>1, AfterViews, Zenon
  <2>6. ASSUME NEW f12 \in {"F12_ECALL", "F12_EBREAK"}, NEW reason, EnvHalt(f12, reason),
               reason = IF f12 = "F12_ECALL" THEN "ecall" ELSE "ebreak"
        PROVE  Running /\ Cpu' = After(Cpu)
    <3>1. /\ inst.f3 = 0 /\ inst.f12 = f12 /\ ~trap_on_ecall /\ halted' = TRUE
          /\ halt_reason' = reason /\ UNCHANGED <<regs, mem, csrs, tohost_value>>
          /\ Retire(link, NoWrite)
      BY <2>6 DEF EnvHalt, Priv
    <3>2. Env /\ inst.f12 # "F12_MRET"
      BY <2>1, <2>6, <3>1 DEF Env
    <3>3. link = PcAfter(Cpu)
      BY <2>5, <3>1, <3>2, Zenon
    <3>4. csrs' = CsrsAfter(Cpu)
      BY <3>1, CsrsViews, Zenon
    <3>5. halt_reason' = ReasonAfter(Cpu)
      BY <2>2, <2>6, <3>1, <3>2, AfterViews, Zenon
    <3>6. regs' = RegsAfter(Cpu)
      BY <2>4, <3>1, Zenon
    <3>7. tohost_value' = IF Publishes THEN <<rs2_val>> ELSE tohost_value
      BY <2>2, <3>1, Zenon
    <3>8. QED
      BY <1>4, <2>1, <2>2, <2>3, <3>1, <3>2, <3>3, <3>4, <3>5, <3>6, <3>7, Zenon
  <2>7. ASSUME NEW f12 \in {"F12_ECALL", "F12_EBREAK"}, NEW code, EnvTrap(f12, code),
               code = IF f12 = "F12_ECALL" THEN CAUSE_ECALL_M ELSE CAUSE_BREAKPOINT
        PROVE  Running /\ Cpu' = After(Cpu)
    <3>1. /\ inst.f3 = 0 /\ inst.f12 = f12 /\ trap_on_ecall /\ UNCHANGED <<regs, mem>>
          /\ csrs' = [csrs EXCEPT !["F12_MEPC"] = pc, !["F12_MCAUSE"] = code]
          /\ KeepsRunning
          /\ Retire(csrs["F12_MTVEC"] - (csrs["F12_MTVEC"] % 4), NoWrite)
      BY <2>7, Zenon DEF EnvTrap, Priv
    <3>2. Env
      BY <2>1, <2>7, <3>1 DEF Env
    <3>3. csrs["F12_MTVEC"] - (csrs["F12_MTVEC"] % 4) = PcAfter(Cpu)
      BY <2>5, <3>1, <3>2, Zenon
    <3>4. csrs' = CsrsAfter(Cpu)
      BY <2>7, <3>1, <3>2, CsrsViews, Zenon
    <3>5. regs' = RegsAfter(Cpu)
      BY <2>4, <3>1, Zenon
    <3>6. QED
      BY <1>4, <2>1, <2>2, <2>3, <3>1, <3>2, <3>3, <3>4, <3>5, Zenon
  <2>8. CASE Ecall \/ Ebreak
    <3>1. \/ EnvHalt("F12_ECALL", "ecall") \/ EnvTrap("F12_ECALL", CAUSE_ECALL_M)
          \/ EnvHalt("F12_EBREAK", "ebreak") \/ EnvTrap("F12_EBREAK", CAUSE_BREAKPOINT)
      BY <2>8 DEF Ecall, Ebreak
    <3>2. "F12_ECALL" # "F12_EBREAK"
      OBVIOUS
    <3>3. QED
      BY <2>6, <2>7, <3>1, <3>2, Zenon
  <2>9. CASE Mret \/ Wfi
    <3>1. /\ inst.f3 = 0 /\ UNCHANGED <<regs, mem, csrs>> /\ KeepsRunning
          /\ inst.f12 \in {"F12_MRET", "F12_WFI"}
          /\ Retire(IF inst.f12 = "F12_MRET" THEN u32(csrs["F12_MEPC"]) ELSE link, NoWrite)
      BY <2>9 DEF Mret, Wfi, Priv
    <3>2. ~Env
      BY <3>1 DEF Env
    <3>3. (IF inst.f12 = "F12_MRET" THEN u32(csrs["F12_MEPC"]) ELSE link) = PcAfter(Cpu)
      BY <2>5, <3>1, <3>2, Zenon
    <3>4. csrs' = CsrsAfter(Cpu)
      BY <3>1, <3>2, CsrsViews, Zenon
    <3>5. regs' = RegsAfter(Cpu)
      BY <2>4, <3>1, Zenon
    <3>6. QED
      BY <1>4, <2>1, <2>2, <2>3, <3>1, <3>2, <3>3, <3>4, <3>5, Zenon
  <2>10. CASE Csr
    <3>1. inst.f3 # 0 /\ regs' = wr(inst.rd, csrs[inst.f12]) /\ KeepsRunning /\ Retire(link, NoWrite)
      BY <2>10, Zenon DEF Csr
    <3>2. ~Env
      BY <3>1 DEF Env
    <3>3. csrs' = CsrsAfter(Cpu)
      BY <2>1, <2>10, <3>2, CsrsViews, Zenon DEF Csr
    <3>4. ValueIn(Cpu) = csrs[inst.f12]
      BY <2>1, CpuFields, CpuViews DEF ValueIn
    <3>5. regs' = RegsAfter(Cpu)
      BY <2>3, <3>1, <3>4, AfterViews, Zenon
    <3>6. link = PcAfter(Cpu)
      BY <2>5, <3>1, <3>2, Zenon
    <3>7. QED
      BY <1>4, <2>1, <2>2, <2>3, <3>1, <3>2, <3>3, <3>5, <3>6, Zenon
  <2>11. QED
    BY <1>7, <2>8, <2>9, <2>10
<1>8. QED
  BY <1>1, <1>3, <1>5, <1>6, <1>7 DEF Step

(***************************************************************************)
(* A run of a file: the emulators from power-on up to the m-th, each made  *)
(* by step() from the one before it, which had not stopped.                *)
(***************************************************************************)
Boot(elf) ==
  [regs |-> [x \in Reg |-> 0], pc |-> Base(elf), mem |-> Loaded(elf),
   csrs |-> [x \in Funct12 |-> 0], tohost_addr |-> elf.tohost, trap_on_ecall |-> TRUE,
   tohost_value |-> NoWrite, halted |-> FALSE, halt_reason |-> "none", steps |-> 0,
   trap |-> "none", trace |-> [rd_write |-> NoWrite, mem_write |-> NoWrite]]

RunningIn(s) == ~s.halted /\ s.trap = "none" /\ s.steps < MAX_STEPS
ResultIn(s) == IF s.trap # "none" THEN s.trap
               ELSE IF s.halted THEN s.halt_reason
               ELSE IF s.steps >= MAX_STEPS THEN "step-limit" ELSE "running"

IsRun(elf, m, t) ==
  /\ t[0] = Boot(elf)
  /\ \A i \in 0 .. (m - 1) : RunningIn(t[i]) /\ t[i + 1] = After(t[i])

LEMMA CpuStops ==
  (RunningIn(Cpu) <=> Running) /\ ResultIn(Cpu) = RunResult
BY CpuFields, Zenon DEF RunningIn, Running, ResultIn, RunResult

LEMMA FreshIsBoot ==
  ASSUME NEW elf, FreshCpu(Loaded(elf), Base(elf), elf.tohost, TRUE)
  PROVE  Cpu' = Boot(elf)
BY Zenon DEF Cpu, Boot, FreshCpu

(* Two runs of one file are the same as far as both go.                    *)
LEMMA OneRun ==
  ASSUME NEW elf, NEW m \in Nat, NEW t, IsRun(elf, m, t), NEW l \in Nat, NEW u, IsRun(elf, l, u)
  PROVE  \A i \in Nat : i <= m /\ i <= l => t[i] = u[i]
<1> DEFINE S == {i \in Nat : i <= m /\ i <= l /\ t[i] # u[i]}
<1>1. SUFFICES ASSUME S # {} PROVE FALSE
  OBVIOUS
<1>2. PICK i \in S : \A j \in S : i <= j
  <2>1. S \in SUBSET Nat
    OBVIOUS
  <2> HIDE DEF S
  <2>2. QED
    BY <1>1, <2>1, Least
<1>3. i \in Nat /\ i <= m /\ i <= l /\ t[i] # u[i]
  OBVIOUS
<1>4. i # 0
  BY <1>3 DEF IsRun
<1>5. i - 1 \in Nat /\ i - 1 \in 0 .. (m - 1) /\ i - 1 \in 0 .. (l - 1) /\ (i - 1) + 1 = i
      /\ i - 1 <= m /\ i - 1 <= l
  BY <1>3, <1>4
<1>6. t[i - 1] = u[i - 1]
  <2>1. i - 1 \notin S
    <3> HIDE DEF S
    <3>1. QED
      BY <1>2, <1>3, <1>5
  <2>2. QED
    BY <1>5, <2>1
<1>7. t[i] = After(t[i - 1]) /\ u[i] = After(u[i - 1])
  BY <1>5 DEF IsRun
<1>8. QED
  BY <1>3, <1>6, <1>7

(* A file has one end.                                                     *)
LEMMA OneEnd ==
  ASSUME NEW elf, NEW m \in Nat, NEW t, IsRun(elf, m, t), ~RunningIn(t[m]),
         NEW l \in Nat, NEW u, IsRun(elf, l, u), ~RunningIn(u[l])
  PROVE  t[m] = u[l]
<1>1. \A i \in Nat : i <= m /\ i <= l => t[i] = u[i]
  BY OneRun
<1>2. ~(m < l)
  <2>1. SUFFICES ASSUME m < l PROVE FALSE
    OBVIOUS
  <2>2. m \in 0 .. (l - 1) /\ t[m] = u[m]
    BY <1>1, <2>1
  <2>3. QED
    BY <2>2 DEF IsRun
<1>3. ~(l < m)
  <2>1. SUFFICES ASSUME l < m PROVE FALSE
    OBVIOUS
  <2>2. l \in 0 .. (m - 1) /\ t[l] = u[l]
    BY <1>1, <2>1
  <2>3. QED
    BY <2>2 DEF IsRun
<1>4. m = l
  BY <1>2, <1>3
<1>5. QED
  BY <1>1, <1>4

(* A run can be taken one step further.                                    *)
LEMMA LongerRun ==
  ASSUME NEW elf, NEW m \in Nat, NEW t, IsRun(elf, m, t), RunningIn(t[m])
  PROVE  \E u : IsRun(elf, m + 1, u) /\ u[m + 1] = After(t[m])
<1> DEFINE u == [i \in 0 .. (m + 1) |-> IF i = m + 1 THEN After(t[m]) ELSE t[i]]
<1>1. /\ \A i \in 0 .. m : u[i] = t[i]
      /\ u[m + 1] = After(t[m])
  OBVIOUS
<1> HIDE DEF u
<1>2. u[0] = Boot(elf)
  <2>1. 0 \in 0 .. m
    OBVIOUS
  <2>2. QED
    BY <1>1, <2>1 DEF IsRun
<1>3. ASSUME NEW i \in 0 .. ((m + 1) - 1)
      PROVE  RunningIn(u[i]) /\ u[i + 1] = After(u[i])
  <2>1. i \in 0 .. m /\ u[i] = t[i]
    BY <1>1
  <2>2. CASE i = m
    BY <1>1, <2>1, <2>2
  <2>3. CASE i # m
    <3>1. i \in 0 .. (m - 1) /\ i + 1 \in 0 .. m
      BY <2>1, <2>3
    <3>2. RunningIn(t[i]) /\ t[i + 1] = After(t[i])
      BY <3>1 DEF IsRun
    <3>3. QED
      BY <1>1, <2>1, <3>1, <3>2
  <2>4. QED
    BY <2>2, <2>3
<1>4. IsRun(elf, m + 1, u)
  BY <1>2, <1>3 DEF IsRun
<1>5. QED
  BY <1>1, <1>4

(***************************************************************************)
(* The verdicts.  A file without tohost or segments is failed; any other   *)
(* file that is done has the verdict of the end of its run; the emulator   *)
(* of the test that is running is on a run of its file.                    *)
(***************************************************************************)
Rejected(elf) == elf.tohost = NoSymbol \/ elf.segments = <<>>

Judged(n) ==
  IF Rejected(files[n]) THEN Failed(n)
  ELSE \E m \in Nat : \E t :
         /\ IsRun(files[n], m, t)
         /\ ~RunningIn(t[m])
         /\ Failed(n) <=> ResultIn(t[m]) # "tohost-pass"

OnARun == \E m \in Nat : \E t : IsRun(files[running], m, t) /\ t[m] = Cpu

VerdictInv ==
  /\ \A n : Failed(n) => n \in Done
  /\ running # NoTest => ~Rejected(files[running]) /\ OnARun
  /\ phase = "testing" => \A n \in Done \ KNOWN_SKIPS : Judged(n)

(* One more failure on the list.                                           *)
LEMMA FailedGrows ==
  ASSUME fails \in Seq(Nat \X Reasons), NEW x \in Nat, NEW why \in Reasons,
         fails' = Append(fails, <<x, why>>)
  PROVE  \A n : Failed(n)' <=> Failed(n) \/ n = x
<1> DEFINE e == <<x, why>>
<1>1. /\ Len(fails) \in Nat /\ DOMAIN fails = 1 .. Len(fails)
      /\ DOMAIN fails' = 1 .. (Len(fails) + 1)
      /\ \A i \in 1 .. Len(fails) : fails'[i] = fails[i]
      /\ fails'[Len(fails) + 1] = e
  <2>1. e \in Nat \X Reasons
    OBVIOUS
  <2>2. QED
    BY <2>1
<1>2. e[1] = x
  OBVIOUS
<1> HIDE DEF e
<1>3. ASSUME NEW n, Failed(n)' PROVE Failed(n) \/ n = x
  <2>1. PICK i \in 1 .. (Len(fails) + 1) : fails'[i][1] = n
    BY <1>1, <1>3 DEF Failed
  <2>2. CASE i = Len(fails) + 1
    BY <1>1, <1>2, <2>1, <2>2
  <2>3. CASE i # Len(fails) + 1
    <3>1. i \in DOMAIN fails /\ fails[i][1] = n
      BY <1>1, <2>1, <2>3
    <3>2. QED
      BY <3>1 DEF Failed
  <2>4. QED
    BY <2>2, <2>3
<1>4. ASSUME NEW n, Failed(n) PROVE Failed(n)'
  <2>1. PICK i \in DOMAIN fails : fails[i][1] = n
    BY <1>4 DEF Failed
  <2>2. i \in DOMAIN fails' /\ fails'[i][1] = n
    BY <1>1, <2>1
  <2>3. QED
    BY <2>2 DEF Failed
<1>5. Failed(x)'
  <2>1. Len(fails) + 1 \in DOMAIN fails' /\ fails'[Len(fails) + 1][1] = x
    BY <1>1, <1>2
  <2>2. QED
    BY <2>1 DEF Failed
<1>6. QED
  BY <1>3, <1>4, <1>5

(* A verdict stays while the file and its place on the list do.            *)
LEMMA JudgedStays ==
  ASSUME NEW n, Judged(n), files' = files, Failed(n)' <=> Failed(n)
  PROVE  Judged(n)'
BY Zenon DEF Judged

LEMMA FailedStays ==
  ASSUME fails' = fails
  PROVE  \A n : Failed(n)' <=> Failed(n)
BY DEF Failed

LEMMA VerdictInit ==
  ASSUME RInit
  PROVE  VerdictInv
BY DEF RInit, VerdictInv, Failed

LEMMA VerdictList ==
  ASSUME BookInv, VerdictInv, List
  PROVE  VerdictInv'
<1>1. /\ UNCHANGED <<files, filter, running, passes, fails, skips>> /\ Matching' = Matching
      /\ running = NoTest /\ fails = <<>>
  BY MatchingFixed DEF List, BookInv, book
<1>2. \A n : ~Failed(n)'
  BY <1>1 DEF Failed
<1>3. phase' = "testing" => Done' = {}
  <2>1. phase' = "testing" => todo' = Matching
    BY DEF List
  <2>2. QED
    BY <1>1, <2>1 DEF Done
<1>4. QED
  BY <1>1, <1>2, <1>3 DEF VerdictInv

LEMMA VerdictSkip ==
  ASSUME BookInv, VerdictInv, Skip
  PROVE  VerdictInv'
<1>1. /\ files' = files /\ running' = running /\ running = NoTest /\ fails' = fails
      /\ phase = "testing" /\ todo # {} /\ todo' = todo \ {NextTest} /\ NextTest \in KNOWN_SKIPS
      /\ Matching' = Matching
  BY MatchingFixed DEF Skip, Idle
<1>2. Done' \subseteq Done \cup {NextTest} /\ Done \subseteq Done'
  BY <1>1 DEF Done
<1>3. \A n : Failed(n)' <=> Failed(n)
  BY <1>1, FailedStays
<1>4. ASSUME NEW n \in Done' \ KNOWN_SKIPS PROVE Judged(n)'
  <2>1. n \in Done \ KNOWN_SKIPS
    BY <1>1, <1>2
  <2>2. Judged(n)
    BY <1>1, <2>1 DEF VerdictInv
  <2>3. QED
    BY <1>1, <1>3, <2>2, JudgedStays
<1>5. \A n : Failed(n)' => n \in Done'
  BY <1>2, <1>3 DEF VerdictInv
<1>6. QED
  BY <1>1, <1>4, <1>5 DEF VerdictInv

LEMMA VerdictReject ==
  ASSUME BookInv, VerdictInv, RejectElf
  PROVE  VerdictInv'
<1>1. PICK elf \in Elves :
        /\ Starts(elf) /\ Rejected(elf)
        /\ fails' = Append(fails, <<NextTest, IF elf.tohost = NoSymbol
                                              THEN "no tohost" ELSE "no segments">>)
        /\ todo' = todo \ {NextTest}
        /\ UNCHANGED <<files, filter, running>>
  BY DEF RejectElf, Rejected
<1>2. /\ phase = "testing" /\ running = NoTest /\ todo # {} /\ files[NextTest] = elf
      /\ Matching' = Matching
  BY <1>1, MatchingFixed DEF Starts, Idle
<1>3. NextTest \in todo /\ NextTest \in Matching /\ NextTest \in Nat
  BY <1>2, NextIsLeft
<1>4. \A n : Failed(n)' <=> Failed(n) \/ n = NextTest
  <2> DEFINE why == IF elf.tohost = NoSymbol THEN "no tohost" ELSE "no segments"
  <2>1. why \in Reasons
    BY DEF Reasons
  <2>2. fails \in Seq(Nat \X Reasons) /\ fails' = Append(fails, <<NextTest, why>>)
    BY <1>1 DEF BookInv
  <2> HIDE DEF why
  <2>3. QED
    BY <1>3, <2>1, <2>2, FailedGrows
<1>5. Done' = Done \cup {NextTest} /\ NextTest \notin Done
  <2>1. NoTest \notin Matching
    BY MatchingFinite DEF BookInv
  <2>2. QED
    BY <1>1, <1>2, <1>3, <2>1 DEF Done
<1>6. ASSUME NEW n \in Done' \ KNOWN_SKIPS PROVE Judged(n)'
  <2>1. CASE n = NextTest
    BY <1>1, <1>2, <1>4, <2>1 DEF Judged
  <2>2. CASE n # NextTest
    <3>1. Judged(n)
      BY <1>2, <1>5, <2>2 DEF VerdictInv
    <3>2. QED
      BY <1>1, <1>4, <2>2, <3>1, JudgedStays
  <2>3. QED
    BY <2>1, <2>2
<1>7. \A n : Failed(n)' => n \in Done'
  BY <1>4, <1>5 DEF VerdictInv
<1>8. QED
  BY <1>1, <1>2, <1>6, <1>7 DEF VerdictInv

LEMMA VerdictStart ==
  ASSUME BookInv, VerdictInv, Start
  PROVE  VerdictInv'
<1>1. PICK elf \in Elves :
        /\ Starts(elf) /\ elf.tohost # NoSymbol /\ elf.segments # <<>>
        /\ IF Fits(elf)
           THEN /\ FreshCpu(Loaded(elf), Base(elf), elf.tohost, TRUE)
                /\ running' = NextTest
                /\ todo' = todo \ {NextTest}
                /\ UNCHANGED phase
           ELSE phase' = "crashed" /\ UNCHANGED <<emuVars, running, todo>>
        /\ UNCHANGED <<files, filter, book, exit_code>>
  BY DEF Start
<1>2. Fits(elf)
  BY <1>1, LoaderFits
<1>3. /\ FreshCpu(Loaded(elf), Base(elf), elf.tohost, TRUE) /\ running' = NextTest
      /\ todo' = todo \ {NextTest} /\ phase' = phase /\ files' = files /\ fails' = fails
      /\ Matching' = Matching
  BY <1>1, <1>2, MatchingFixed DEF book
<1>4. /\ phase = "testing" /\ running = NoTest /\ todo # {} /\ files[NextTest] = elf
  BY <1>1 DEF Starts, Idle
<1>5. NextTest \in todo /\ NextTest \in Matching /\ NoTest \notin Matching
  BY <1>4, NextIsLeft, MatchingFinite DEF BookInv
<1>6. Done' = Done
  BY <1>3, <1>4, <1>5 DEF Done
<1>7. \A n : Failed(n)' <=> Failed(n)
  BY <1>3, FailedStays
<1>8. \A n \in Done' \ KNOWN_SKIPS : Judged(n)'
  BY <1>3, <1>4, <1>6, <1>7, JudgedStays DEF VerdictInv
<1>9. OnARun'
  <2> DEFINE t == [i \in 0 .. 0 |-> Boot(elf)]
  <2>1. t[0] = Boot(elf) /\ t[0] = Cpu'
    <3>1. t[0] = Boot(elf)
      OBVIOUS
    <3>2. Cpu' = Boot(elf)
      BY <1>3, FreshIsBoot
    <3>3. QED
      BY <3>1, <3>2, Zenon
  <2> HIDE DEF t
  <2>2. IsRun(elf, 0, t)
    BY <2>1 DEF IsRun
  <2>3. files'[running'] = elf /\ 0 \in Nat
    BY <1>3, <1>4
  <2>4. QED
    BY <2>1, <2>2, <2>3, Zenon DEF OnARun
<1>10. ~Rejected(files[running])'
  BY <1>1, <1>3, <1>4 DEF Rejected
<1>11. \A n : Failed(n)' => n \in Done'
  BY <1>6, <1>7 DEF VerdictInv
<1>12. QED
  BY <1>8, <1>9, <1>10, <1>11, Zenon DEF VerdictInv

LEMMA VerdictStep ==
  ASSUME VerdictInv, EmulatorStep
  PROVE  VerdictInv'
<1>1. /\ phase = "testing" /\ running # NoTest /\ Step
      /\ UNCHANGED <<files, filter, todo, running, fails, phase>> /\ Matching' = Matching
  BY MatchingFixed DEF EmulatorStep, runnerVars, book
<1>2. PICK m \in Nat : \E t : IsRun(files[running], m, t) /\ t[m] = Cpu
  BY <1>1 DEF VerdictInv, OnARun
<1>3. PICK t : IsRun(files[running], m, t) /\ t[m] = Cpu
  BY <1>2
<1>4. RunningIn(t[m]) /\ Cpu' = After(t[m])
  BY <1>1, <1>3, StepIsFunction, CpuStops, Zenon
<1>5. PICK u : IsRun(files[running], m + 1, u) /\ u[m + 1] = After(t[m])
  BY <1>3, <1>4, LongerRun
<1>6. OnARun'
  <2>1. m + 1 \in Nat /\ files'[running'] = files[running]
    BY <1>1
  <2>2. QED
    BY <1>4, <1>5, <2>1, Zenon DEF OnARun
<1>7. \A n : Failed(n)' <=> Failed(n)
  BY <1>1, FailedStays
<1>8. Done' = Done
  BY <1>1 DEF Done
<1>9. \A n \in Done' \ KNOWN_SKIPS : Judged(n)'
  BY <1>1, <1>7, <1>8, JudgedStays DEF VerdictInv
<1>10. ~Rejected(files[running])' /\ \A n : Failed(n)' => n \in Done'
  BY <1>1, <1>7, <1>8 DEF VerdictInv, Rejected
<1>11. QED
  BY <1>6, <1>9, <1>10, Zenon DEF VerdictInv

LEMMA VerdictFinish ==
  ASSUME BookInv, EmuInv, VerdictInv, Finish
  PROVE  VerdictInv'
<1>1. /\ phase = "testing" /\ running # NoTest /\ running' = NoTest /\ ~Running
      /\ UNCHANGED <<files, filter, todo, phase>> /\ Matching' = Matching
  BY MatchingFixed DEF Finish
<1>2. /\ running \in Matching \ todo /\ running \in Nat /\ NoTest \notin Matching
  BY <1>1, MatchingFinite DEF BookInv, Balanced
<1> PICK x \in Nat : x = running
  BY <1>2
<1>3. Done' = Done \cup {x} /\ x \notin Done
  BY <1>1, <1>2 DEF Done
<1>4. ~Failed(x)
  BY <1>3 DEF VerdictInv
<1>5. /\ \A n : n # x => (Failed(n)' <=> Failed(n))
      /\ Failed(x)' <=> RunResult # "tohost-pass"
  <2>1. CASE ok
    <3>1. fails' = fails
      BY <2>1 DEF Finish
    <3>2. QED
      BY <1>4, <2>1, <3>1, FailedStays DEF ok
  <2>2. CASE ~ok
    <3>1. fails' = Append(fails, <<x, RunResult>>) /\ fails \in Seq(Nat \X Reasons)
      BY <2>2 DEF Finish, BookInv
    <3>2. RunResult \in Reasons
      BY VerdictType
    <3>3. \A n : Failed(n)' <=> Failed(n) \/ n = x
      BY <1>2, <3>1, <3>2, FailedGrows
    <3>4. QED
      BY <2>2, <3>3 DEF ok
  <2>3. QED
    BY <2>1, <2>2
<1>6. Judged(x)'
  <2>1. PICK m \in Nat : \E t : IsRun(files[x], m, t) /\ t[m] = Cpu
    BY <1>1 DEF VerdictInv, OnARun
  <2>2. PICK t : IsRun(files[x], m, t) /\ t[m] = Cpu
    BY <2>1
  <2>3. ~RunningIn(t[m]) /\ ResultIn(t[m]) = RunResult
    BY <1>1, <2>2, CpuStops, Zenon
  <2>4. ~Rejected(files[x])
    BY <1>1 DEF VerdictInv
  <2>5. QED
    BY <1>1, <1>5, <2>2, <2>3, <2>4, Zenon DEF Judged
<1>7. ASSUME NEW n \in Done' \ KNOWN_SKIPS PROVE Judged(n)'
  <2>1. CASE n = x
    BY <1>6, <2>1
  <2>2. CASE n # x
    <3>1. Judged(n)
      BY <1>1, <1>3, <2>2 DEF VerdictInv
    <3>2. QED
      BY <1>1, <1>5, <2>2, <3>1, JudgedStays
  <2>3. QED
    BY <2>1, <2>2
<1>8. \A n : Failed(n)' => n \in Done'
  BY <1>3, <1>5 DEF VerdictInv
<1>9. QED
  BY <1>1, <1>7, <1>8 DEF VerdictInv

LEMMA VerdictReport ==
  ASSUME VerdictInv, Report
  PROVE  VerdictInv'
<1>1. /\ running = NoTest /\ phase' = "returned"
      /\ UNCHANGED <<files, filter, todo, running, fails>> /\ Matching' = Matching
  BY MatchingFixed DEF Report, Idle, book
<1>2. Done' = Done /\ \A n : Failed(n)' <=> Failed(n)
  BY <1>1, FailedStays DEF Done
<1>3. QED
  BY <1>1, <1>2 DEF VerdictInv

LEMMA VerdictStutters ==
  ASSUME VerdictInv, UNCHANGED rvars
  PROVE  VerdictInv'
<1>1. /\ UNCHANGED <<files, filter, todo, running, fails, phase>> /\ Matching' = Matching
      /\ Cpu' = Cpu
  BY MatchingFixed DEF rvars, runnerVars, book, emuVars, Cpu
<1>2. Done' = Done /\ \A n : Failed(n)' <=> Failed(n)
  BY <1>1, FailedStays DEF Done
<1>3. phase' = "testing" => \A n \in Done' \ KNOWN_SKIPS : Judged(n)'
  BY <1>1, <1>2, JudgedStays DEF VerdictInv
<1>4. OnARun' <=> OnARun
  BY <1>1, Zenon DEF OnARun
<1>5. Rejected(files[running])' <=> Rejected(files[running])
  BY <1>1 DEF Rejected
<1>6. QED
  BY <1>1, <1>2, <1>3, <1>4, <1>5, Zenon DEF VerdictInv

LEMMA VerdictKeeps ==
  ASSUME RunnerInv, VerdictInv, [RNext]_rvars
  PROVE  VerdictInv'
<1>1. BookInv /\ EmuInv
  BY DEF RunnerInv
<1>2. QED
  BY <1>1, VerdictList, VerdictSkip, VerdictReject, VerdictStart, VerdictStep, VerdictFinish,
     VerdictReport, VerdictStutters DEF RNext

(* Every test that is done has the verdict that its file alone decides:    *)
(* the end of the one run of that file from power-on, or the early return  *)
(* of run_test (riscv_tests_runner.py: a fresh RV32I per test).            *)
THEOREM VerdictInvariant == RSpec => []VerdictInv
<1>1. RInit => VerdictInv
  BY VerdictInit
<1>2. RunnerInv /\ VerdictInv /\ [RNext]_rvars => VerdictInv'
  BY VerdictKeeps
<1>3. QED
  BY <1>1, <1>2, RunnerInvariant, PTL DEF RSpec

(* Two files with the same contents get the same verdict, wherever they    *)
(* stand in the directory and whatever ran before them: the emulator is    *)
(* deterministic and nothing of a test is left for the next one.           *)
THEOREM VerdictIsOfTheFile == RSpec => []SameFileSameVerdict
<1>1. VerdictInv => SameFileSameVerdict
  <2>1. SUFFICES ASSUME VerdictInv, phase = "testing", NEW m \in Done \ KNOWN_SKIPS,
                        NEW n \in Done \ KNOWN_SKIPS, files[m] = files[n]
                 PROVE  Failed(m) <=> Failed(n)
    BY DEF SameFileSameVerdict
  <2>2. Judged(m) /\ Judged(n)
    BY <2>1 DEF VerdictInv
  <2>3. CASE Rejected(files[n])
    BY <2>1, <2>2, <2>3, Zenon DEF Judged
  <2>4. CASE ~Rejected(files[n])
    <3>1. PICK i \in Nat : \E t : /\ IsRun(files[m], i, t) /\ ~RunningIn(t[i])
                                  /\ Failed(m) <=> ResultIn(t[i]) # "tohost-pass"
      BY <2>1, <2>2, <2>4, Zenon DEF Judged
    <3>2. PICK t : /\ IsRun(files[n], i, t) /\ ~RunningIn(t[i])
                   /\ Failed(m) <=> ResultIn(t[i]) # "tohost-pass"
      BY <2>1, <3>1, Zenon
    <3>3. PICK j \in Nat : \E u : /\ IsRun(files[n], j, u) /\ ~RunningIn(u[j])
                                  /\ Failed(n) <=> ResultIn(u[j]) # "tohost-pass"
      BY <2>1, <2>2, <2>4, Zenon DEF Judged
    <3>4. PICK u : /\ IsRun(files[n], j, u) /\ ~RunningIn(u[j])
                   /\ Failed(n) <=> ResultIn(u[j]) # "tohost-pass"
      BY <3>3, Zenon
    <3>5. t[i] = u[j]
      BY <3>2, <3>4, OneEnd
    <3>6. QED
      BY <3>2, <3>4, <3>5, Zenon
  <2>5. QED
    BY <2>3, <2>4
<1>2. QED
  BY <1>1, VerdictInvariant, PTL
=============================================================================
