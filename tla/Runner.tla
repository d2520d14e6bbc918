------------------------------- MODULE Runner -------------------------------
(***************************************************************************)
(* The conformance runner, tools/refmodel/riscv_tests_runner.py: one pass  *)
(* over a directory of ELF files, each run on an emulator of its own       *)
(* (module Emulator, whose steps are interleaved here one by one).         *)
(*                                                                         *)
(* A file name is a number, in the order of sorted().  What pyelftools     *)
(* finds in a file is a record: the loadable segments, in the order of the *)
(* program headers, and the address of the symbol tohost.                  *)
(***************************************************************************)
EXTENDS Emulator, Sequences, FiniteSetsExt

CONSTANTS
  Names,          \* file names in sorted order
  Ignored,        \* the names that end in .dump, start with a dot or are directories
  KNOWN_SKIPS,    \* the names that are not run
  Elves,          \* contents: [segments: sequence of [paddr, data], tohost]
  Filters,        \* what the command line may select: sets of names, or NoFilter
  NoFilter,       \* no arguments
  PAGE            \* 64 KiB

ASSUME PageAssumption == PAGE \in Nat \ {0}
ASSUME NamesAssumption ==
  /\ Names \subseteq Nat /\ IsFiniteSet(Names)
  /\ Ignored \cup KNOWN_SKIPS \subseteq Names

(* A physical address is a word of the ELF header, the data are bytes.     *)
ASSUME ElvesAssumption ==
  \A elf \in Elves :
    elf.segments \in Seq([paddr: RtlWord, data: Seq(0 .. (2^BYTE - 1))])

NoSymbol == -1    \* tohost is None
NoTest   == -1    \* no test is on the emulator
NoCode   == -1    \* main() has not returned

VARIABLES
  files,           \* TESTS_DIR: name -> contents
  filter,          \* argv[1:]
  todo,            \* what is left of all_tests
  running,         \* the test on the emulator
  passes, fails, skips,
  exit_code,
  phase            \* "listing", "testing", "returned", "crashed"

book == <<passes, fails, skips>>
runnerVars == <<files, filter, todo, running, book, exit_code, phase>>
rvars == <<emuVars, runnerVars>>

(* The files that are never opened all look alike.                         *)
RInit ==
  /\ \E present \in SUBSET Names :
       /\ files \in [present -> Elves]
       /\ \A n \in present \cap (Ignored \cup KNOWN_SKIPS) :
            files[n] = CHOOSE elf \in Elves : TRUE
  /\ filter \in Filters
  /\ todo = {} /\ running = NoTest
  /\ passes = 0 /\ fails = <<>> /\ skips = <<>>
  /\ exit_code = NoCode
  /\ phase = "listing"
  /\ PowerOn([x \in {} |-> 0], 0, 0, FALSE)    \* no emulator yet

(***************************************************************************)
(* main(): list, filter, and one test after the other.                     *)
(***************************************************************************)
Matching == {n \in DOMAIN files \ Ignored : filter = NoFilter \/ n \in filter}

List ==
  /\ phase = "listing"
  /\ IF Matching = {}
     THEN exit_code' = 2 /\ phase' = "returned" /\ UNCHANGED todo
     ELSE todo' = Matching /\ phase' = "testing" /\ UNCHANGED exit_code
  /\ UNCHANGED <<files, filter, running, book, emuVars>>

Idle == phase = "testing" /\ running = NoTest
NextTest == Min(todo)

Skip ==
  /\ Idle /\ todo # {}
  /\ NextTest \in KNOWN_SKIPS
  /\ skips' = Append(skips, NextTest)
  /\ todo' = todo \ {NextTest}
  /\ UNCHANGED <<files, filter, running, passes, fails, exit_code, phase, emuVars>>

(***************************************************************************)
(* run_test().                                                             *)
(***************************************************************************)
Starts(elf) == Idle /\ todo # {} /\ NextTest \notin KNOWN_SKIPS /\ files[NextTest] = elf

(* The early returns.                                                      *)
RejectElf ==
  \E elf \in Elves :
    /\ Starts(elf)
    /\ elf.tohost = NoSymbol \/ elf.segments = <<>>
    /\ fails' = Append(fails, <<NextTest, IF elf.tohost = NoSymbol
                                          THEN "no tohost" ELSE "no segments">>)
    /\ todo' = todo \ {NextTest}
    /\ UNCHANGED <<files, filter, running, passes, skips, exit_code, phase, emuVars>>

Base(elf) == Min({elf.segments[i].paddr : i \in DOMAIN elf.segments})
EndOf(segment) == segment.paddr + Len(segment.data)
Top(elf) == Max({EndOf(elf.segments[i]) : i \in DOMAIN elf.segments})

(* Mutant of mem_size: the room is measured from the first segment's end.  *)
MemSizeFirst(elf) ==
  ((EndOf(elf.segments[1]) - Base(elf) + PAGE - 1) \div PAGE) * PAGE

mem_size(elf) == ((Top(elf) - Base(elf) + PAGE - 1) \div PAGE) * PAGE + PAGE

(* load_program raises ValueError for a segment outside the memory.        *)
Fits(elf) ==
  \A i \in DOMAIN elf.segments :
    /\ elf.segments[i].paddr >= Base(elf)
    /\ EndOf(elf.segments[i]) <= Base(elf) + mem_size(elf)

(* The zeroed memory with the segments copied in, the last one on top.     *)
Loaded(elf) ==
  [x \in Base(elf) .. (Base(elf) + mem_size(elf) - 1) |->
     LET holding == {i \in DOMAIN elf.segments :
                       x \in elf.segments[i].paddr .. (EndOf(elf.segments[i]) - 1)}
         segment == elf.segments[Max(holding)]
     IN  IF holding = {} THEN 0 ELSE segment.data[x - segment.paddr + 1]]

Start ==
  \E elf \in Elves :
    /\ Starts(elf)
    /\ elf.tohost # NoSymbol /\ elf.segments # <<>>
    /\ IF Fits(elf)
       THEN /\ FreshCpu(Loaded(elf), Base(elf), elf.tohost, TRUE)
            /\ running' = NextTest
            /\ todo' = todo \ {NextTest}
            /\ UNCHANGED phase
       ELSE phase' = "crashed" /\ UNCHANGED <<emuVars, running, todo>>
    /\ UNCHANGED <<files, filter, book, exit_code>>

EmulatorStep ==
  /\ phase = "testing" /\ running # NoTest
  /\ Step
  /\ UNCHANGED runnerVars

(* run() has returned or raised: only a 1 in tohost is a pass.             *)
ok == RunResult = "tohost-pass"

(* main() books the verdict, and the emulator is dropped.                  *)
Finish ==
  /\ phase = "testing" /\ running # NoTest
  /\ ~Running
  /\ IF ok
     THEN passes' = passes + 1 /\ UNCHANGED fails
     ELSE fails' = Append(fails, <<running, RunResult>>) /\ UNCHANGED passes
  /\ running' = NoTest
  /\ UNCHANGED <<files, filter, todo, skips, exit_code, phase, emuVars>>

(* Mutant of Report: one pass is enough.                                   *)
ReportAnyPass ==
  /\ Idle /\ todo = {}
  /\ exit_code' = IF fails = <<>> \/ passes > 0 THEN 0 ELSE 1
  /\ phase' = "returned"
  /\ UNCHANGED <<files, filter, todo, running, book, emuVars>>

Report ==
  /\ Idle /\ todo = {}
  /\ exit_code' = IF fails = <<>> THEN 0 ELSE 1
  /\ phase' = "returned"
  /\ UNCHANGED <<files, filter, todo, running, book, emuVars>>

RNext == List \/ Skip \/ RejectElf \/ Start \/ EmulatorStep \/ Finish \/ Report

RSpec == RInit /\ [][RNext]_rvars /\ WF_rvars(RNext)

-----------------------------------------------------------------------------
Failed(n) == \E i \in DOMAIN fails : fails[i][1] = n
Done == Matching \ (todo \cup {running})

(* A verdict is about the file alone: two files with the same contents get *)
(* the same one, wherever they stand in the run and whatever ran before    *)
(* them (every test has an emulator of its own).                           *)
SameFileSameVerdict ==
  phase = "testing" =>
    \A m, n \in Done \ KNOWN_SKIPS :
      files[m] = files[n] => (Failed(m) <=> Failed(n))

(* No ELF file, whatever the order, gaps and overlaps of its segments,     *)
(* makes the loader raise: base and mem_size cover every segment.          *)
EveryElfLoads == phase # "crashed"

(* Exit code 0 is earned: something was selected, and each selected test   *)
(* is on exactly one of the three counts with none of them a failure.      *)
GreenIsEarned ==
  exit_code = 0 =>
    /\ Matching # {}
    /\ passes = Cardinality(Matching \ KNOWN_SKIPS)
    /\ {skips[i] : i \in DOMAIN skips} = Matching \cap KNOWN_SKIPS

(* The runner comes to an end: a test that loops is cut off by the step    *)
(* cap ("without letting them stall CI forever") and main() returns.       *)
RunnerReturns == <>(exit_code # NoCode)
=============================================================================
