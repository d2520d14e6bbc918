---------------------------- MODULE MCSingleCycle ---------------------------
(***************************************************************************)
(* The single-cycle core on the images of MCImages.                        *)
(***************************************************************************)
EXTENDS SingleCycle, MCImages

MixedPrograms == ProgramsOver(MixedAlphabet, 3)
HaltPrograms  == ProgramsOver(HaltAlphabet, 2)
=============================================================================
