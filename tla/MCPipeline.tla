----------------------------- MODULE MCPipeline -----------------------------
(***************************************************************************)
(* The five-stage pipeline on the images of MCImages.                      *)
(***************************************************************************)
EXTENDS PipelineTrace, MCImages

HazardPrograms == ProgramsOver(HazardAlphabet, 4)
BranchPrograms == ProgramsOver(BranchAlphabet, 4)
HaltPrograms   == ProgramsOver(HaltAlphabet, 4)
MixedPrograms  == ProgramsOver(MixedAlphabet, 3)

PipelinePrograms ==
  HazardPrograms \cup BranchPrograms \cup HaltPrograms \cup MixedPrograms
=============================================================================
