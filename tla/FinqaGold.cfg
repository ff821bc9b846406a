CONSTANTS
  Samples <- AllSamples
  Drafts <- Draft
  NotPlain = {"freight"}
  MaxMisplaced = 6
  NoProgram = NoProgram
CHECK_DEADLOCK FALSE
SPECIFICATION Spec
INVARIANTS GoldProgramIsRight
