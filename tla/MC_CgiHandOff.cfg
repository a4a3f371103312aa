SPECIFICATION FairSpec
CONSTANTS
  Outputs <- SomeOutputs
  Buffer = 4
  MaxRuns = 2
INVARIANTS
  OneProgram
  OwnOutput
  LoopCauses
  StuckCauses
PROPERTIES
  Answered
CHECK_DEADLOCK FALSE
