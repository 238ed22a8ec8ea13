SPECIFICATION FairSpec
CONSTANTS
  Tokens = {0, 1}
  Answer <- MCAnswer
  Garbage = Garbage
  Prompts <- MCPrompts
  NGen = 4
  SpecMax = 2
  KvSizes = {5, 9}
  Modes = {"plain", "spec"}
  ApproxSettings = {FALSE, TRUE}
  GateSettings = {FALSE, TRUE}
  MaxReps = 2
INVARIANTS
  TypeOK
  EmittedAsFedUngated
PROPERTIES
  ImplementsGreedyDecode
  GenerationEnds
CHECK_DEADLOCK FALSE
