SPECIFICATION Spec
CONSTANTS
  Tokens = {0, 1}
  Answer <- MCAnswer
  Garbage = Garbage
  Prompts <- MCShortPrompts
  NGen = 5
  SpecMax = 3
  KvSizes = {12}
  Modes = {"spec"}
  ApproxSettings = {TRUE}
  GateSettings = {TRUE}
  MaxReps = 1
INVARIANT EmittedAsFed
CHECK_DEADLOCK FALSE
