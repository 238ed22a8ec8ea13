SPECIFICATION Spec
CONSTANTS
  Tokens = {0, 1}
  Answer <- MCAnswer
  Garbage = Garbage
  Prompts <- MCShortPrompts
  NGen = 4
  SpecMax = 3
  KvSizes = {6}
  Modes = {"plain", "spec"}
  ApproxSettings = {FALSE}
  GateSettings = {FALSE}
  MaxReps = 1
INVARIANT SpecFitsWherePlainDoes
CHECK_DEADLOCK FALSE
