\* CPU only, FASTLLM_NO_STEAL=1: GPU-affine tasks stay in q[0] for ever.
SPECIFICATION FairSpec
CONSTANTS
  Graphs <- StepAndSingle
  GraphOf <- AllGraphs
  Tasks <- MCTasks
  NoTask = NoTask
  NoGraph = NoGraph
  NumWorkers = 1
  NumBlocks = 0
  GpuBatch = 2
  Capacity = 8
  PerBlock = FALSE
  Chunk = 1
  NoStealSettings = {TRUE}
  Teardown = FALSE
  MaxRuns = 1
  MaxStarts = 1
PROPERTY RunReturns
CHECK_DEADLOCK FALSE
