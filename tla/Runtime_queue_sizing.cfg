\* A graph of six tasks on queues of two cells.
SPECIFICATION FairSpec
CONSTANTS
  Graphs <- StepAndSingle
  GraphOf <- AllGraphs
  Tasks <- MCTasks
  NoTask = NoTask
  NoGraph = NoGraph
  NumWorkers = 1
  NumBlocks = 0
  GpuBatch = 2
  Capacity = 2
  PerBlock = FALSE
  Chunk = 1
  NoStealSettings = {FALSE}
  Teardown = FALSE
  MaxRuns = 1
  MaxStarts = 1
INVARIANT PushNeverBlocks
CHECK_DEADLOCK FALSE
