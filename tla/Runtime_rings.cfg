\* One CPU worker, two GPU blocks with private rings of two cells each, and a
\* stop() that may come from another thread in the middle of a run.
SPECIFICATION FairSpec
CONSTANTS
  Graphs <- RootsAndFan
  GraphOf <- AllGraphs
  Tasks <- MCTasks
  NoTask = NoTask
  NoGraph = NoGraph
  NumWorkers = 1
  NumBlocks = 2
  GpuBatch = 2
  Capacity = 2
  PerBlock = TRUE
  Chunk = 3
  NoStealSettings = {FALSE}
  Teardown = TRUE
  MaxRuns = 1
  MaxStarts = 1
INVARIANTS RunsOnce InputsReady
PROPERTY StopReturns
PROPERTY RunReturnsUnlessStopped
CHECK_DEADLOCK FALSE
