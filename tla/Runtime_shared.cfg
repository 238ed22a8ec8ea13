\* Two CPU workers and one GPU block share q[0] .. q[3] and steal.
SPECIFICATION FairSpec
CONSTANTS
  Graphs <- StepAndSingle
  GraphOf <- AllGraphs
  Tasks <- MCTasks
  NoTask = NoTask
  NoGraph = NoGraph
  NumWorkers = 2
  NumBlocks = 1
  GpuBatch = 2
  Capacity = 8
  PerBlock = FALSE
  Chunk = 1
  NoStealSettings = {FALSE, TRUE}
  Teardown = FALSE
  MaxRuns = 2
  MaxStarts = 2
INVARIANTS TypeOK RunsOnce InputsReady Quiescent Complete EnginesRespected
PROPERTY RunReturns
PROPERTY ImplementsGraphExecution
CHECK_DEADLOCK FALSE
