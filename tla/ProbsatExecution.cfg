CONSTANTS
  Outputs <- AllOutputs
  MaxExecTime = 2
  BufferSize = 2
  LastTick = 3
SPECIFICATION Spec
INVARIANTS
  FoundWhenRead
PROPERTIES
  TimeoutIsLast
  WorkerReturns
