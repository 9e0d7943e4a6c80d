CONSTANTS
  Outputs <- Failed
  MaxExecTime = 2
  BufferSize = 2
  LastTick = 3
SPECIFICATION Spec
PROPERTIES
  TimeIsLimited
