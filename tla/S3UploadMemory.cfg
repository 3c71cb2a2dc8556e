SPECIFICATION Spec
CONSTANTS
  ChunkSize = 2
  MaxChunks = 2
  MaxCapacity = 1
  MaxVersion = 2
  MaxSize = 6
  MaxCalls = 3
  MaxFaults = 0
INVARIANT
  KeepsLittle
CHECK_DEADLOCK FALSE
