SPECIFICATION PipelineSpec
CONSTANTS
  k1 = k1
  Keys <- OneKey
  ExpireAfter = 1
  Chunks = 2
  CoarseMtime = FALSE
  MaxTime = 1
  MaxWrites = 3
  MaxFaults = 2
  Capacity = 1
  MaxShutdowns = 1
INVARIANTS
  TypeOK
  DeliveredCovered
PROPERTIES
  PipelineConverges
