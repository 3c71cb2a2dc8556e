SPECIFICATION FairSpec
CONSTANTS
  ChunkSize = 2
  MaxChunks = 2
  MaxCapacity = 1
  MaxVersion = 2
  MaxSize = 6
  MaxCalls = 3
  MaxFaults = 2
INVARIANTS
  TypeOK
  NoSessionLeft
PROPERTIES
  ImplementsAtomicUpload
  NoRedundantUpload
  UploadReturns
CHECK_DEADLOCK FALSE
