SPECIFICATION FairSpec
CONSTANTS
  ChunkSize = 2
  MaxVersion = 3
  MaxSize = 5
  MaxFaults = 3
INVARIANTS
  TypeOK
  RangesMeet
  NoSessionLeft
PROPERTIES
  ImplementsAtomicUpload
  UploadReturns
