SPECIFICATION Spec
CONSTANTS
  k1 = k1
  k2 = k2
  Keys <- TwoKeys
  ExpireAfter = 1
  Chunks = 2
  CoarseMtime = TRUE
  MaxTime = 2
  MaxWrites = 3
  MaxFaults = 2
INVARIANTS
  QueueMatchesPending
  CheckpointSound
SYMMETRY MCSymmetry
