SPECIFICATION Spec
CONSTANTS
  k1 = k1
  k2 = k2
  Keys <- OneKey
  ExpireAfter = 1
  Chunks = 2
  CoarseMtime = FALSE
  MaxTime = 3
  MaxWrites = 1
  MaxFaults = 0
INVARIANT
  ExpiredNeverSuppresses
