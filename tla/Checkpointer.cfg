SPECIFICATION Spec
CONSTANTS
  k1 = k1
  k2 = k2
  Keys <- MCKeys
  ExpireAfter = 2
  Faults <- WriteFaults
  MaxTime = 4
SYMMETRY MCSymmetry
INVARIANTS
  TypeOK
  Durable
  TmpIsNewer
