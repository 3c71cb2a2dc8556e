SPECIFICATION Spec
CONSTANTS
  k1 = k1
  k2 = k2
  Keys <- MCKeys
  ExpireAfter = 2
  Faults <- AllFaults
  MaxTime = 3
SYMMETRY MCSymmetry
INVARIANTS
  NoInventedUpload
PROPERTIES
  StableStaysValid
  CallLooksAtomic
