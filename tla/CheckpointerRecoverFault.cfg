SPECIFICATION Spec
CONSTANTS
  k1 = k1
  k2 = k2
  Keys <- MCKeys
  ExpireAfter = 2
  Faults <- RecoverFaults
  MaxTime = 1
INVARIANT
  AlwaysRecoverable
