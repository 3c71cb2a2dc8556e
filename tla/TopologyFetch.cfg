SPECIFICATION Spec
CONSTANTS
  m1 = m1
  m2 = m2
  a = a
  b = b
  s1 = s1
  s2 = s2
  Missing = Missing
  NoUrl = NoUrl
  Absent = Absent
  Garbage = Garbage
  Pds = {m1, m2}
  ClientUrl <- MCClientUrl
  TiDBs <- MCTiDBs
  StatusPorts = {10080, 10081}
  Stores = {s1, s2}
  StoreInfo <- MCStoreInfo
  Fresh = 1
  MaxClock = 2
  MaxChanges = 2
INVARIANTS TypeOK FetchedWasUp SteadyIsFetched VerdictHasCause
PROPERTIES KeepsPromise
