SPECIFICATION FairSpec
CONSTANTS
  Missing = Missing
  Components <- MCComponents
  MaxProxies = 2
  MaxChanges = 4
  MaxPanics = 1
INVARIANTS
  TypeOK
  OneSourcePerComponent
  NoOrphan
  OneSourcePerAddress
  ExitClean
PROPERTIES
  OnlyLeaversAreStopped
  SlotLives
  ShutdownCompletes
  FollowsTopology
