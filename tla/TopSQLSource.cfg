SPECIFICATION FairSpec
CONSTANTS
  None = None
  WordBits = 4
  FloatBits = 3
  LastTime = 3
  InstanceOrder <- MCInstanceOrder
  encode_upper <- MCEncodeUpper
  Now = 2
  Instance = "db"
  Responses <- MCResponses
  InitDelays = {0, 1, 5}
  MaxDelay = 4
  MaxFailures = 2
  MaxProxies = 3
  MaxLeaks = 1
  Templates <- MCTemplates
  NotUris <- MCNotUris
INVARIANTS TypeOK LinesFaithful DelayFollowsFailures
PROPERTIES ImplementsSourceLife Resubscribes
