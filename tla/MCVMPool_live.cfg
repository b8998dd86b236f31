SPECIFICATION LiveSpec
CONSTANTS
  VMs = {v1, v2}
  Containers = {c1}
  NoVM = NoVM
  NoContainer = NoContainer
  NoAddress = NoAddress
  PoolSize = 3
  MinWarm = 2
  MaxWarm = 1
  MaxTotal = 2
  MaxFailures = 2
  WarmBudget = 1
  Destroyable = {v1}
PROPERTIES
  CallsAnswered
  BootsSettle
  RunReturnsVM
  DeadWarmEvicted
  DestroyedReclaimed
