SPECIFICATION Spec
CONSTANTS
  VMs = {v1, v2, v3, v4}
  Containers = {c1, c2}
  NoVM = NoVM
  NoContainer = NoContainer
  NoAddress = NoAddress
  PoolSize = 3
  MinWarm = 2
  MaxWarm = 1
  MaxTotal = 1
  MaxFailures = 1
  WarmBudget = 1
  Destroyable = {}
SYMMETRY Symmetry
INVARIANTS
  AddressAccounting
  NoSharedAddress
  QueueSound
  LeaseExclusive
  PendingAccounting
  TotalBound
PROPERTIES
  ImplementsLease
  ImplementsSlots
