SPECIFICATION CleanupLiveSpec
CONSTANTS
  NoContainer = NoContainer
  NoPort = NoPort
  NoAddress = NoAddress
  Ports = {p1, p2}
  PoolSize = 3
  Reused = {c1}
  MaxRestarts = 1
  Containers = {c1}
PROPERTIES OrphansCollected DeathNoticed
INVARIANTS ServedProcessesAccounted
