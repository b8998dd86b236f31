SPECIFICATION CleanupSpec
CONSTANTS
  NoContainer = NoContainer
  NoPort = NoPort
  NoAddress = NoAddress
  Containers = {c1, c2}
  Ports = {p1, p2}
  PoolSize = 3
  Reused = {}
  MaxRestarts = 1
SYMMETRY Symmetry
INVARIANTS AddressAccounting ServedProcessesAccounted DeathReported RunningIsConnected
