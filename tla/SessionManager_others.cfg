SPECIFICATION SessionSpec
CONSTANTS
  NoContainer = NoContainer
  NoPort = NoPort
  NoAddress = NoAddress
  SessionIds = {s1, s2}
  Containers = {s1, s2}
  Ports = {p1, p2}
  PoolSize = 3
  Reused = {}
PROPERTIES OthersSurviveClose
\* Every session id may have been drawn, and every client gone.
CHECK_DEADLOCK FALSE
