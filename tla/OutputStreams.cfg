SPECIFICATION LiveSpec
CONSTANTS
  Clients = {c1}
  BufferSize = 2
  MaxChunks = 3
  MaxStarts = 2
  MaxRestarts = 1
INVARIANTS StreamWhole
PROPERTIES OutputDelivered
CHECK_DEADLOCK FALSE
