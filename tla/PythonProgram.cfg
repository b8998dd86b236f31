SPECIFICATION LiveSpec
CONSTANTS
  Calls = {c1}
  Images = {i1, i2}
  DefaultImage = i0
  NoImage = NoImage
  Sessions = {s1}
  Requests = {q1, q2, q3}
  NoSession = NoSession
  Timeout = 2
INVARIANTS RunsOnce Contained AllOrNothing SuccessTrue StreamTold
PROPERTIES CallsEnd AbandonedCollected
CHECK_DEADLOCK FALSE
