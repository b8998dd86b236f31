SPECIFICATION LiveSpec
CONSTANTS
  Calls = {c1}
  Images = {i1, i2}
  DefaultImage = i0
  NoImage = NoImage
  Sessions = {s1}
  Requests = {q1, q2, q3}
  NoSession = NoSession
  Timeout = 2
PROPERTIES SuccessReported
CHECK_DEADLOCK FALSE
