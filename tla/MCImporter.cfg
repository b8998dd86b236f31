SPECIFICATION LiveSpec
CONSTANTS
  i1 = i1
  i2 = i2
  i3 = i3
  r1 = r1
  r2 = r2
  r3 = r3
  h1 = h1
  h2 = h2
  h3 = h3
  NoImport = NoImport
  Imports = {i1, i2, i3}
  Refs = {r1, r2, r3}
  Layers = {h1, h2, h3}
  Wanted <- Scenarios
  MaxConcurrent = 2
INVARIANTS SlotsAccounted ImagesWhole
PROPERTIES ImportsFinish CrashedMarkedFailed
\* Every import may be over.
CHECK_DEADLOCK FALSE
