SPECIFICATION Spec
CONSTANTS
  Hash = {h1}
  Source = {aria2}
  Resumed = {aria2}
  MaxDraw = 0
  MaxId = 1
  Client = {c1, c2}
  Batch = {b1, b2}
  QueueCap = 1
  MaxItems = 1
CHECK_DEADLOCK FALSE
CONSTRAINT ThreeActors
SYMMETRY Symmetry
INVARIANTS TypeOK QueuedMapExact NoOrphanRunning
PROPERTIES CanceledIsFinal ImplementsTable StrandedOnlyThen NothingStartsAfterStop
