SPECIFICATION MCFairSpec
CONSTANTS
  Hash = {h1}
  Source = {restore}
  MaxDraw = 1
  MaxId = 2
  Content = {c1, c2}
  MaxCopy = 2
  MaxArtifact = 2
  MaxRow = 4
  Request = {p1, p2}
  Restore = restore
  Resumed = {}
  MaxEvent = 1
  First = p1
  FirstContent = c1
CHECK_DEADLOCK FALSE
INVARIANTS OneActivePerTorrent RestoreRowsAreRun WaitersHaveFlight
PROPERTIES ImplementsCatalog RequestsAreAnswered
