SPECIFICATION EditSpec
CONSTANTS
  Hash = {h1}
  Source = {qbittorrent}
  Resumed = {qbittorrent}
  MaxDraw = 1
  MaxId = 2
  Client = {c1}
  Batch = {b1}
  Editor = {e1}
  CategorySource = {qbittorrent}
  QueueCap = 1
  MaxItems = 1
CHECK_DEADLOCK FALSE
SYMMETRY EditSymmetry
INVARIANT OneActiveDespiteEdits
PROPERTIES CanceledDespiteEdits LostByStaleWritesOnly
