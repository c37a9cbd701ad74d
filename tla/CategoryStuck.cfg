SPECIFICATION EditFairSpec
CONSTANTS
  Hash = {h1}
  Source = {qbittorrent}
  Resumed = {qbittorrent}
  MaxDraw = 0
  MaxId = 1
  Client = {c1}
  Batch = {b1}
  Editor = {e1}
  CategorySource = {qbittorrent}
  QueueCap = 1
  MaxItems = 1
CHECK_DEADLOCK FALSE
PROPERTIES RunningIsBounded
