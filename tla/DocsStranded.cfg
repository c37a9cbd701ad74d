SPECIFICATION DocFairSpec
CONSTANTS
  Hash = {h1}
  Source = {aria2}
  Resumed = {aria2}
  MaxDraw = 1
  MaxId = 2
  Client = {c1}
  Batch = {b1}
  QueueCap = 1
  MaxItems = 2
CHECK_DEADLOCK FALSE
PROPERTIES QueuedIsExecuted
