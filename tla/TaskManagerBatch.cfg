SPECIFICATION OneLifeSpec
CONSTANTS
  Hash = {h1, h2}
  Source = {aria2}
  Resumed = {aria2}
  MaxDraw = 0
  MaxId = 2
  Client = {c1}
  Batch = {b1}
  QueueCap = 1
  MaxItems = 2
CHECK_DEADLOCK FALSE
PROPERTIES OnePreparer MarkedIsDispatched RunningEnds RunsEnd
