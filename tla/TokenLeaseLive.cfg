SPECIFICATION FairSpec
CONSTANTS
  Proc = {p1}
  Caller = {t1, t2}
  User = {u1}
  Slots = 1
  MaxPair = 2
CHECK_DEADLOCK FALSE
INVARIANTS SlotsCounted
PROPERTIES CallsEnd
