SPECIFICATION RotationSpec
CONSTANTS
  Proc = {p1, p2}
  Caller = {t1}
  User = {u1}
  Slots = 1
  MaxPair = 3
CHECK_DEADLOCK FALSE
SYMMETRY Symmetry
INVARIANTS RefreshesUnderLease OneRefresher FreshPairs
PROPERTIES ImplementsLease RowLostOnlyThen
