SPECIFICATION Spec
CONSTANTS
  Hash = {h1}
  Caller = {a, b}
  Op = {"resolve", "restore"}
  MaxEpoch = 2
  MaxUpd = 1
  MaxWait = 1
CHECK_DEADLOCK FALSE
PROPERTIES StatusIsNotInherited
