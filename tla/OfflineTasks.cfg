SPECIFICATION MixedFairSpec
CONSTANTS
  Hash = {h1}
  Caller = {a, b}
  Op = {"resolve", "restore"}
  Restorer = {b}
  MaxEpoch = 1
  MaxUpd = 1
  MaxWait = 2
CHECK_DEADLOCK FALSE
INVARIANTS OfflineTypeOK NeverOversleeps ListenersAreRegistered
PROPERTIES WaitersAreAnswered
