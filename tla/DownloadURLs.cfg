SPECIFICATION DownFairSpec
CONSTANTS
  Key = {k1, k2}
  Request = {r1, r2, r3}
  Malformed = {2}
  NoOne = NoOne
CHECK_DEADLOCK FALSE
INVARIANTS OneCallPerKey JoinedFlightsAreLed LinksWereRefused RetryUsesNewer
PROPERTIES ImplementsCache DownloadsEnd
