CONSTANTS
  c1 = c1
  c2 = c2
  Resource <- TwoClients
  Bare = Bare
  MaxMessages = 3
  MaxSessions = 3
  Storage = {TRUE}
SPECIFICATION OfflineSafety
INVARIANT OfflineTypeOK
PROPERTY SavedUntilFetched
CHECK_DEADLOCK FALSE
