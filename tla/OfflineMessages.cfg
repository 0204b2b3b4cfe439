CONSTANTS
  c1 = c1
  c2 = c2
  Resource <- TwoClients
  Bare = Bare
  MaxMessages = 3
  MaxSessions = 3
  Storage = {TRUE, FALSE}
SPECIFICATION OfflineSpec
INVARIANTS NoDuplicates NotYetSent
PROPERTIES StoredInOrder SentToClients
CHECK_DEADLOCK FALSE
