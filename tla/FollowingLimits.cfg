CONSTANTS
  alice = alice
  bob = bob
  a1 = a1
  a2 = a2
  b1 = b1
  Client <- Pair
  User <- Both
  UserOf <- PairOwner
  Follows <- BobFollows
  Asks <- AliceAsks
  MaxPresence = 2
  MaxSessions = 2
  MaxChanges = 1
SPECIFICATION FollowingSafety
INVARIANTS GoneAnyhow PartedAnyhow
CHECK_DEADLOCK FALSE
