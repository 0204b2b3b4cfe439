CONSTANTS
  alice = alice
  bob = bob
  a1 = a1
  a2 = a2
  b1 = b1
  Client <- Pair
  User <- Both
  UserOf <- PairOwner
  Follows <- BobFollows
  Asks <- AliceAsks
  MaxPresence = 2
  MaxSessions = 2
  MaxChanges = 2
SPECIFICATION FollowingSafety
INVARIANTS FollowedShown OverIsHidden
CHECK_DEADLOCK FALSE
