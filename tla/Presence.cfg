CONSTANTS
  alice = alice
  bob = bob
  a1 = a1
  a2 = a2
  a3 = a3
  b1 = b1
  Client <- Three
  User <- Both
  UserOf <- OwnerOfThree
  Follows <- Mutual
  MaxPresence = 2
  MaxSessions = 3
SPECIFICATION Spec
INVARIANTS NoneOutdated GoneIsOffline FollowersInformed
PROPERTY EndsCleanedUp
CHECK_DEADLOCK FALSE
