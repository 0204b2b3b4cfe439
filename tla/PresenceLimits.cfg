\* Three resources of one user and one of another.
CONSTANTS
  alice = alice
  bob = bob
  a1 = a1
  a2 = a2
  a3 = a3
  b1 = b1
  Client <- Four
  User <- Both
  UserOf <- Owner
  Follows <- Mutual
  MaxPresence = 2
  MaxSessions = 3
SPECIFICATION Safety
INVARIANTS CleanedUp EachHandlerHasItem RoutedAsAddressed ActiveIsAvailable
CHECK_DEADLOCK FALSE
