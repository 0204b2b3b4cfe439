CONSTANTS
  User <- StateUser
  Peer <- StatePeer
  Id <- StateId
  Client = {"c1", "c2"}
  UserOf <- StateEach
  MaxRequests = 5
  MaxRacing = 2
  MaxRestarts = 1
SPECIFICATION Safety
INVARIANTS GrantedOnly Resynchronized
PROPERTY OwnRosterOnly
CHECK_DEADLOCK FALSE
