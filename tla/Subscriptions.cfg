CONSTANTS
  User <- MCUser
  Peer <- MCPeer
  Id <- MCId
  Client = {"c1", "c2"}
  UserOf <- OneEach
  MaxRequests = 5
  MaxRacing = 3
  MaxRestarts = 1
SPECIFICATION Spec
INVARIANTS TypeOK GrantedOnly Agreement ViewCurrent
PROPERTY Settles
