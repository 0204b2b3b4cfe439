CONSTANTS
  c1 = c1
  c2 = c2
  u1 = u1
  None = None
  Conn = {c1, c2}
  User = {u1}
  UserOf <- MCUserOf
  Kinds <- MCKinds
  Restarting = {c1}
  Failing = {c1}
  MaxStanzas <- MCMaxStanzas
  MaxEnds = 1
SPECIFICATION Safety
CHECK_DEADLOCK FALSE
INVARIANTS
  TypeOK
  ParsedInOrder
  Registered
  FeaturesFit
  EndsCleanedUp
