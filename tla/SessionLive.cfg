CONSTANTS
  c1 = c1
  c2 = c2
  u1 = u1
  None = None
  Conn = {c1, c2}
  User = {u1}
  UserOf <- MCUserOf
  Kinds <- MCKindsFew
  Restarting = {c1}
  Failing = {c2}
  MaxStanzas <- MCMaxStanzasFew
  MaxEnds = 1
SPECIFICATION Spec
CHECK_DEADLOCK FALSE
INVARIANTS
  TypeOK
PROPERTIES
  EndsHandled
