CONSTANTS
  c1 = c1
  c2 = c2
  Source <- TwoSources
  Domain <- LocalAndRemote
  MaxStanzas = 2
  MaxOutside = 1
  MaxBreaks = 1
SPECIFICATION Spec
INVARIANTS TypeOK StanzasAccounted
PROPERTIES LostOnlyWhileConnecting AllHandled
CHECK_DEADLOCK FALSE
