CONSTANTS
  c1 = c1
  c2 = c2
  Source <- TwoSources
  Domain <- LocalAndRemote
  MaxStanzas = 2
  MaxOutside = 0
  MaxBreaks = 0
SPECIFICATION Safety
INVARIANTS ReuseFindsConnection LocalOnlyForOurselves
CHECK_DEADLOCK FALSE
