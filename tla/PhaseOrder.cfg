\* The dictionary of phases in any order.
SPECIFICATION LookupSpec
CONSTANTS
  Handler  <- StockHandlers
  Threaded <- StockThreaded
  Effects  <- StockEffects
  Phases   <- StockPhaseSet
  Before = {}
  None = None
INVARIANT MostSpecific
CHECK_DEADLOCK FALSE
