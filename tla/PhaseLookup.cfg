\* Every event and element in its stock phase, every way its handlers can go.
SPECIFICATION LookupSpec
CONSTANTS
  Handler  <- StockHandlers
  Threaded <- StockThreaded
  Effects  <- StockEffects
  Phases   <- StockPhaseSet
  Before   <- StockBefore
  None = None
INVARIANTS ExceptionIffFailing MostSpecific
PROPERTIES ImplementsDesign Finishes
CHECK_DEADLOCK FALSE
