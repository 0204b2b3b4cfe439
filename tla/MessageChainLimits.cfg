\* Custom phases that do not meet the assumptions of MessageChainProofs.
SPECIFICATION Spec
CONSTANTS
  Handler  <- CustomHandlers
  Threaded <- CustomThreaded
  Effects  <- CustomEffects
  Phases   <- CustomPhases
  None = None
PROPERTIES ImplementsDesign FailsOnlyByRaising
CHECK_DEADLOCK FALSE
