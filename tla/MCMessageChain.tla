--------------------------- MODULE MCMessageChain ---------------------------
(* TLC instance of MessageChain: two small custom phases built from the     *)
(* interface that design.md and handlers/base.py give to handlers.  The     *)
(* stock configuration is in MCPhaseLookup.                                 *)
EXTENDS MessageChain, StockPhases

(* A phase in the manner of test_events.py (testSimpleWithBothInProcess):   *)
(* its error handler returns nothing, and the next handler is a threaded one*)
(* that returns nothing either.                                             *)
QuietHandlers == {"raiser", "quiet", "worker"}
QuietPhase == Phase(<<"raiser", "worker">>, <<"quiet">>)

(* A phase whose first handler schedules another with setNextHandler, while *)
(* both handlers of the phase have an error handler.                        *)
PairedHandlers == {"scheduler", "extra", "second", "scheduler-error", "second-error"}
PairedPhase == Phase(<<"scheduler", "second">>, <<"scheduler-error", "second-error">>)

CustomHandlers == QuietHandlers \cup PairedHandlers
CustomThreaded == {"worker"}
CustomPhases == {QuietPhase, PairedPhase}
CustomEffects == [h \in CustomHandlers |->
  CASE h = "raiser"            -> {Raises}
    [] h \in {"quiet", "worker"} -> {Nothing}
    [] h = "scheduler"         -> {Does(<<"extra">>, "none")}
    [] OTHER                   -> {Nothing, Raises}]
=============================================================================
