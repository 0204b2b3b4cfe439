---------------------------- MODULE MCPhaseLookup ---------------------------
(* TLC instances of PhaseLookup: everything that is dispatched, in the stock*)
(* configuration, and the chain of its message to the end.                  *)
EXTENDS PhaseLookup

(* "c2s-presence-unavailable" comes before "subscription" in the dictionary *)
(* of a 64-bit Python 2, whose string hashes are not randomized.            *)
StockBefore == {<<"c2s-presence-unavailable", "subscription">>}

(* The configuration pjabberd has meets what the theorems of                *)
(* MessageChainProofs assume.                                               *)
ASSUME StockConfiguration == ErrorHandlersAnswer /\ ListsStayPaired
=============================================================================
