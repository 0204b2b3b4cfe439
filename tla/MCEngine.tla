------------------------------ MODULE MCEngine ------------------------------
(* TLC instances of Engine, on stock phases chosen for what they exercise.  *)
EXTENDS Engine, StockPhases, TLC

CONSTANTS c1, c2, w1, w2, pool1, pool2

OneConn == {c1}
TwoConns == {c1, c2}
OneWorker == {w1}
TwoWorkers == {w1, w2}

(* One server: its pool serves every connection.                            *)
OnePool == {pool1}
SharedPool == [x \in Conn \cup Worker |-> pool1]

(* The two servers: c1 is a client, c2 the local server link.               *)
TwoPools == {pool1, pool2}
OwnPool == [x \in Conn \cup Worker |-> IF x \in {c1, w1} THEN pool1 ELSE pool2]

Threads == Phase(<<"iq-roster-get", "write">>, <<>>)
InProcess == Phase(<<"iq-session", "write">>, <<>>)
Recovers == Phase(<<"sasl-auth", "write">>, <<"sasl-error">>)
Schedules == Phase(<<"c2s-subscription">>, <<>>)
Ends == Phase(<<"stream-end", "cleanup-conn">>, <<>>)

(* A threaded phase and an in-process one.                                  *)
MixedPhases == {Threads, InProcess}
(* A phase with a thread and an error handler, and an in-process one.       *)
SerialPhases == {Recovers, InProcess}
(* Everything a chain can do: error handlers, scheduling from a thread,     *)
(* threads one after the other, stopping.                                   *)
RichPhases == {Recovers, Schedules, Ends}

(* Symmetric in the connections and in the workers of one pool.             *)
SharedSymmetry == Permutations(TwoConns) \cup Permutations(TwoWorkers)
=============================================================================
