-------------------------- MODULE SerialConnections --------------------------
(***************************************************************************)
(* What the message queues promise (docstring of queues.py): for any        *)
(* connection only one message is being processed at a time, the messages of*)
(* a connection are processed in the order they came in, and every message  *)
(* is processed.  Messages are numbered per connection, so three counters   *)
(* say it all.                                                              *)
(***************************************************************************)
EXTENDS Naturals

CONSTANT Conn

VARIABLES
  arrived,    \* arrived[c]: the messages dispatched so far for c
  started,    \* those taken into processing
  finished    \* those whose processing has ended

vars == <<arrived, started, finished>>

Init == arrived = [c \in Conn |-> 0] /\ started = arrived /\ finished = arrived

Idle(c) == started[c] = finished[c]

Increment(f, c) == [f EXCEPT ![c] = @ + 1]

Arrive(c) ==
  /\ arrived' = Increment(arrived, c)
  /\ UNCHANGED <<started, finished>>

(* A message that finds its connection idle and nothing queued before it is *)
(* processed at once.                                                       *)
ArriveAndStart(c) ==
  /\ Idle(c)
  /\ arrived[c] = started[c]
  /\ arrived' = Increment(arrived, c)
  /\ started' = Increment(started, c)
  /\ UNCHANGED finished

Start(c) ==
  /\ Idle(c)
  /\ started[c] < arrived[c]
  /\ started' = Increment(started, c)
  /\ UNCHANGED <<arrived, finished>>

Finish(c) ==
  /\ ~Idle(c)
  /\ finished' = Increment(finished, c)
  /\ UNCHANGED <<arrived, started>>

Next == \E c \in Conn : Arrive(c) \/ ArriveAndStart(c) \/ Start(c) \/ Finish(c)

Safety == Init /\ [][Next]_vars

Spec ==
  /\ Safety
  /\ \A c \in Conn : WF_vars(Start(c)) /\ WF_vars(Finish(c))
=============================================================================
