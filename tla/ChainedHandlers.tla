--------------------------- MODULE ChainedHandlers ---------------------------
(***************************************************************************)
(* What a chain of handlers promises, as docs/design.md ("Chained          *)
(* Handlers") words it: the handlers of a phase run in order, each paired   *)
(* with its error handler; a handler that raises makes its own error        *)
(* handler run; an error handler that raises makes the next handler be      *)
(* skipped and its error handler run; one that does not raise makes the     *)
(* next regular handler run.                                                *)
(***************************************************************************)
EXTENDS Naturals, Sequences

CONSTANTS
  NoPair,     \* no pair is running
  Guarded,    \* the pairs that have an error handler
  Phases,     \* the sequences of pairs a message can start with
  Scheduled   \* the sequences of pairs a handler can schedule next

VARIABLES
  rest,       \* the pairs still to run
  current,    \* the pair being run
  failed      \* the last handler or error handler that ran has raised

vars == <<rest, current, failed>>

Init == rest \in Phases /\ current = NoPair /\ failed = FALSE

(* The chain moves on to the next pair.                                     *)
Take ==
  /\ current = NoPair
  /\ rest # <<>>
  /\ current' = Head(rest)
  /\ rest' = Tail(rest)
  /\ UNCHANGED failed

(* The regular handler of the pair runs, because nothing has failed.        *)
Handle ==
  /\ current # NoPair
  /\ ~failed
  /\ \E new \in Scheduled, raised \in BOOLEAN :
       /\ rest' = new \o rest
       /\ failed' = raised
       /\ current' = IF raised THEN current ELSE NoPair

(* The error handler of the pair runs instead, and ends the pair.           *)
HandleError ==
  /\ current # NoPair
  /\ failed
  /\ current \in Guarded
  /\ \E new \in Scheduled, raised \in BOOLEAN :
       /\ rest' = new \o rest
       /\ failed' = raised
  /\ current' = NoPair

(* There is no error handler: the pair is passed over, still failing.       *)
Skip ==
  /\ current # NoPair
  /\ failed
  /\ current \notin Guarded
  /\ current' = NoPair
  /\ UNCHANGED <<rest, failed>>

Next == Take \/ Handle \/ HandleError \/ Skip

Spec == Init /\ [][Next]_vars
=============================================================================
