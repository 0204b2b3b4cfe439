---------------------------- MODULE HandlerChain ----------------------------
(***************************************************************************)
(* The data half of events.Message: the record a processing job keeps while *)
(* its chain of handlers runs, and what each part of process(), _execLink() *)
(* and resume() does to that record.  Every operator is a constant-level    *)
(* function from a message to a message, so that the modules with state     *)
(* (MessageChain for one job, Engine for all of them) share one translation *)
(* of the code.                                                             *)
(*                                                                          *)
(* What a handler computes is abstracted to what the chain can tell apart:  *)
(* it returns a value, returns None, or raises; it may have scheduled other *)
(* handlers and it may have set stopChain.                                  *)
(***************************************************************************)
EXTENDS Naturals, Sequences

CONSTANTS
  Handler,      \* the handlers that can stand in a chain (conf/handlers.py)
  Threaded,     \* those that subclass ThreadedHandler
  None,         \* Python's None, as a missing handler
  Effects       \* Effects[h]: the ways an execution of h can go

Outcome == {"value", "none", "raise"}

MaybeHandler == Handler \cup {None}

(* One way an execution can go: the handlers and the error handlers it gave *)
(* to setNextHandler, in the order they end up in (the last call first),    *)
(* whether it set stopChain, and how handle() ended.                        *)
Effect == [next : Seq(Handler), nextErrors : Seq(Handler),
           stop : BOOLEAN, out : Outcome]

ASSUME HandlerAssumption ==
  /\ Threaded \subseteq Handler
  /\ None \notin Handler
  /\ Effects \in [Handler -> SUBSET Effect]

-----------------------------------------------------------------------------

NoPair == <<None, None>>

Message ==
  [handlers      : Seq(Handler),
   errorHandlers : Seq(Handler),
   pair          : {NoPair} \cup (Handler \X MaybeHandler),
   lastInPair    : BOOLEAN,
   gotException  : BOOLEAN,
   stopChain     : BOOLEAN,
   retVal        : {"none", "value", "exception"}]

NewMessage(handlers, errorHandlers) ==
  [handlers      |-> handlers,
   errorHandlers |-> errorHandlers,
   pair          |-> NoPair,
   lastInPair    |-> FALSE,
   gotException  |-> FALSE,
   stopChain     |-> FALSE,
   retVal        |-> "none"]

(* The two breaks of process(): a handler asked to stop, or there is no     *)
(* saved pair and handlers.pop(0) raises IndexError.                        *)
AtEnd(m) == m.stopChain \/ (m.pair = NoPair /\ m.handlers = <<>>)

(* process() pops a pair only when none is saved.  errorHandlers is popped  *)
(* on its own, so the two lists are paired by position, not by origin.      *)
MustTake(m) == ~AtEnd(m) /\ m.pair = NoPair

Taken(m) ==
  LET paired == m.errorHandlers # <<>>
  IN [m EXCEPT !.pair = <<Head(m.handlers),
                          IF paired THEN Head(m.errorHandlers) ELSE None>>,
               !.handlers = Tail(@),
               !.errorHandlers = IF paired THEN Tail(@) ELSE @,
               !.lastInPair = FALSE]

(* The handler _execLink() picks from the saved pair.                       *)
Current(m) == IF m.gotException THEN m.pair[2] ELSE m.pair[1]

(* Mutant of EndPair: only the handler of the pair is forgotten.            *)
EndPairHalf(m) == IF m.lastInPair THEN [m EXCEPT !.pair[1] = None] ELSE m

(* _updateRunningHandlers().                                                *)
EndPair(m) == IF m.lastInPair THEN [m EXCEPT !.pair = NoPair] ELSE m

(* Mutant of ReturnValue: an exception is not kept.                         *)
ReturnValueOnly(m, out) == IF out = "value" THEN "value" ELSE m.retVal

(* What is left in _lastRetVal: None keeps the previous value, which may    *)
(* still be the exception of an earlier handler.                            *)
ReturnValue(m, out) ==
  CASE out = "none"  -> m.retVal
    [] out = "value" -> "value"
    [] out = "raise" -> "exception"

(* setNextHandler() inserts into the two lists independently.               *)
SetNextHandler(m, e) == [m EXCEPT !.handlers = e.next \o @,
                                  !.errorHandlers = e.nextErrors \o @]

(* What a handler does to the message before handle() ends.                 *)
Touched(m, e) == [SetNextHandler(m, e) EXCEPT !.stopChain = @ \/ e.stop]

(* _execHandler().                                                          *)
Executed(m, e) ==
  [Touched(m, e) EXCEPT !.gotException = (e.out = "raise"),
                        !.retVal = ReturnValue(m, e.out)]

(* Mutant of AfterHandler: the pair ends even if its handler raised.        *)
AfterHandlerAlone(m, e) == EndPair([Executed(m, e) EXCEPT !.lastInPair = TRUE])

(* _execLink() on a regular in-process handler: the pair is kept when it    *)
(* raised, so that the next link runs its error handler.                    *)
AfterHandler(m, e) ==
  LET x == Executed([m EXCEPT !.lastInPair = FALSE], e)
  IN IF x.gotException THEN x ELSE EndPair([x EXCEPT !.lastInPair = TRUE])

(* _execLink() after an exception, with and without an error handler.       *)
AfterErrorHandler(m, e) == EndPair(Executed([m EXCEPT !.lastInPair = TRUE], e))

(* Mutant of WithoutErrorHandler: the pair is kept.                         *)
WithoutErrorHandlerStays(m) == m

WithoutErrorHandler(m)  == EndPair([m EXCEPT !.lastInPair = TRUE])

(* _execLink() on a threaded handler of either kind, before it returns      *)
(* True to process().                                                       *)
Started(m) == [m EXCEPT !.lastInPair = m.gotException]

(* resume(): the handlers' callback hands on the old lastRetVal when the    *)
(* thread returned None, and resume() decides by the type of that value.    *)
Resumed(m, out) ==
  LET v == ReturnValue(m, out)
  IN EndPair([m EXCEPT !.retVal = v,
                       !.gotException = (v = "exception"),
                       !.lastInPair = @ \/ v # "exception"])
=============================================================================
