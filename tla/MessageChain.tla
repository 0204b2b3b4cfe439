---------------------------- MODULE MessageChain ----------------------------
(***************************************************************************)
(* One events.Message from process() to the result it leaves on resultQ:    *)
(* the loop over its handlers in the main thread, the threaded handlers it  *)
(* waits for, and resume().  It implements ChainedHandlers as long as the   *)
(* handlers and the phases are the ones StockPhases gives.                  *)
(***************************************************************************)
EXTENDS HandlerChain

CONSTANT Phases   \* records [handlers, errorHandlers], as conf/phases.py

ASSUME MessageChainAssumption ==
  Phases \subseteq [handlers : Seq(Handler), errorHandlers : Seq(Handler)]

VARIABLES
  msg,      \* the Message
  where     \* who has it: "main" (process), "thread" (a worker) or "done"

vars == <<msg, where>>

(* The types of the state: the record is always a Message of HandlerChain,  *)
(* whatever the handlers schedule (events.py:18-60).                        *)
TypeOK == msg \in Message /\ where \in {"main", "thread", "done"}

Init ==
  /\ \E p \in Phases : msg = NewMessage(p.handlers, p.errorHandlers)
  /\ where = "main"

(* One round of the loop in process() pops a pair ...                       *)
Take ==
  /\ where = "main"
  /\ MustTake(msg)
  /\ msg' = Taken(msg)
  /\ UNCHANGED where

AtLink == where = "main" /\ ~AtEnd(msg) /\ msg.pair # NoPair

(* ... and _execLink() runs its regular handler,                            *)
RunHandler ==
  /\ AtLink
  /\ ~msg.gotException
  /\ msg.pair[1] \notin Threaded
  /\ \E e \in Effects[msg.pair[1]] : msg' = AfterHandler(msg, e)
  /\ UNCHANGED where

(* its error handler, when the last handler raised,                         *)
RunErrorHandler ==
  /\ AtLink
  /\ msg.gotException
  /\ msg.pair[2] \in Handler \ Threaded
  /\ \E e \in Effects[msg.pair[2]] : msg' = AfterErrorHandler(msg, e)
  /\ UNCHANGED where

(* nothing, when there is no error handler,                                 *)
SkipErrorHandler ==
  /\ AtLink
  /\ msg.gotException
  /\ msg.pair[2] = None
  /\ msg' = WithoutErrorHandler(msg)
  /\ UNCHANGED where

(* or hands a threaded one to its thread and leaves process().              *)
StartThread ==
  /\ AtLink
  /\ Current(msg) \in Threaded
  /\ msg' = Started(msg)
  /\ where' = "thread"

(* The thread has run the handler; the main loop calls resume().            *)
Resume ==
  /\ where = "thread"
  /\ \E e \in Effects[Current(msg)] : msg' = Resumed(Touched(msg, e), e.out)
  /\ where' = "main"

(* The loop is left and resultQ.put() tells the dispatcher.                 *)
Finish ==
  /\ where = "main"
  /\ AtEnd(msg)
  /\ where' = "done"
  /\ UNCHANGED msg

Next ==
  \/ Take \/ RunHandler \/ RunErrorHandler \/ SkipErrorHandler
  \/ StartThread \/ Resume \/ Finish

(* process() runs to its end once called, and a started thread returns.     *)
Spec == Init /\ [][Next]_vars /\ WF_vars(Next)

-----------------------------------------------------------------------------
(* The refinement: the two lists of the code, read as one list of pairs.    *)

Paired(hs, es) ==
  [i \in 1..Len(hs) |-> <<hs[i], IF i <= Len(es) THEN es[i] ELSE None>>]

Design == INSTANCE ChainedHandlers WITH
  rest      <- Paired(msg.handlers, msg.errorHandlers),
  current   <- msg.pair,
  failed    <- msg.gotException,
  NoPair    <- NoPair,
  Guarded   <- Handler \X Handler,
  Phases    <- {Paired(p.handlers, p.errorHandlers) : p \in Phases},
  Scheduled <- {Paired(e.next, e.nextErrors) : e \in UNION {Effects[h] : h \in Handler}}

(* The chain does what the design document says: see ChainedHandlers.       *)
ImplementsDesign == Design!Spec

(* The value handed to the next handler is an exception exactly while the   *)
(* chain is failing: the error handler gets the exception it has to handle, *)
(* and no regular handler, WriteHandler for one, gets a stale one           *)
(* (events.py 113-117 and 129-139).                                         *)
ExceptionIffFailing == msg.gotException <=> msg.retVal = "exception"

(* A threaded handler counts as failed only when its thread raised: "If A   *)
(* does not throw and exception then B's regular handler will run next"     *)
(* (docs/design.md:72).                                                     *)
FailsOnlyByRaising ==
  [][where = "thread" /\ msg'.gotException
     => \E e \in Effects[Current(msg)] :
          e.out = "raise" /\ msg' = Resumed(Touched(msg, e), e.out)]_vars

(* The handlers that can stand in a list of error handlers: those of the    *)
(* phases and those that are scheduled.                                     *)
ErrorHandler ==
  {h \in Handler :
     \/ \E p \in Phases : \E k \in DOMAIN p.errorHandlers : h = p.errorHandlers[k]
     \/ \E g \in Handler : \E e \in Effects[g] : \E k \in DOMAIN e.nextErrors :
          h = e.nextErrors[k]}

(* An error handler that does not raise returns a value, as those of        *)
(* conf/handlers.py do.  One that returns None leaves the exception it has  *)
(* handled as the last value (events.py 113-117), and then neither of the   *)
(* two properties above holds.                                              *)
ErrorHandlersAnswer == \A h \in ErrorHandler : \A e \in Effects[h] : e.out # "none"

(* The two lists stay paired, as those of conf/phases.py do: no handler is  *)
(* scheduled with an error handler, and where a phase has error handlers,   *)
(* nothing is scheduled before them.                                        *)
SchedulesNothing(h) == \A e \in Effects[h] : e.next = <<>>

ListsStayPaired ==
  /\ \A h \in Handler : \A e \in Effects[h] : e.nextErrors = <<>>
  /\ \A p \in Phases : p.errorHandlers # <<>> =>
       /\ \A k \in DOMAIN p.handlers : SchedulesNothing(p.handlers[k])
       /\ \A k \in DOMAIN p.errorHandlers : SchedulesNothing(p.errorHandlers[k])

(* Every message leaves its result, whatever its handlers raise; until it   *)
(* does, no other message of its connection runs (events.py 103-105).       *)
Finishes == <>(where = "done")
=============================================================================
