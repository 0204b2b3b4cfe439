---------------------------- MODULE EngineProofs ----------------------------
(***************************************************************************)
(* Proofs about Engine, for every set of connections, workers and pools,    *)
(* every table of handlers and every number of messages.                    *)
(***************************************************************************)
EXTENDS Engine, SequenceTheorems, TLAPS

(* The inductive invariant.  RunningAccounted and RequestsAccounted hold    *)
(* each other up; besides them it says that the loop of _runMessages knows  *)
(* the length of the queue, that a pool only ever has requests of its own   *)
(* server, and that a watched handler is the threaded one its message       *)
(* stopped at.                                                              *)
RunBound == pc = "run" => l = Len(processingQ)

OwnRequests ==
  /\ \A p \in Pool :
       /\ \A k \in DOMAIN requestsQueue[p] : PoolOf[requestsQueue[p][k]] = p
       /\ \A k \in DOMAIN resultsQueue[p] : PoolOf[resultsQueue[p][k].conn] = p
       /\ \A c \in workRequests[p] : PoolOf[c] = p
  /\ \A w \in Worker :
       /\ worker[w].at = "act" <=> worker[w].job # None
       /\ worker[w].job # None => PoolOf[worker[w].job] = PoolOf[w]

Watched == \A c \in funcMap : Current(chain[c]) \in Threaded

IInv ==
  /\ TypeOK
  /\ RunBound
  /\ RunningAccounted
  /\ RequestsAccounted
  /\ OwnRequests
  /\ Watched

-----------------------------------------------------------------------------
(* What process() and resume() do to a message leaves a message.            *)

(* A new message is one: dispatch() builds it from a phase.                 *)
LEMMA NewTyped ==
  ASSUME NEW hs \in Seq(Handler), NEW es \in Seq(Handler)
  PROVE  NewMessage(hs, es) \in Message
  BY DEF NewMessage, Message

(* At a link there is a pair to work on, whether it was saved or is popped. *)
LEMMA AtLinkTyped ==
  ASSUME NEW m \in Message, ~AtEnd(m)
  PROVE  /\ AtLink(m) \in Message
         /\ AtLink(m).pair \in Handler \X MaybeHandler
         /\ AtLink(m).gotException = m.gotException
  <1>1. CASE MustTake(m)
    <2>1. m.handlers \in Seq(Handler) /\ m.handlers # <<>> /\ m.errorHandlers \in Seq(Handler)
      BY <1>1 DEF MustTake, AtEnd, Message
    <2>2. Head(m.handlers) \in Handler /\ Tail(m.handlers) \in Seq(Handler)
      BY <2>1
    <2>3. m.errorHandlers # <<>> =>
            Head(m.errorHandlers) \in Handler /\ Tail(m.errorHandlers) \in Seq(Handler)
      BY <2>1
    <2>. QED
      BY <1>1, <2>1, <2>2, <2>3 DEF AtLink, Taken, Message, MaybeHandler
  <1>2. CASE ~MustTake(m)
    BY <1>2 DEF AtLink, MustTake, Message
  <1>. QED
    BY <1>1, <1>2

LEMMA ReturnValueTyped ==
  ASSUME NEW m \in Message, NEW out \in Outcome
  PROVE  ReturnValue(m, out) \in {"none", "value", "exception"}
  BY DEF ReturnValue, Outcome, Message

LEMMA EndPairTyped ==
  ASSUME NEW m \in Message
  PROVE  EndPair(m) \in Message
  BY DEF EndPair, Message

(* A handler leaves the running pair alone, and how the last one ended.     *)
LEMMA TouchedTyped ==
  ASSUME NEW m \in Message, NEW e \in Effect
  PROVE  /\ Touched(m, e) \in Message
         /\ Current(Touched(m, e)) = Current(m)
  <1>1. e.next \o m.handlers \in Seq(Handler) /\ e.nextErrors \o m.errorHandlers \in Seq(Handler)
    BY DEF Effect, Message
  <1>2. (m.stopChain \/ e.stop) \in BOOLEAN
    OBVIOUS
  <1>. QED
    BY <1>1, <1>2 DEF Touched, SetNextHandler, Message, Current

LEMMA ExecutedTyped ==
  ASSUME NEW m \in Message, NEW e \in Effect
  PROVE  Executed(m, e) \in Message
  <1>1. Touched(m, e) \in Message
    BY TouchedTyped
  <1>2. ReturnValue(m, e.out) \in {"none", "value", "exception"}
    BY ReturnValueTyped DEF Effect
  <1>. QED
    BY <1>1, <1>2 DEF Executed, Message

LEMMA LinkTyped ==
  ASSUME NEW m \in Message, NEW e \in Effect
  PROVE  /\ AfterHandler(m, e) \in Message
         /\ AfterErrorHandler(m, e) \in Message
         /\ WithoutErrorHandler(m) \in Message
  <1>1. [m EXCEPT !.lastInPair = FALSE] \in Message /\ [m EXCEPT !.lastInPair = TRUE] \in Message
    BY DEF Message
  <1>2. AfterErrorHandler(m, e) \in Message /\ WithoutErrorHandler(m) \in Message
    BY <1>1, ExecutedTyped, EndPairTyped DEF AfterErrorHandler, WithoutErrorHandler
  <1>3. AfterHandler(m, e) \in Message
    <2>. DEFINE x == Executed([m EXCEPT !.lastInPair = FALSE], e)
    <2>1. x \in Message
      BY <1>1, ExecutedTyped
    <2>2. [x EXCEPT !.lastInPair = TRUE] \in Message
      BY <2>1 DEF Message
    <2>. QED
      BY <2>1, <2>2, EndPairTyped DEF AfterHandler
  <1>. QED
    BY <1>2, <1>3

(* A threaded handler stays the current one while its thread runs.          *)
LEMMA StartedTyped ==
  ASSUME NEW m \in Message
  PROVE  /\ Started(m) \in Message
         /\ Current(Started(m)) = Current(m)
  BY DEF Started, Message, Current

LEMMA ResumedTyped ==
  ASSUME NEW m \in Message, NEW out \in Outcome
  PROVE  Resumed(m, out) \in Message
  <1>. DEFINE v == ReturnValue(m, out)
  <1>1. v \in {"none", "value", "exception"}
    BY ReturnValueTyped
  <1>2. (v = "exception") \in BOOLEAN /\ (m.lastInPair \/ v # "exception") \in BOOLEAN
    OBVIOUS
  <1>. HIDE DEF v
  <1>3. [m EXCEPT !.retVal = v, !.gotException = (v = "exception"),
                  !.lastInPair = @ \/ v # "exception"] \in Message
    BY <1>1, <1>2 DEF Message
  <1>. QED
    BY <1>3, EndPairTyped DEF Resumed, v

-----------------------------------------------------------------------------
(* Types.                                                                   *)

(* del q[k] leaves a queue.                                                 *)
LEMMA WithoutTyped ==
  ASSUME NEW S, NEW q \in Seq(S), NEW k \in 1..Len(q)
  PROVE  /\ Without(q, k) \in Seq(S)
         /\ Len(Without(q, k)) = Len(q) - 1
         /\ \A j \in 1..(Len(q) - 1) :
              Without(q, k)[j] = IF j < k THEN q[j] ELSE q[j + 1]
  <1>1. Len(q) \in Nat /\ Len(q) - 1 \in Nat
    OBVIOUS
  <1>2. \A j \in 1..(Len(q) - 1) : (IF j < k THEN q[j] ELSE q[j + 1]) \in S
    OBVIOUS
  <1>. QED
    BY <1>1, <1>2 DEF Without

(* What a poll of the pool does to the handlers: those whose result it found*)
(* are done, the others are as before.                                      *)
LEMMA PolledTyped ==
  ASSUME TypeOK, NEW p \in Pool
  PROVE  /\ Polled(p) \in [Conn -> {"idle", "pending"} \cup Outcome]
         /\ \A c \in Drained(p) : Polled(p)[c] \in Outcome
         /\ \A c \in Conn \ Drained(p) : Polled(p)[c] = handlerRet[c]
  <1>1. ASSUME NEW c \in Drained(p)
        PROVE  RetOf(p, c) \in Outcome
    <2>. DEFINE R == {resultsQueue[p][k] : k \in DOMAIN resultsQueue[p]}
    <2>1. R \subseteq Result
      BY DEF TypeOK
    <2>2. \E r \in R : r.conn = c
      BY <1>1 DEF Drained
    <2>. DEFINE r == CHOOSE x \in R : x.conn = c
    <2>3. r \in R
      BY <2>2
    <2>4. RetOf(p, c) = r.ret
      BY DEF RetOf
    <2>. HIDE DEF r, R
    <2>. QED
      BY <2>1, <2>3, <2>4 DEF Result
  <1>2. Drained(p) \subseteq Conn
    BY DEF TypeOK, Drained
  <1>3. handlerRet \in [Conn -> {"idle", "pending"} \cup Outcome]
    BY DEF TypeOK
  <1>. HIDE DEF Drained, RetOf
  <1>. QED
    BY <1>1, <1>2, <1>3 DEF Polled

(* The types hold at the start.                                             *)
LEMMA TypeInit == Init => TypeOK
  <1>. SUFFICES ASSUME Init PROVE TypeOK
    OBVIOUS
  <1>1. <<>> \in Seq(Handler) /\ <<>> \in Seq(Queued) /\ <<>> \in Seq(Conn) /\ <<>> \in Seq(Result)
    BY EmptySeq
  <1>2. NoMessage \in Message
    BY <1>1, NewTyped DEF NoMessage
  <1>3. chain \in [Conn -> Message]
    BY <1>2 DEF Init
  <1>4. worker \in [Worker -> WorkerState]
    BY DEF Init, WorkerState
  <1>5. /\ arrived \in [Conn -> 0..MaxMsgs]
        /\ retired \in [Conn -> Nat]
        /\ running \in [Conn -> 0..MaxMsgs]
        /\ handlerRet \in [Conn -> {"idle", "pending"} \cup Outcome]
    BY EngineAssumption DEF Init
  <1>6. /\ requestsQueue \in [Pool -> Seq(Conn)]
        /\ workRequests \in [Pool -> SUBSET Conn]
        /\ resultsQueue \in [Pool -> Seq(Result)]
    BY <1>1 DEF Init
  <1>7. /\ pc \in {"pickup", "run", "select", "io", "funcs"}
        /\ cur \in Conn \cup {None}
        /\ i \in Nat \ {0} /\ l \in Nat
        /\ ready \in SUBSET (Conn \cup {Trigger})
        /\ todo \in SUBSET Conn
        /\ funcMap \in SUBSET Conn
    BY DEF Init
  <1>8. trigger \in BOOLEAN
    BY Zenon DEF Init
  <1>. QED
    BY <1>1, <1>3, <1>4, <1>5, <1>6, <1>7, <1>8, Zenon DEF Init, TypeOK

(* Each step keeps the types.                                               *)
LEMMA TypeNext == IInv /\ [Next]_vars => TypeOK'
  <1>. SUFFICES ASSUME IInv, [Next]_vars PROVE TypeOK'
    OBVIOUS
  <1>. USE DEF mainVars, countVars, poolVars
  <1>1. CASE UNCHANGED vars
    BY <1>1 DEF IInv, TypeOK, vars
  <1>2. ASSUME NEW c \in Conn, RunHandler(c)
        PROVE  TypeOK'
    <2>. DEFINE m == AtLink(chain[c])
    <2>1. m \in Message /\ m.pair[1] \in Handler
      BY <1>2, AtLinkTyped DEF IInv, TypeOK, RunHandler, InLink
    <2>2. PICK e \in Effects[m.pair[1]] : chain' = [chain EXCEPT ![c] = AfterHandler(m, e)]
      BY <1>2 DEF RunHandler
    <2>3. e \in Effect
      BY <2>1, HandlerAssumption
    <2>4. chain' \in [Conn -> Message]
      BY <2>1, <2>2, <2>3, LinkTyped DEF IInv, TypeOK
    <2>. QED
      BY <1>2, <2>4 DEF RunHandler, IInv, TypeOK
  <1>3. ASSUME NEW c \in Conn, RunErrorHandler(c)
        PROVE  TypeOK'
    <2>. DEFINE m == AtLink(chain[c])
    <2>1. m \in Message /\ m.pair[2] \in Handler
      BY <1>3, AtLinkTyped DEF IInv, TypeOK, RunErrorHandler, InLink
    <2>2. PICK e \in Effects[m.pair[2]] : chain' = [chain EXCEPT ![c] = AfterErrorHandler(m, e)]
      BY <1>3 DEF RunErrorHandler
    <2>3. e \in Effect
      BY <2>1, HandlerAssumption
    <2>4. chain' \in [Conn -> Message]
      BY <2>1, <2>2, <2>3, LinkTyped DEF IInv, TypeOK
    <2>. QED
      BY <1>3, <2>4 DEF RunErrorHandler, IInv, TypeOK
  <1>4. ASSUME NEW c \in Conn, SkipErrorHandler(c)
        PROVE  TypeOK'
    <2>1. AtLink(chain[c]) \in Message
      BY <1>4, AtLinkTyped DEF IInv, TypeOK, SkipErrorHandler, InLink
    <2>2. [AtLink(chain[c]) EXCEPT !.lastInPair = TRUE] \in Message
      BY <2>1 DEF Message
    <2>3. WithoutErrorHandler(AtLink(chain[c])) \in Message
      BY <2>2, EndPairTyped DEF WithoutErrorHandler
    <2>4. chain' \in [Conn -> Message]
      BY <1>4, <2>3 DEF IInv, TypeOK, SkipErrorHandler
    <2>. QED
      BY <1>4, <2>4 DEF SkipErrorHandler, IInv, TypeOK
  <1>5. ASSUME NEW c \in Conn, StartThread(c)
        PROVE  TypeOK'
    <2>1. PoolOf[c] \in Pool
      BY EngineAssumption
    <2>2. AtLink(chain[c]) \in Message
      BY <1>5, AtLinkTyped DEF IInv, TypeOK, StartThread, InLink
    <2>3. chain' \in [Conn -> Message]
      BY <1>5, <2>2, StartedTyped DEF IInv, TypeOK, StartThread
    <2>4. /\ handlerRet' \in [Conn -> {"idle", "pending"} \cup Outcome]
          /\ requestsQueue' \in [Pool -> Seq(Conn)]
          /\ workRequests' \in [Pool -> SUBSET Conn]
          /\ funcMap' \in SUBSET Conn
          /\ cur' \in Conn \cup {None}
      BY <1>5, <2>1 DEF IInv, TypeOK, StartThread
    <2>. QED
      BY <1>5, <2>3, <2>4 DEF StartThread, IInv, TypeOK
  <1>6. ASSUME NEW c \in Conn, Finish(c)
        PROVE  TypeOK'
    BY <1>6 DEF Finish, IInv, TypeOK
  <1>7. CASE PickupResult
    <2>1. Head(resultQ) \in Conn /\ resultQ' \in Seq(Conn)
      BY <1>7 DEF PickupResult, IInv, TypeOK
    <2>2. NoMessage \in Message
      BY NewTyped, EmptySeq DEF NoMessage
    <2>3. /\ running' \in [Conn -> 0..MaxMsgs]
          /\ chain' \in [Conn -> Message]
          /\ retired' \in [Conn -> Nat]
      <3>1. 0 \in 0..MaxMsgs
        BY EngineAssumption
      <3>2. /\ running' = [running EXCEPT ![Head(resultQ)] = 0]
            /\ chain' = [chain EXCEPT ![Head(resultQ)] = NoMessage]
            /\ retired' = [retired EXCEPT ![Head(resultQ)] = @ + 1]
        BY <1>7 DEF PickupResult
      <3>. QED
        BY <2>1, <2>2, <3>1, <3>2 DEF IInv, TypeOK
    <2>. QED
      BY <1>7, <2>1, <2>3 DEF PickupResult, IInv, TypeOK
  <1>8. CASE PickupEmpty
    BY <1>8 DEF PickupEmpty, IInv, TypeOK
  <1>9. CASE RunQueued
    <2>1. i \in 1..Len(processingQ) /\ processingQ[i] \in Queued
      BY <1>9 DEF RunQueued, At, IInv, TypeOK, RunBound
    <2>2. processingQ' \in Seq(Queued)
      BY <1>9, <2>1, WithoutTyped DEF RunQueued, IInv, TypeOK
    <2>3. /\ running' \in [Conn -> 0..MaxMsgs]
          /\ chain' \in [Conn -> Message]
          /\ cur' \in Conn \cup {None}
          /\ l' \in Nat
      <3>. DEFINE e == processingQ[i]
      <3>1. /\ running' = [running EXCEPT ![e.conn] = e.num]
            /\ chain' = [chain EXCEPT ![e.conn] = e.msg]
            /\ cur' = e.conn
            /\ l' = l - 1
            /\ i <= l
        BY <1>9 DEF RunQueued
      <3>2. e.conn \in Conn /\ e.num \in 0..MaxMsgs /\ e.msg \in Message
        BY <2>1, EngineAssumption DEF Queued
      <3>. HIDE DEF e
      <3>. QED
        BY <3>1, <3>2 DEF IInv, TypeOK
    <2>. QED
      BY <1>9, <2>2, <2>3 DEF RunQueued, IInv, TypeOK
  <1>10. CASE SkipQueued
    BY <1>10 DEF SkipQueued, IInv, TypeOK
  <1>11. CASE RunDone
    BY <1>11 DEF RunDone, IInv, TypeOK
  <1>12. CASE Select
    <2>1. ready' \in SUBSET (Conn \cup {Trigger})
      BY <1>12 DEF Select
    <2>. QED
      BY <1>12, <2>1 DEF Select, IInv, TypeOK
  <1>13. CASE ReadTrigger
    <2>1. trigger' \in BOOLEAN
      BY <1>13, Zenon DEF ReadTrigger
    <2>. QED
      BY <1>13, <2>1 DEF ReadTrigger, IInv, TypeOK
  <1>14. ASSUME NEW c \in Conn, Dispatch(c)
         PROVE  TypeOK'
    <2>1. arrived[c] + 1 \in 1..MaxMsgs
      <3>1. arrived[c] \in 0..MaxMsgs /\ arrived[c] < MaxMsgs
        BY <1>14 DEF Dispatch, IInv, TypeOK
      <3>2. MaxMsgs \in Nat
        BY EngineAssumption
      <3>. QED
        BY <3>1, <3>2
    <2>2. arrived' \in [Conn -> 0..MaxMsgs]
      <3>1. arrived' = [arrived EXCEPT ![c] = arrived[c] + 1]
        BY <1>14 DEF Dispatch
      <3>2. arrived \in [Conn -> 0..MaxMsgs]
        BY DEF IInv, TypeOK
      <3>3. arrived[c] + 1 \in 0..MaxMsgs
        BY <2>1
      <3>. QED
        BY <3>1, <3>2, <3>3
    <2>3. PICK p \in Phases :
            LET m == NewMessage(p.handlers, p.errorHandlers)
            IN \/ /\ processingQ' = Append(processingQ,
                                     [conn |-> c, num |-> arrived[c] + 1, msg |-> m])
                  /\ UNCHANGED <<running, chain, cur>>
               \/ /\ running' = [running EXCEPT ![c] = arrived[c] + 1]
                  /\ chain' = [chain EXCEPT ![c] = m]
                  /\ cur' = c
                  /\ UNCHANGED processingQ
      BY <1>14, Zenon DEF Dispatch
    <2>. DEFINE m == NewMessage(p.handlers, p.errorHandlers)
    <2>4. m \in Message
      BY NewTyped, EngineAssumption
    <2>5. [conn |-> c, num |-> arrived[c] + 1, msg |-> m] \in Queued
      BY <2>1, <2>4 DEF Queued
    <2>. HIDE DEF m
    <2>6. /\ processingQ' \in Seq(Queued)
          /\ running' \in [Conn -> 0..MaxMsgs]
          /\ chain' \in [Conn -> Message]
          /\ cur' \in Conn \cup {None}
      <3>1. CASE /\ processingQ' = Append(processingQ,
                                [conn |-> c, num |-> arrived[c] + 1, msg |-> m])
                 /\ UNCHANGED <<running, chain, cur>>
        BY <3>1, <2>5 DEF IInv, TypeOK
      <3>2. CASE /\ running' = [running EXCEPT ![c] = arrived[c] + 1]
                 /\ chain' = [chain EXCEPT ![c] = m]
                 /\ cur' = c
                 /\ UNCHANGED processingQ
        BY <3>2, <2>1, <2>4 DEF IInv, TypeOK
      <3>. QED
        BY <2>3, <3>1, <3>2 DEF m
    <2>. QED
      BY <1>14, <2>2, <2>6 DEF Dispatch, IInv, TypeOK
  <1>15. ASSUME NEW c \in Conn, DoneReading(c)
         PROVE  TypeOK'
    BY <1>15 DEF DoneReading, IInv, TypeOK
  <1>16. CASE IoDone
    BY <1>16 DEF IoDone, IInv, TypeOK
  <1>17. ASSUME NEW c \in Conn, FuncCheck(c)
         PROVE  TypeOK'
    <2>. DEFINE p == PoolOf[c]
                done == Polled(p)
    <2>1. p \in Pool
      BY EngineAssumption
    <2>2. done \in [Conn -> {"idle", "pending"} \cup Outcome]
      BY <2>1, PolledTyped DEF IInv
    <2>3. /\ resultsQueue' = [resultsQueue EXCEPT ![p] = <<>>]
          /\ workRequests' = [workRequests EXCEPT ![p] = @ \ Drained(p)]
          /\ todo' = todo \ {c}
          /\ \/ /\ handlerRet' = done
                /\ UNCHANGED <<chain, funcMap, cur>>
             \/ /\ done[c] \in Outcome
                /\ handlerRet' = [done EXCEPT ![c] = "idle"]
                /\ chain' = [chain EXCEPT ![c] = Resumed(@, done[c])]
                /\ funcMap' = funcMap \ {c}
                /\ cur' = c
      BY <1>17, Zenon DEF FuncCheck
    <2>. HIDE DEF done, p
    <2>4. /\ resultsQueue' \in [Pool -> Seq(Result)]
          /\ workRequests' \in [Pool -> SUBSET Conn]
          /\ todo' \in SUBSET Conn
      BY <2>1, <2>3, EmptySeq DEF IInv, TypeOK
    <2>5. chain' \in [Conn -> Message]
      <3>1. chain \in [Conn -> Message]
        BY DEF IInv, TypeOK
      <3>2. done[c] \in Outcome => Resumed(chain[c], done[c]) \in Message
        BY <3>1, ResumedTyped
      <3>. QED
        BY <2>3, <3>1, <3>2
    <2>6. /\ handlerRet' \in [Conn -> {"idle", "pending"} \cup Outcome]
          /\ funcMap' \in SUBSET Conn
          /\ cur' \in Conn \cup {None}
      BY <2>2, <2>3 DEF IInv, TypeOK
    <2>. QED
      BY <1>17, <2>4, <2>5, <2>6 DEF FuncCheck, IInv, TypeOK
  <1>18. CASE FuncsDone
    BY <1>18 DEF FuncsDone, IInv, TypeOK
  <1>19. ASSUME NEW w \in Worker, Get(w)
         PROVE  TypeOK'
    <2>1. PoolOf[w] \in Pool
      BY EngineAssumption
    <2>2. Head(requestsQueue[PoolOf[w]]) \in Conn /\ Tail(requestsQueue[PoolOf[w]]) \in Seq(Conn)
      BY <1>19, <2>1 DEF Get, IInv, TypeOK
    <2>3. worker' \in [Worker -> WorkerState] /\ requestsQueue' \in [Pool -> Seq(Conn)]
      BY <1>19, <2>1, <2>2 DEF Get, IInv, TypeOK, WorkerState
    <2>. QED
      BY <1>19, <2>3 DEF Get, IInv, TypeOK
  <1>20. ASSUME NEW w \in Worker, Act(w)
         PROVE  TypeOK'
    <2>. DEFINE c == worker[w].job
                p == PoolOf[w]
    <2>1. p \in Pool
      BY EngineAssumption
    <2>2. c \in Conn
      BY <1>20 DEF Act, IInv, TypeOK, WorkerState, OwnRequests
    <2>3. c \in funcMap
      BY <2>2 DEF IInv, RequestsAccounted, Executing
    <2>4. chain[c] \in Message /\ Current(chain[c]) \in Handler
      BY <2>2, <2>3, HandlerAssumption DEF IInv, TypeOK, Watched
    <2>5. PICK e \in Effects[Current(chain[c])] :
            /\ chain' = [chain EXCEPT ![c] = Touched(@, e)]
            /\ resultsQueue' = [resultsQueue EXCEPT ![p] = Append(@, [conn |-> c, ret |-> e.out])]
      BY <1>20, Zenon DEF Act
    <2>6. e \in Effect
      BY <2>4, HandlerAssumption
    <2>7. [conn |-> c, ret |-> e.out] \in Result /\ Touched(chain[c], e) \in Message
      BY <2>2, <2>4, <2>6, TouchedTyped DEF Result, Effect
    <2>8. worker' \in [Worker -> WorkerState]
      BY <1>20 DEF Act, IInv, TypeOK, WorkerState
    <2>. HIDE DEF c, p
    <2>9. chain' \in [Conn -> Message] /\ resultsQueue' \in [Pool -> Seq(Result)]
      BY <2>1, <2>2, <2>5, <2>7 DEF IInv, TypeOK
    <2>. QED
      BY <1>20, <2>8, <2>9 DEF Act, IInv, TypeOK
  <1>21. ASSUME NEW w \in Worker, Notify(w)
         PROVE  TypeOK'
    <2>1. trigger' \in BOOLEAN
      BY <1>21, Zenon DEF Notify, IInv, TypeOK
    <2>2. worker' \in [Worker -> WorkerState]
      BY <1>21 DEF Notify, IInv, TypeOK, WorkerState
    <2>. QED
      BY <1>21, <2>1, <2>2 DEF Notify, IInv, TypeOK
  <1>22. ASSUME NEW w \in Worker, Truncate(w)
         PROVE  TypeOK'
    BY <1>22 DEF Truncate, IInv, TypeOK, WorkerState
  <1>. QED
    BY <1>1, <1>2, <1>3, <1>4, <1>5, <1>6, <1>7, <1>8, <1>9, <1>10, <1>11, <1>12, <1>13,
       <1>14, <1>15, <1>16, <1>17, <1>18, <1>19, <1>20, <1>21, <1>22
       DEF Next, Process, MainLoop, WorkerStep

-----------------------------------------------------------------------------
(* The running messages.                                                    *)

(* Putting a new element on a queue, and taking its head off.               *)
LEMMA AppendElements ==
  ASSUME NEW S, NEW s \in Seq(S), NEW x \in S
  PROVE  /\ Elements(Append(s, x)) = Elements(s) \cup {x}
         /\ Distinct(s) /\ x \notin Elements(s) => Distinct(Append(s, x))
  <1>1. /\ DOMAIN Append(s, x) = 1..(Len(s) + 1) /\ DOMAIN s = 1..Len(s)
        /\ Append(s, x)[Len(s) + 1] = x
        /\ \A k \in 1..Len(s) : Append(s, x)[k] = s[k]
    OBVIOUS
  <1>2. Elements(Append(s, x)) = Elements(s) \cup {x}
    <2>1. ASSUME NEW y \in Elements(Append(s, x)) PROVE y \in Elements(s) \cup {x}
      BY <1>1, <2>1 DEF Elements
    <2>2. ASSUME NEW y \in Elements(s) PROVE y \in Elements(Append(s, x))
      BY <1>1, <2>2 DEF Elements
    <2>3. x \in Elements(Append(s, x))
      <3>1. Len(s) + 1 \in DOMAIN Append(s, x)
        BY <1>1
      <3>. QED
        BY <1>1, <3>1 DEF Elements
    <2>. QED
      BY <2>1, <2>2, <2>3
  <1>3. Distinct(s) /\ x \notin Elements(s) => Distinct(Append(s, x))
    BY <1>1 DEF Distinct, Elements
  <1>. QED
    BY <1>2, <1>3

LEMMA TailElements ==
  ASSUME NEW S, NEW s \in Seq(S), s # <<>>, Distinct(s)
  PROVE  /\ Head(s) \in S
         /\ Tail(s) \in Seq(S)
         /\ Head(s) \in Elements(s)
         /\ Elements(Tail(s)) = Elements(s) \ {Head(s)}
         /\ Distinct(Tail(s))
  <1>1. /\ Len(s) \in Nat \ {0}
        /\ Head(s) = s[1] /\ Head(s) \in S /\ Tail(s) \in Seq(S)
        /\ DOMAIN Tail(s) = 1..(Len(s) - 1) /\ DOMAIN s = 1..Len(s)
        /\ \A k \in 1..(Len(s) - 1) : Tail(s)[k] = s[k + 1]
    OBVIOUS
  <1>2. Head(s) \in Elements(s)
    BY <1>1 DEF Elements
  <1>3. Distinct(Tail(s))
    BY <1>1 DEF Distinct
  <1>4. ASSUME NEW y \in Elements(Tail(s)) PROVE y \in Elements(s) \ {Head(s)}
    <2>1. PICK k \in 1..(Len(s) - 1) : y = s[k + 1]
      BY <1>1, <1>4 DEF Elements
    <2>2. k + 1 \in DOMAIN s /\ 1 \in DOMAIN s /\ k + 1 # 1
      BY <1>1, <2>1
    <2>. QED
      BY <1>1, <2>1, <2>2 DEF Elements, Distinct
  <1>5. ASSUME NEW y \in Elements(s), y # Head(s) PROVE y \in Elements(Tail(s))
    <2>1. PICK k \in 1..Len(s) : y = s[k]
      BY <1>1, <1>5 DEF Elements
    <2>2. k # 1 /\ k - 1 \in 1..(Len(s) - 1)
      BY <1>1, <1>5, <2>1
    <2>3. Tail(s)[k - 1] = s[k]
      BY <1>1, <2>2
    <2>. QED
      BY <1>1, <2>1, <2>2, <2>3 DEF Elements
  <1>. QED
    BY <1>1, <1>2, <1>3, <1>4, <1>5

(* Each step keeps the length the loop of _runMessages has remembered.      *)
LEMMA RunBoundNext == IInv /\ [Next]_vars => RunBound'
  <1>. SUFFICES ASSUME IInv, [Next]_vars PROVE RunBound'
    OBVIOUS
  <1>. USE DEF mainVars, countVars, poolVars, RunBound, At
  <1>1. CASE UNCHANGED <<pc, l, processingQ>>
    BY <1>1 DEF IInv
  <1>2. CASE PickupEmpty
    BY <1>2 DEF PickupEmpty
  <1>3. CASE RunQueued
    <2>1. i \in 1..Len(processingQ) /\ processingQ \in Seq(Queued)
      BY <1>3 DEF RunQueued, IInv, TypeOK
    <2>. QED
      BY <1>3, <2>1, WithoutTyped DEF RunQueued, IInv
  <1>4. CASE SkipQueued \/ RunDone \/ Select \/ IoDone \/ FuncsDone
    BY <1>4 DEF SkipQueued, RunDone, Select, IoDone, FuncsDone, IInv
  <1>5. ASSUME NEW c \in Conn, Dispatch(c) PROVE RunBound'
    BY <1>5 DEF Dispatch
  <1>6. CASE Process
    BY <1>1, <1>6 DEF Process, RunHandler, RunErrorHandler, SkipErrorHandler, StartThread, Finish
  <1>7. CASE PickupResult \/ ReadTrigger \/ \E c \in Conn : DoneReading(c) \/ FuncCheck(c)
    BY <1>1, <1>7 DEF PickupResult, ReadTrigger, DoneReading, FuncCheck
  <1>8. CASE \E w \in Worker : WorkerStep(w)
    BY <1>1, <1>8 DEF WorkerStep, Get, Act, Notify, Truncate
  <1>. QED
    BY <1>1, <1>2, <1>3, <1>4, <1>5, <1>6, <1>7, <1>8 DEF Next, MainLoop, vars

(* Each step keeps the account of the running messages.                     *)
LEMMA RunningNext == IInv /\ [Next]_vars => RunningAccounted'
  <1>. SUFFICES ASSUME IInv, [Next]_vars PROVE RunningAccounted'
    OBVIOUS
  <1>. USE DEF mainVars, countVars, poolVars
  <1>0. /\ running \in [Conn -> 0..MaxMsgs] /\ MaxMsgs \in Nat
        /\ resultQ \in Seq(Conn)
        /\ funcMap \subseteq Conn
        /\ RunningAccounted
    BY EngineAssumption DEF IInv, TypeOK
  <1>1. CASE UNCHANGED <<running, cur, funcMap, resultQ>>
    BY <1>0, <1>1 DEF RunningAccounted, Distinct, Elements
  <1>2. ASSUME NEW c \in Conn, StartThread(c) PROVE RunningAccounted'
    BY <1>0, <1>2, EngineAssumption DEF StartThread, InLink, RunningAccounted
  <1>3. ASSUME NEW c \in Conn, Finish(c) PROVE RunningAccounted'
    <2>1. /\ cur = c /\ cur' = None
          /\ resultQ' = Append(resultQ, c)
          /\ UNCHANGED <<running, funcMap>>
      BY <1>3 DEF Finish
    <2>2. c \notin Elements(resultQ)
      BY <1>0, <2>1 DEF RunningAccounted
    <2>3. Elements(resultQ') = Elements(resultQ) \cup {c} /\ Distinct(resultQ')
      BY <1>0, <2>1, <2>2, AppendElements DEF RunningAccounted
    <2>. QED
      BY <1>0, <2>1, <2>3, EngineAssumption DEF RunningAccounted
  <1>4. CASE PickupResult
    <2>. DEFINE c == Head(resultQ)
    <2>1. /\ cur = None /\ resultQ # <<>>
          /\ running' = [running EXCEPT ![c] = 0]
          /\ resultQ' = Tail(resultQ)
          /\ UNCHANGED <<cur, funcMap>>
      BY <1>4 DEF PickupResult, At
    <2>2. /\ c \in Conn /\ c \in Elements(resultQ)
          /\ Elements(resultQ') = Elements(resultQ) \ {c} /\ Distinct(resultQ')
      BY <1>0, <2>1, TailElements DEF RunningAccounted
    <2>. HIDE DEF c
    <2>. QED
      BY <1>0, <2>1, <2>2, EngineAssumption DEF RunningAccounted
  <1>5. CASE RunQueued
    <2>. DEFINE e == processingQ[i]
    <2>1. i \in 1..Len(processingQ)
      BY <1>5 DEF RunQueued, At, IInv, TypeOK, RunBound
    <2>2. e.conn \in Conn /\ e.num \in 1..MaxMsgs
      <3>1. e \in Queued
        BY <2>1 DEF IInv, TypeOK
      <3>. HIDE DEF e
      <3>. QED
        BY <3>1 DEF Queued
    <2>3. /\ cur = None /\ running[e.conn] = 0
          /\ running' = [running EXCEPT ![e.conn] = e.num]
          /\ cur' = e.conn
          /\ UNCHANGED <<resultQ, funcMap>>
      BY <1>5 DEF RunQueued, At
    <2>. HIDE DEF e
    <2>. QED
      BY <1>0, <2>2, <2>3, EngineAssumption DEF RunningAccounted
  <1>6. ASSUME NEW c \in Conn, Dispatch(c) PROVE RunningAccounted'
    <2>1. /\ cur = None
          /\ UNCHANGED <<resultQ, funcMap>>
          /\ \/ UNCHANGED <<running, cur>>
             \/ /\ running[c] = 0
                /\ running' = [running EXCEPT ![c] = arrived[c] + 1]
                /\ cur' = c
      BY <1>6, Zenon DEF Dispatch, At
    <2>2. arrived[c] \in Nat
      BY EngineAssumption DEF IInv, TypeOK
    <2>. QED
      BY <1>0, <1>1, <2>1, <2>2, EngineAssumption DEF RunningAccounted
  <1>7. ASSUME NEW c \in Conn, FuncCheck(c) PROVE RunningAccounted'
    <2>. DEFINE done == Polled(PoolOf[c])
    <2>1. /\ cur = None
          /\ UNCHANGED <<running, resultQ>>
          /\ \/ UNCHANGED <<funcMap, cur>>
             \/ /\ done[c] \in Outcome
                /\ funcMap' = funcMap \ {c}
                /\ cur' = c
      BY <1>7, Zenon DEF FuncCheck, At
    <2>2. done[c] \in Outcome => c \in funcMap
      <3>1. PoolOf[c] \in Pool
        BY EngineAssumption
      <3>2. CASE c \in Drained(PoolOf[c])
        BY <3>2 DEF Drained, IInv, RequestsAccounted, Outcome
      <3>3. CASE c \notin Drained(PoolOf[c])
        BY <3>1, <3>3, PolledTyped DEF IInv, RequestsAccounted, Outcome
      <3>. QED
        BY <3>2, <3>3
    <2>. HIDE DEF done
    <2>. QED
      BY <1>0, <1>1, <2>1, <2>2, EngineAssumption DEF RunningAccounted
  <1>8. CASE Process
    BY <1>1, <1>2, <1>3, <1>8 DEF Process, RunHandler, RunErrorHandler, SkipErrorHandler
  <1>9. CASE MainLoop
    BY <1>1, <1>4, <1>5, <1>6, <1>7, <1>9 DEF MainLoop, PickupEmpty, SkipQueued, RunDone,
       Select, ReadTrigger, IoDone, FuncsDone, DoneReading
  <1>10. CASE \E w \in Worker : WorkerStep(w)
    BY <1>1, <1>10 DEF WorkerStep, Get, Act, Notify, Truncate
  <1>. QED
    BY <1>1, <1>8, <1>9, <1>10 DEF Next, vars

-----------------------------------------------------------------------------
(* The requests of the watched handlers.                                    *)

(* A request put on a pool's queue is one more that waits.                  *)
LEMMA StartThreadRequests ==
  ASSUME IInv, NEW c \in Conn, StartThread(c)
  PROVE  RequestsAccounted'
  <1>. DEFINE p == PoolOf[c]
  <1>1. /\ p \in Pool
        /\ \A d \in Conn : PoolOf[d] \in Pool
        /\ requestsQueue \in [Pool -> Seq(Conn)]
        /\ handlerRet \in [Conn -> {"idle", "pending"} \cup Outcome]
        /\ workRequests \in [Pool -> SUBSET Conn]
    BY EngineAssumption DEF IInv, TypeOK
  <1>2. /\ requestsQueue' = [requestsQueue EXCEPT ![p] = Append(@, c)]
        /\ handlerRet' = [handlerRet EXCEPT ![c] = "pending"]
        /\ workRequests' = [workRequests EXCEPT ![p] = @ \cup {c}]
        /\ funcMap' = funcMap \cup {c}
        /\ UNCHANGED <<resultsQueue, worker>>
        /\ cur = c
    BY DEF StartThread, InLink
  <1>3. handlerRet[c] = "idle"
    BY <1>2 DEF IInv, RunningAccounted, RequestsAccounted
  <1>4. ~Waiting(c) /\ ~Executing(c) /\ ~Answered(c)
    BY <1>3 DEF IInv, RequestsAccounted
  <1>5. \A d \in Conn : Waiting(d) <=> d \in Elements(requestsQueue[PoolOf[d]])
    BY DEF Waiting, Elements
  <1>6. \A d \in Conn : Waiting(d)' <=> d \in Elements(requestsQueue'[PoolOf[d]])
    BY DEF Waiting, Elements
  <1>7. /\ Elements(requestsQueue'[p]) = Elements(requestsQueue[p]) \cup {c}
        /\ Distinct(requestsQueue'[p])
    BY <1>1, <1>2, <1>4, <1>5, AppendElements DEF IInv, RequestsAccounted
  <1>8. \A d \in Conn : Waiting(d)' <=> Waiting(d) \/ d = c
    BY <1>1, <1>2, <1>5, <1>6, <1>7
  <1>9. \A d \in Conn : (Executing(d)' <=> Executing(d)) /\ (Answered(d)' <=> Answered(d))
    BY <1>2 DEF Executing, Answered
  <1>10. \A q \in Pool : Distinct(requestsQueue'[q])
    BY <1>1, <1>2, <1>7 DEF IInv, RequestsAccounted
  <1>11. \A q \in Pool : \A j, k \in DOMAIN resultsQueue'[q] :
           j # k => resultsQueue'[q][j].conn # resultsQueue'[q][k].conn
    BY <1>2 DEF IInv, RequestsAccounted
  <1>12. \A v, w \in Worker :
           v # w /\ worker'[v].job # None => worker'[v].job # worker'[w].job
    BY <1>2 DEF IInv, RequestsAccounted
  <1>13. \A d \in Conn :
       /\ handlerRet'[d] = "pending" <=> Waiting(d)' \/ Executing(d)' \/ Answered(d)'
       /\ ~(Waiting(d)' /\ Executing(d)')
       /\ ~(Waiting(d)' /\ Answered(d)')
       /\ ~(Executing(d)' /\ Answered(d)')
    BY <1>1, <1>2, <1>4, <1>8, <1>9 DEF IInv, RequestsAccounted
  <1>14. \A d \in Conn :
       /\ handlerRet'[d] = "pending" <=> d \in workRequests'[PoolOf[d]]
       /\ handlerRet'[d] # "idle" <=> d \in funcMap'
    BY <1>1, <1>2 DEF IInv, RequestsAccounted
  <1>. QED
    BY <1>10, <1>11, <1>12, <1>13, <1>14 DEF RequestsAccounted

(* A worker that gets a request takes it off the queue.                     *)
LEMMA GetRequests ==
  ASSUME IInv, NEW w \in Worker, Get(w)
  PROVE  RequestsAccounted'
  <1>. DEFINE p == PoolOf[w]
              h == Head(requestsQueue[p])
  <1>1. /\ p \in Pool
        /\ \A d \in Conn : PoolOf[d] \in Pool
        /\ requestsQueue \in [Pool -> Seq(Conn)]
        /\ worker \in [Worker -> WorkerState]
        /\ None \notin Conn
    BY EngineAssumption DEF IInv, TypeOK
  <1>2. /\ requestsQueue[p] # <<>>
        /\ worker[w].at = "get"
        /\ worker' = [worker EXCEPT ![w] = [at |-> "act", job |-> h]]
        /\ requestsQueue' = [requestsQueue EXCEPT ![p] = Tail(@)]
        /\ UNCHANGED <<resultsQueue, handlerRet, workRequests, funcMap>>
    BY DEF Get
  <1>3. /\ h \in Conn /\ h \in Elements(requestsQueue[p])
        /\ Elements(requestsQueue'[p]) = Elements(requestsQueue[p]) \ {h}
        /\ Distinct(requestsQueue'[p])
    BY <1>1, <1>2, TailElements DEF IInv, RequestsAccounted
  <1>4. PoolOf[h] = p
    BY <1>1, <1>3 DEF IInv, OwnRequests, Elements
  <1>5. worker[w].job = None
    BY <1>2 DEF IInv, OwnRequests
  <1>. HIDE DEF h, p
  <1>6. \A d \in Conn : Waiting(d) <=> d \in Elements(requestsQueue[PoolOf[d]])
    BY DEF Waiting, Elements
  <1>7. \A d \in Conn : Waiting(d)' <=> d \in Elements(requestsQueue'[PoolOf[d]])
    BY DEF Waiting, Elements
  <1>8. Waiting(h) /\ ~Executing(h) /\ ~Answered(h)
    BY <1>3, <1>4, <1>6 DEF IInv, RequestsAccounted
  <1>9. \A d \in Conn : Waiting(d)' <=> Waiting(d) /\ d # h
    BY <1>1, <1>2, <1>3, <1>4, <1>6, <1>7
  <1>10. \A d \in Conn : Executing(d)' <=> Executing(d) \/ d = h
    BY <1>1, <1>2, <1>5 DEF Executing
  <1>11. \A d \in Conn : Answered(d)' <=> Answered(d)
    BY <1>2 DEF Answered
  <1>12. \A q \in Pool : Distinct(requestsQueue'[q])
    BY <1>1, <1>2, <1>3 DEF IInv, RequestsAccounted
  <1>13. \A q \in Pool : \A j, k \in DOMAIN resultsQueue'[q] :
           j # k => resultsQueue'[q][j].conn # resultsQueue'[q][k].conn
    BY <1>2 DEF IInv, RequestsAccounted
  <1>14. \A u, v \in Worker :
           u # v /\ worker'[u].job # None => worker'[u].job # worker'[v].job
    BY <1>1, <1>2, <1>3, <1>8 DEF IInv, RequestsAccounted, Executing
  <1>15. \A d \in Conn :
       /\ handlerRet'[d] = "pending" <=> Waiting(d)' \/ Executing(d)' \/ Answered(d)'
       /\ ~(Waiting(d)' /\ Executing(d)')
       /\ ~(Waiting(d)' /\ Answered(d)')
       /\ ~(Executing(d)' /\ Answered(d)')
    BY <1>2, <1>8, <1>9, <1>10, <1>11 DEF IInv, RequestsAccounted
  <1>16. \A d \in Conn :
       /\ handlerRet'[d] = "pending" <=> d \in workRequests'[PoolOf[d]]
       /\ handlerRet'[d] # "idle" <=> d \in funcMap'
    BY <1>2 DEF IInv, RequestsAccounted
  <1>. QED
    BY <1>12, <1>13, <1>14, <1>15, <1>16 DEF RequestsAccounted

(* A worker that has executed its request answers it.                       *)
LEMMA ActRequests ==
  ASSUME IInv, NEW w \in Worker, Act(w)
  PROVE  RequestsAccounted'
  <1>. DEFINE p == PoolOf[w]
              c == worker[w].job
  <1>1. /\ p \in Pool
        /\ \A d \in Conn : PoolOf[d] \in Pool
        /\ resultsQueue \in [Pool -> Seq(Result)]
        /\ worker \in [Worker -> WorkerState]
        /\ None \notin Conn
    BY EngineAssumption DEF IInv, TypeOK
  <1>2. PICK e \in Effects[Current(chain[c])] :
          resultsQueue' = [resultsQueue EXCEPT ![p] = Append(@, [conn |-> c, ret |-> e.out])]
    BY Zenon DEF Act
  <1>3. /\ worker[w].at = "act"
        /\ worker' = [worker EXCEPT ![w] = [at |-> "notify", job |-> None]]
        /\ UNCHANGED <<requestsQueue, handlerRet, workRequests, funcMap>>
    BY DEF Act
  <1>4. c \in Conn /\ PoolOf[c] = p
    BY <1>1, <1>3 DEF IInv, OwnRequests, WorkerState
  <1>5. Executing(c) /\ ~Waiting(c) /\ ~Answered(c)
    BY <1>4 DEF IInv, RequestsAccounted, Executing
  <1>. DEFINE r == [conn |-> c, ret |-> e.out]
              n == Len(resultsQueue[p])
  <1>6. /\ n \in Nat
        /\ DOMAIN resultsQueue[p] = 1..n
        /\ DOMAIN resultsQueue'[p] = 1..(n + 1)
        /\ resultsQueue'[p][n + 1] = r
        /\ r.conn = c
        /\ \A k \in 1..n : resultsQueue'[p][k] = resultsQueue[p][k]
        /\ \A q \in Pool \ {p} : resultsQueue'[q] = resultsQueue[q]
    BY <1>1, <1>2
  <1>. HIDE DEF r, n, c, p
  <1>7. \A d \in Conn : Answered(d)' <=> Answered(d) \/ d = c
    <2>. SUFFICES ASSUME NEW d \in Conn PROVE Answered(d)' <=> Answered(d) \/ d = c
      OBVIOUS
    <2>1. CASE PoolOf[d] # p
      BY <1>1, <1>4, <1>6, <2>1 DEF Answered
    <2>2. CASE PoolOf[d] = p
      <3>1. ASSUME Answered(d) PROVE Answered(d)'
        BY <1>6, <2>2, <3>1 DEF Answered
      <3>2. ASSUME d = c PROVE Answered(d)'
        <4>1. n + 1 \in DOMAIN resultsQueue'[p]
          BY <1>6
        <4>. QED
          BY <1>6, <2>2, <3>2, <4>1 DEF Answered
      <3>3. ASSUME Answered(d)' PROVE Answered(d) \/ d = c
        BY <1>6, <2>2, <3>3 DEF Answered
      <3>. QED
        BY <3>1, <3>2, <3>3
    <2>. QED
      BY <2>1, <2>2
  <1>8. \A d \in Conn : Executing(d)' <=> Executing(d) /\ d # c
    BY <1>1, <1>3, <1>4 DEF Executing, IInv, RequestsAccounted, c
  <1>9. \A d \in Conn : Waiting(d)' <=> Waiting(d)
    BY <1>3 DEF Waiting
  <1>10. \A q \in Pool : Distinct(requestsQueue'[q])
    BY <1>3 DEF IInv, RequestsAccounted
  <1>11. \A q \in Pool : \A j, k \in DOMAIN resultsQueue'[q] :
           j # k => resultsQueue'[q][j].conn # resultsQueue'[q][k].conn
    <2>1. \A k \in 1..n : resultsQueue[p][k].conn # c
      BY <1>4, <1>5, <1>6 DEF Answered
    <2>2. \A j, k \in DOMAIN resultsQueue'[p] :
            j # k => resultsQueue'[p][j].conn # resultsQueue'[p][k].conn
      BY <1>1, <1>6, <2>1 DEF IInv, RequestsAccounted
    <2>. QED
      BY <1>6, <2>2 DEF IInv, RequestsAccounted
  <1>12. \A u, v \in Worker :
           u # v /\ worker'[u].job # None => worker'[u].job # worker'[v].job
    BY <1>1, <1>3 DEF IInv, RequestsAccounted
  <1>13. \A d \in Conn :
       /\ handlerRet'[d] = "pending" <=> Waiting(d)' \/ Executing(d)' \/ Answered(d)'
       /\ ~(Waiting(d)' /\ Executing(d)')
       /\ ~(Waiting(d)' /\ Answered(d)')
       /\ ~(Executing(d)' /\ Answered(d)')
    BY <1>3, <1>5, <1>7, <1>8, <1>9 DEF IInv, RequestsAccounted
  <1>14. \A d \in Conn :
       /\ handlerRet'[d] = "pending" <=> d \in workRequests'[PoolOf[d]]
       /\ handlerRet'[d] # "idle" <=> d \in funcMap'
    BY <1>3 DEF IInv, RequestsAccounted
  <1>. QED
    BY <1>10, <1>11, <1>12, <1>13, <1>14 DEF RequestsAccounted

(* A poll of the pool settles every request it finds answered, the handler's*)
(* own among them or not.                                                   *)
LEMMA FuncCheckRequests ==
  ASSUME IInv, NEW c \in Conn, FuncCheck(c)
  PROVE  RequestsAccounted'
  <1>. DEFINE p == PoolOf[c]
              done == Polled(p)
              found == Drained(p)
  <1>1. /\ p \in Pool
        /\ \A d \in Conn : PoolOf[d] \in Pool
        /\ resultsQueue \in [Pool -> Seq(Result)]
        /\ workRequests \in [Pool -> SUBSET Conn]
    BY EngineAssumption DEF IInv, TypeOK
  <1>2. /\ resultsQueue' = [resultsQueue EXCEPT ![p] = <<>>]
        /\ workRequests' = [workRequests EXCEPT ![p] = @ \ found]
        /\ UNCHANGED <<requestsQueue, worker>>
        /\ \/ /\ done[c] = "pending"
              /\ handlerRet' = done
              /\ UNCHANGED funcMap
           \/ /\ done[c] \in Outcome
              /\ handlerRet' = [done EXCEPT ![c] = "idle"]
              /\ funcMap' = funcMap \ {c}
    BY Zenon DEF FuncCheck
  <1>3. /\ done \in [Conn -> {"idle", "pending"} \cup Outcome]
        /\ \A d \in found : done[d] \in Outcome
        /\ \A d \in Conn \ found : done[d] = handlerRet[d]
    BY <1>1, PolledTyped DEF IInv
  <1>4. \A d \in Conn : d \in found <=> Answered(d) /\ PoolOf[d] = p
    BY <1>1 DEF Drained, Answered, IInv, RequestsAccounted, OwnRequests
  <1>5. \A d \in found : handlerRet[d] = "pending" /\ d \in Conn /\ d \in funcMap
    BY <1>1, <1>4 DEF Drained, IInv, RequestsAccounted
  <1>6. {"idle", "pending"} \cap Outcome = {}
    BY DEF Outcome
  <1>. HIDE DEF p, done, found
  <1>7. \A d \in Conn : Answered(d)' <=> Answered(d) /\ d \notin found
    BY <1>1, <1>2, <1>4 DEF Answered
  <1>8. \A d \in Conn : (Waiting(d)' <=> Waiting(d)) /\ (Executing(d)' <=> Executing(d))
    BY <1>2 DEF Waiting, Executing
  <1>9. \A d \in Conn : handlerRet'[d] = "pending" <=> handlerRet[d] = "pending" /\ d \notin found
    BY <1>2, <1>3, <1>5, <1>6
  <1>10. \A d \in Conn : handlerRet'[d] # "idle" <=> d \in funcMap'
    <2>1. \A d \in Conn : done[d] # "idle" <=> d \in funcMap
      BY <1>3, <1>5, <1>6 DEF IInv, RequestsAccounted
    <2>. QED
      BY <1>2, <1>3, <2>1
  <1>11. \A d \in Conn : d \in workRequests'[PoolOf[d]] <=> d \in workRequests[PoolOf[d]] /\ d \notin found
    BY <1>1, <1>2, <1>4
  <1>12. \A q \in Pool : Distinct(requestsQueue'[q])
    BY <1>2 DEF IInv, RequestsAccounted
  <1>13. \A q \in Pool : \A j, k \in DOMAIN resultsQueue'[q] :
           j # k => resultsQueue'[q][j].conn # resultsQueue'[q][k].conn
    BY <1>1, <1>2 DEF IInv, RequestsAccounted
  <1>14. \A u, v \in Worker :
           u # v /\ worker'[u].job # None => worker'[u].job # worker'[v].job
    BY <1>2 DEF IInv, RequestsAccounted
  <1>15. \A d \in Conn :
       /\ handlerRet'[d] = "pending" <=> Waiting(d)' \/ Executing(d)' \/ Answered(d)'
       /\ ~(Waiting(d)' /\ Executing(d)')
       /\ ~(Waiting(d)' /\ Answered(d)')
       /\ ~(Executing(d)' /\ Answered(d)')
    BY <1>4, <1>7, <1>8, <1>9 DEF IInv, RequestsAccounted
  <1>16. \A d \in Conn : handlerRet'[d] = "pending" <=> d \in workRequests'[PoolOf[d]]
    BY <1>9, <1>11 DEF IInv, RequestsAccounted
  <1>. QED
    BY <1>10, <1>12, <1>13, <1>14, <1>15, <1>16 DEF RequestsAccounted

(* Each step keeps the account of the requests.                             *)
LEMMA RequestsNext == IInv /\ [Next]_vars => RequestsAccounted'
  <1>. SUFFICES ASSUME IInv, [Next]_vars PROVE RequestsAccounted'
    OBVIOUS
  <1>. USE DEF mainVars, countVars, poolVars
  <1>1. CASE /\ UNCHANGED <<requestsQueue, resultsQueue, workRequests, handlerRet, funcMap>>
             /\ \A w \in Worker : worker'[w].job = worker[w].job
    <2>1. \A d \in Conn :
            /\ Waiting(d)' <=> Waiting(d)
            /\ Executing(d)' <=> Executing(d)
            /\ Answered(d)' <=> Answered(d)
      <3>1. \A d \in Conn : Executing(d)' <=> Executing(d)
        BY <1>1 DEF Executing
      <3>2. \A d \in Conn : (Waiting(d)' <=> Waiting(d)) /\ (Answered(d)' <=> Answered(d))
        BY <1>1 DEF Waiting, Answered
      <3>. QED
        BY <3>1, <3>2
    <2>2. /\ \A p \in Pool :
               /\ Distinct(requestsQueue'[p])
               /\ \A j, k \in DOMAIN resultsQueue'[p] :
                    j # k => resultsQueue'[p][j].conn # resultsQueue'[p][k].conn
          /\ \A v, w \in Worker :
               v # w /\ worker'[v].job # None => worker'[v].job # worker'[w].job
      BY <1>1 DEF IInv, RequestsAccounted
    <2>. QED
      BY <1>1, <2>1, <2>2 DEF IInv, RequestsAccounted
  <1>2. CASE Process
    BY <1>1, <1>2, StartThreadRequests DEF Process, RunHandler, RunErrorHandler,
       SkipErrorHandler, Finish
  <1>3. CASE MainLoop
    BY <1>1, <1>3, FuncCheckRequests DEF MainLoop, PickupResult, PickupEmpty, RunQueued,
       SkipQueued, RunDone, Select, ReadTrigger, IoDone, FuncsDone, DoneReading, Dispatch
  <1>4. ASSUME NEW w \in Worker, Notify(w) \/ Truncate(w) PROVE RequestsAccounted'
    <2>1. \A v \in Worker : worker'[v].job = worker[v].job
      <3>1. worker \in [Worker -> WorkerState]
        BY DEF IInv, TypeOK
      <3>2. \E to \in {"truncate", "get"} : worker' = [worker EXCEPT ![w].at = to]
        BY <1>4, Zenon DEF Notify, Truncate
      <3>. QED
        BY <3>1, <3>2 DEF WorkerState
    <2>. QED
      BY <1>1, <1>4, <2>1 DEF Notify, Truncate
  <1>5. CASE \E w \in Worker : WorkerStep(w)
    BY <1>4, <1>5, GetRequests, ActRequests DEF WorkerStep
  <1>6. CASE UNCHANGED vars
    BY <1>1, <1>6 DEF vars
  <1>. QED
    BY <1>2, <1>3, <1>5, <1>6 DEF Next

(* Each step keeps the requests in the pool of their server.                *)
LEMMA OwnNext == IInv /\ [Next]_vars => OwnRequests'
  <1>. SUFFICES ASSUME IInv, [Next]_vars PROVE OwnRequests'
    OBVIOUS
  <1>. USE DEF mainVars, countVars, poolVars
  <1>0. /\ \A x \in Conn \cup Worker : PoolOf[x] \in Pool
        /\ requestsQueue \in [Pool -> Seq(Conn)]
        /\ workRequests \in [Pool -> SUBSET Conn]
        /\ resultsQueue \in [Pool -> Seq(Result)]
        /\ worker \in [Worker -> WorkerState]
        /\ None \notin Conn
        /\ OwnRequests
    BY EngineAssumption DEF IInv, TypeOK
  <1>1. CASE UNCHANGED <<poolVars, worker>>
    BY <1>0, <1>1 DEF OwnRequests
  <1>2. ASSUME NEW c \in Conn, StartThread(c) PROVE OwnRequests'
    <2>. DEFINE p == PoolOf[c]
                q == requestsQueue[p]
    <2>1. /\ requestsQueue' = [requestsQueue EXCEPT ![p] = Append(q, c)]
          /\ workRequests' = [workRequests EXCEPT ![p] = @ \cup {c}]
          /\ UNCHANGED <<resultsQueue, worker>>
      BY <1>2 DEF StartThread
    <2>2. /\ DOMAIN Append(q, c) = 1..(Len(q) + 1) /\ DOMAIN q = 1..Len(q)
          /\ \A k \in 1..(Len(q) + 1) : Append(q, c)[k] = IF k <= Len(q) THEN q[k] ELSE c
      BY <1>0
    <2>3. \A k \in DOMAIN Append(q, c) : PoolOf[Append(q, c)[k]] = p
      BY <1>0, <2>2 DEF OwnRequests
    <2>. HIDE DEF p, q
    <2>4. \A r \in Pool : \A k \in DOMAIN requestsQueue'[r] : PoolOf[requestsQueue'[r][k]] = r
      BY <1>0, <2>1, <2>3 DEF OwnRequests
    <2>5. \A r \in Pool : \A d \in workRequests'[r] : PoolOf[d] = r
      BY <1>0, <2>1 DEF OwnRequests, p
    <2>. QED
      BY <1>0, <2>1, <2>4, <2>5 DEF OwnRequests
  <1>3. ASSUME NEW c \in Conn, FuncCheck(c) PROVE OwnRequests'
    <2>1. /\ resultsQueue' = [resultsQueue EXCEPT ![PoolOf[c]] = <<>>]
          /\ workRequests' = [workRequests EXCEPT ![PoolOf[c]] = @ \ Drained(PoolOf[c])]
          /\ UNCHANGED <<requestsQueue, worker>>
      BY <1>3 DEF FuncCheck
    <2>. QED
      BY <1>0, <2>1 DEF OwnRequests
  <1>4. ASSUME NEW w \in Worker, Get(w) PROVE OwnRequests'
    <2>. DEFINE p == PoolOf[w]
                q == requestsQueue[p]
    <2>1. /\ q # <<>>
          /\ worker' = [worker EXCEPT ![w] = [at |-> "act", job |-> Head(q)]]
          /\ requestsQueue' = [requestsQueue EXCEPT ![p] = Tail(q)]
          /\ UNCHANGED <<resultsQueue, workRequests>>
      BY <1>4 DEF Get
    <2>2. /\ p \in Pool /\ q \in Seq(Conn)
          /\ Head(q) = q[1] /\ Head(q) \in Conn /\ 1 \in DOMAIN q
          /\ \A k \in DOMAIN Tail(q) : k + 1 \in DOMAIN q /\ Tail(q)[k] = q[k + 1]
      BY <1>0, <2>1
    <2>3. PoolOf[Head(q)] = p /\ \A k \in DOMAIN Tail(q) : PoolOf[Tail(q)[k]] = p
      BY <1>0, <2>2 DEF OwnRequests
    <2>. HIDE DEF q
    <2>4. \A v \in Worker :
            /\ worker'[v].at = "act" <=> worker'[v].job # None
            /\ worker'[v].job # None => PoolOf[worker'[v].job] = PoolOf[v]
      BY <1>0, <2>1, <2>2, <2>3 DEF OwnRequests
    <2>. HIDE DEF p
    <2>5. \A r \in Pool : \A k \in DOMAIN requestsQueue'[r] : PoolOf[requestsQueue'[r][k]] = r
      BY <1>0, <2>1, <2>2, <2>3 DEF OwnRequests
    <2>. QED
      BY <1>0, <2>1, <2>4, <2>5 DEF OwnRequests
  <1>5. ASSUME NEW w \in Worker, Act(w) PROVE OwnRequests'
    <2>. DEFINE p == PoolOf[w]
                c == worker[w].job
                q == resultsQueue[p]
    <2>1. PICK e \in Effects[Current(chain[c])] :
            resultsQueue' = [resultsQueue EXCEPT ![p] = Append(q, [conn |-> c, ret |-> e.out])]
      BY <1>5, Zenon DEF Act
    <2>2. /\ worker[w].at = "act"
          /\ worker' = [worker EXCEPT ![w] = [at |-> "notify", job |-> None]]
          /\ UNCHANGED <<requestsQueue, workRequests>>
      BY <1>5 DEF Act
    <2>3. PoolOf[c] = p /\ p \in Pool /\ q \in Seq(Result)
      BY <1>0, <2>2 DEF OwnRequests
    <2>. DEFINE r == [conn |-> c, ret |-> e.out]
    <2>4. /\ DOMAIN Append(q, r) = 1..(Len(q) + 1) /\ DOMAIN q = 1..Len(q)
          /\ \A k \in 1..(Len(q) + 1) : Append(q, r)[k] = IF k <= Len(q) THEN q[k] ELSE r
      BY <2>3
    <2>5. r.conn = c
      OBVIOUS
    <2>. HIDE DEF r
    <2>6. \A k \in DOMAIN Append(q, r) : PoolOf[Append(q, r)[k].conn] = p
      <3>1. \A k \in 1..Len(q) : PoolOf[q[k].conn] = p
        BY <1>0, <2>3, <2>4 DEF OwnRequests
      <3>. HIDE DEF p, q, c
      <3>2. Len(q) \in Nat
        BY <2>3
      <3>. QED
        BY <2>3, <2>4, <2>5, <3>1, <3>2
    <2>7. \A v \in Worker :
            /\ worker'[v].at = "act" <=> worker'[v].job # None
            /\ worker'[v].job # None => PoolOf[worker'[v].job] = PoolOf[v]
      BY <1>0, <2>2 DEF OwnRequests
    <2>8. \A s \in Pool : \A k \in DOMAIN resultsQueue'[s] : PoolOf[resultsQueue'[s][k].conn] = s
      <3>1. resultsQueue' = [resultsQueue EXCEPT ![p] = Append(q, r)]
        BY <2>1 DEF r
      <3>. HIDE DEF p, q
      <3>. QED
        BY <1>0, <2>6, <3>1 DEF OwnRequests
    <2>. QED
      BY <1>0, <2>2, <2>7, <2>8 DEF OwnRequests
  <1>6. ASSUME NEW w \in Worker, Notify(w) \/ Truncate(w) PROVE OwnRequests'
    <2>1. /\ UNCHANGED poolVars
          /\ worker[w].at # "act"
          /\ \E to \in {"truncate", "get"} : worker' = [worker EXCEPT ![w].at = to]
      BY <1>6, Zenon DEF Notify, Truncate
    <2>2. \A v \in Worker :
            /\ worker'[v].at = "act" <=> worker'[v].job # None
            /\ worker'[v].job # None => PoolOf[worker'[v].job] = PoolOf[v]
      BY <1>0, <2>1 DEF OwnRequests, WorkerState
    <2>. QED
      BY <1>0, <2>1, <2>2 DEF OwnRequests
  <1>7. CASE Process
    BY <1>1, <1>2, <1>7 DEF Process, RunHandler, RunErrorHandler, SkipErrorHandler, Finish
  <1>8. CASE MainLoop
    BY <1>1, <1>3, <1>8 DEF MainLoop, PickupResult, PickupEmpty, RunQueued, SkipQueued,
       RunDone, Select, ReadTrigger, IoDone, FuncsDone, DoneReading, Dispatch
  <1>9. CASE \E w \in Worker : WorkerStep(w)
    BY <1>4, <1>5, <1>6, <1>9 DEF WorkerStep
  <1>10. CASE UNCHANGED vars
    BY <1>1, <1>10 DEF vars
  <1>. QED
    BY <1>7, <1>8, <1>9, <1>10 DEF Next

-----------------------------------------------------------------------------
(* The handler a connection waits for stays the current one of its message. *)

LEMMA WatchedNext == IInv /\ [Next]_vars => Watched'
  <1>. SUFFICES ASSUME IInv, [Next]_vars PROVE Watched'
    OBVIOUS
  <1>. USE DEF mainVars, countVars, poolVars
  <1>0. /\ chain \in [Conn -> Message]
        /\ funcMap \subseteq Conn
        /\ None \notin Conn
        /\ RunningAccounted
        /\ Watched
    BY EngineAssumption DEF IInv, TypeOK
  <1>1. CASE UNCHANGED <<chain, funcMap>>
    BY <1>0, <1>1 DEF Watched
  <1>2. ASSUME NEW c \in Conn, c \notin funcMap, UNCHANGED funcMap,
               NEW m, chain' = [chain EXCEPT ![c] = m]
        PROVE  Watched'
    BY <1>0, <1>2 DEF Watched
  <1>3. ASSUME NEW c \in Conn, RunHandler(c) \/ RunErrorHandler(c) \/ SkipErrorHandler(c)
        PROVE  Watched'
    <2>1. cur = c /\ UNCHANGED funcMap
      BY <1>3 DEF RunHandler, RunErrorHandler, SkipErrorHandler, InLink
    <2>2. c \notin funcMap
      BY <1>0, <2>1 DEF RunningAccounted
    <2>3. PICK m : chain' = [chain EXCEPT ![c] = m]
      BY <1>3, Zenon DEF RunHandler, RunErrorHandler, SkipErrorHandler
    <2>. QED
      BY <1>2, <2>1, <2>2, <2>3
  <1>4. ASSUME NEW c \in Conn, StartThread(c) PROVE Watched'
    <2>1. /\ chain' = [chain EXCEPT ![c] = Started(AtLink(@))]
          /\ funcMap' = funcMap \cup {c}
          /\ Current(AtLink(chain[c])) \in Threaded
          /\ ~AtEnd(chain[c])
      BY <1>4 DEF StartThread, InLink
    <2>2. Current(Started(AtLink(chain[c]))) \in Threaded
      BY <1>0, <2>1, AtLinkTyped, StartedTyped
    <2>. QED
      BY <1>0, <2>1, <2>2 DEF Watched
  <1>5. CASE PickupResult
    <2>1. /\ resultQ \in Seq(Conn) /\ resultQ # <<>>
          /\ chain' = [chain EXCEPT ![Head(resultQ)] = NoMessage]
          /\ UNCHANGED funcMap
      BY <1>5 DEF PickupResult, IInv, TypeOK
    <2>2. Head(resultQ) \in Elements(resultQ) /\ Head(resultQ) \in Conn
      BY <1>0, <2>1, TailElements DEF RunningAccounted
    <2>. QED
      BY <1>0, <1>2, <2>1, <2>2 DEF RunningAccounted
  <1>6. CASE RunQueued
    <2>1. i \in 1..Len(processingQ) /\ processingQ \in Seq(Queued)
      BY <1>6 DEF RunQueued, At, IInv, TypeOK, RunBound
    <2>2. processingQ[i] \in Queued
      BY <2>1
    <2>3. processingQ[i].conn \in Conn
      BY <2>2 DEF Queued
    <2>4. /\ running[processingQ[i].conn] = 0
          /\ chain' = [chain EXCEPT ![processingQ[i].conn] = processingQ[i].msg]
          /\ UNCHANGED funcMap
      BY <1>6 DEF RunQueued
    <2>. QED
      BY <1>0, <1>2, <2>3, <2>4 DEF RunningAccounted
  <1>7. ASSUME NEW c \in Conn, Dispatch(c) PROVE Watched'
    <2>1. \/ UNCHANGED <<chain, funcMap>>
          \/ /\ running[c] = 0
             /\ UNCHANGED funcMap
             /\ \E m : chain' = [chain EXCEPT ![c] = m]
      BY <1>7, Zenon DEF Dispatch
    <2>. QED
      BY <1>0, <1>1, <1>2, <2>1 DEF RunningAccounted
  <1>8. ASSUME NEW c \in Conn, FuncCheck(c) PROVE Watched'
    <2>1. \/ UNCHANGED <<chain, funcMap>>
          \/ /\ funcMap' = funcMap \ {c}
             /\ \E m : chain' = [chain EXCEPT ![c] = m]
      BY <1>8, Zenon DEF FuncCheck
    <2>. QED
      BY <1>0, <1>1, <2>1 DEF Watched
  <1>9. ASSUME NEW w \in Worker, Act(w) PROVE Watched'
    <2>. DEFINE c == worker[w].job
    <2>1. PICK e \in Effects[Current(chain[c])] : chain' = [chain EXCEPT ![c] = Touched(@, e)]
      BY <1>9, Zenon DEF Act
    <2>2. UNCHANGED funcMap
      BY <1>9 DEF Act
    <2>3. c \in Conn
      BY <1>9 DEF Act, IInv, TypeOK, WorkerState, OwnRequests
    <2>4. c \in funcMap
      BY <2>3 DEF IInv, RequestsAccounted, Executing
    <2>5. e \in Effect
      <3>1. Current(chain[c]) \in Handler
        BY <1>0, <2>4, HandlerAssumption DEF Watched
      <3>. QED
        BY <3>1, HandlerAssumption
    <2>6. Current(Touched(chain[c], e)) = Current(chain[c])
      BY <1>0, <2>3, <2>5, TouchedTyped
    <2>. HIDE DEF c
    <2>. QED
      BY <1>0, <2>1, <2>2, <2>3, <2>6 DEF Watched
  <1>10. CASE Process
    BY <1>1, <1>3, <1>4, <1>10 DEF Process, Finish
  <1>11. CASE MainLoop
    BY <1>1, <1>5, <1>6, <1>7, <1>8, <1>11 DEF MainLoop, PickupEmpty, SkipQueued, RunDone,
       Select, ReadTrigger, IoDone, FuncsDone, DoneReading
  <1>12. CASE \E w \in Worker : WorkerStep(w)
    BY <1>1, <1>9, <1>12 DEF WorkerStep, Get, Notify, Truncate
  <1>13. CASE UNCHANGED vars
    BY <1>1, <1>13 DEF vars
  <1>. QED
    BY <1>10, <1>11, <1>12, <1>13 DEF Next

-----------------------------------------------------------------------------
(* The invariant holds at the start, and always.                            *)

LEMMA IInvInit == Init => IInv
  <1>. SUFFICES ASSUME Init PROVE IInv
    OBVIOUS
  <1>1. TypeOK
    BY TypeInit
  <1>2. RunBound
    BY DEF Init, RunBound
  <1>3. RunningAccounted
    BY EngineAssumption DEF Init, RunningAccounted, Elements, Distinct
  <1>4. RequestsAccounted
    <2>1. \A c \in Conn : PoolOf[c] \in Pool
      BY EngineAssumption
    <2>2. \A c \in Conn : ~Waiting(c) /\ ~Executing(c) /\ ~Answered(c)
      BY <2>1, EngineAssumption DEF Init, Waiting, Executing, Answered
    <2>. QED
      BY <2>1, <2>2 DEF Init, RequestsAccounted, Distinct
  <1>5. OwnRequests
    BY DEF Init, OwnRequests
  <1>6. Watched
    BY DEF Init, Watched
  <1>. QED
    BY <1>1, <1>2, <1>3, <1>4, <1>5, <1>6 DEF IInv

(* IInv, the strengthening that the four invariants below are read off from, *)
(* holds of the main loop, the message queue and the thread pools together.  *)
THEOREM Invariance == Safety => []IInv
  <1>1. Init => IInv
    BY IInvInit
  <1>2. IInv /\ [Next]_vars => IInv'
    BY TypeNext, RunBoundNext, RunningNext, RequestsNext, OwnNext, WatchedNext DEF IInv
  <1>. QED
    BY <1>1, <1>2, PTL DEF Safety

(* Every variable of the engine keeps its type.                             *)
THEOREM TypeCorrect == Safety => []TypeOK
  BY Invariance, PTL DEF IInv

(* A running message is with process(), with one watched handler, or on     *)
(* resultQ, and nowhere else.                                               *)
THEOREM RunningCorrect == Safety => []RunningAccounted
  BY Invariance, PTL DEF IInv

(* The request of a watched handler is queued, being executed or answered,  *)
(* exactly one of them, until the handler is done.                          *)
THEOREM RequestsCorrect == Safety => []RequestsAccounted
  BY Invariance, PTL DEF IInv

-----------------------------------------------------------------------------
(* The order of the messages.  While the queue is scanned, the entries left *)
(* behind belong to running messages; and no message runs or is retired     *)
(* before it has arrived.                                                   *)
Scanned ==
  pc = "run" => \A k \in DOMAIN processingQ : k < i => running[processingQ[k].conn] # 0

Counted == \A c \in Conn : retired[c] <= arrived[c] /\ running[c] <= arrived[c]

OrderInv == NoneOvertaken /\ Scanned /\ Counted /\ InOrder

(* Where the queue and what runs are left alone, the order is.              *)
LEMMA OrderUnchanged ==
  ASSUME InOrder, Counted, UNCHANGED <<processingQ, running, arrived, retired>>
  PROVE  InOrder' /\ Counted'
  <1>1. \A c \in Conn : Numbers(c)' = Numbers(c)
    BY DEF Numbers
  <1>. QED
    BY <1>1 DEF InOrder, Counted

(* A picked up result retires the message that ran.                         *)
LEMMA PickupOrder ==
  ASSUME IInv, OrderInv, PickupResult
  PROVE  OrderInv'
  <1>. DEFINE c == Head(resultQ)
  <1>1. /\ pc = "pickup"
        /\ running' = [running EXCEPT ![c] = 0]
        /\ retired' = [retired EXCEPT ![c] = @ + 1]
        /\ UNCHANGED <<pc, i, arrived, processingQ>>
    BY DEF PickupResult, At, mainVars
  <1>2. c \in Conn /\ c \in Elements(resultQ)
    BY TailElements DEF PickupResult, IInv, TypeOK, RunningAccounted
  <1>3. running[c] # 0
    BY <1>2 DEF IInv, RunningAccounted
  <1>4. /\ running \in [Conn -> 0..MaxMsgs] /\ MaxMsgs \in Nat
        /\ retired \in [Conn -> Nat] /\ arrived \in [Conn -> 0..MaxMsgs]
    BY EngineAssumption DEF IInv, TypeOK
  <1>. HIDE DEF c
  <1>5. \A d \in Conn : Numbers(d)' = Numbers(d)
    BY <1>1 DEF Numbers
  <1>6. running[c] = retired[c] + 1
    BY <1>2, <1>3 DEF OrderInv, InOrder
  <1>7. Counted'
    BY <1>1, <1>2, <1>4, <1>6 DEF OrderInv, Counted
  <1>8. \A d \in Conn :
          /\ running'[d] \in {0, retired'[d] + 1}
          /\ Numbers(d)' = (IF running'[d] # 0 THEN retired'[d] + 2
                                               ELSE retired'[d] + 1)..arrived'[d]
    <2>1. \A d \in Conn \ {c} : running'[d] = running[d] /\ retired'[d] = retired[d]
      BY <1>1, <1>4
    <2>2. running'[c] = 0 /\ retired'[c] + 1 = retired[c] + 2
      BY <1>1, <1>2, <1>4
    <2>. QED
      BY <1>1, <1>2, <1>3, <1>5, <2>1, <2>2 DEF OrderInv, InOrder
  <1>9. InOrder'
    BY <1>1, <1>8 DEF OrderInv, InOrder
  <1>. QED
    BY <1>1, <1>7, <1>9 DEF OrderInv, NoneOvertaken, Scanned

(* A message that is taken off the queue is the next one of its connection. *)
LEMMA RunQueuedOrder ==
  ASSUME IInv, OrderInv, RunQueued
  PROVE  /\ OrderInv'
         /\ processingQ[i].num = retired[processingQ[i].conn] + 1
         /\ processingQ[i].conn \in Conn
  <1>. DEFINE e == processingQ[i]
              n == Len(processingQ)
              q == processingQ
  <1>1. /\ pc = "run"
        /\ running[e.conn] = 0
        /\ running' = [running EXCEPT ![e.conn] = e.num]
        /\ q' = Without(q, i)
        /\ UNCHANGED <<pc, i, arrived, retired>>
    BY DEF RunQueued, At, countVars
  <1>2. q \in Seq(Queued) /\ i \in 1..n /\ n \in Nat /\ DOMAIN q = 1..n
    BY DEF RunQueued, At, IInv, TypeOK, RunBound
  <1>3. /\ DOMAIN q' = 1..(n - 1)
        /\ \A j \in 1..(n - 1) : q'[j] = IF j < i THEN q[j] ELSE q[j + 1]
    BY <1>1, <1>2, WithoutTyped
  <1>4. \A k \in 1..n : q[k] \in Queued
    BY <1>2
  <1>5. /\ running \in [Conn -> 0..MaxMsgs] /\ MaxMsgs \in Nat
        /\ retired \in [Conn -> Nat] /\ arrived \in [Conn -> 0..MaxMsgs]
    BY EngineAssumption DEF IInv, TypeOK
  <1>6. \A k \in 1..n : q[k].conn \in Conn /\ q[k].num \in 1..MaxMsgs
    <2>. TAKE k \in 1..n
    <2>1. q[k] \in Queued
      BY <1>4
    <2>. QED
      BY <2>1 DEF Queued
  <1>7. e.conn \in Conn /\ e.num \in 1..MaxMsgs
    BY <1>2, <1>6
  <1>8. \A j, k \in 1..n : j < k /\ q[j].conn = q[k].conn => q[j].num < q[k].num
    BY <1>2 DEF OrderInv, InOrder
  <1>9. \A j \in 1..n : j < i => running[q[j].conn] # 0
    BY <1>1, <1>2 DEF OrderInv, Scanned
  <1>10. \A k \in 1..n : k # i /\ q[k].conn = e.conn => e.num < q[k].num
    <2>. TAKE k \in 1..n
    <2>1. ASSUME k < i, q[k].conn = e.conn PROVE FALSE
      BY <1>1, <1>9, <2>1
    <2>2. ASSUME i < k, q[k].conn = e.conn PROVE e.num < q[k].num
      BY <1>2, <1>8, <2>2
    <2>. QED
      BY <1>2, <2>1, <2>2
  <1>11. Numbers(e.conn) = (retired[e.conn] + 1)..arrived[e.conn]
    BY <1>1, <1>7 DEF OrderInv, InOrder
  <1>12. \A d \in Conn : Numbers(d) = {x \in 1..MaxMsgs : \E k \in 1..n : q[k].conn = d /\ q[k].num = x}
    BY <1>2, <1>6 DEF Numbers
  <1>13. e.num = retired[e.conn] + 1
    <2>1. e.num \in Numbers(e.conn)
      BY <1>2, <1>7, <1>12
    <2>2. retired[e.conn] + 1 \in Numbers(e.conn)
      BY <1>5, <1>7, <1>11, <2>1
    <2>3. PICK k \in 1..n : q[k].conn = e.conn /\ q[k].num = retired[e.conn] + 1
      BY <1>7, <1>12, <2>2
    <2>4. CASE k = i
      BY <2>3, <2>4
    <2>5. CASE k # i
      BY <1>5, <1>7, <1>10, <1>11, <2>1, <2>3, <2>5
    <2>. QED
      BY <2>4, <2>5
  <1>14. \A d \in Conn : Numbers(d)' = {x \in 1..MaxMsgs :
                              \E k \in 1..(n - 1) : q'[k].conn = d /\ q'[k].num = x}
    <2>1. \A k \in 1..(n - 1) : q'[k].num \in 1..MaxMsgs
      BY <1>2, <1>3, <1>6
    <2>. QED
      BY <1>3, <2>1 DEF Numbers
  <1>. HIDE DEF e, n, q
  <1>15. \A d \in Conn : Numbers(d)' = IF d = e.conn THEN Numbers(d) \ {e.num} ELSE Numbers(d)
    <2>. TAKE d \in Conn
    <2>1. ASSUME NEW x \in Numbers(d)'
          PROVE  x \in Numbers(d) /\ ~(d = e.conn /\ x = e.num)
      <3>1. PICK k \in 1..(n - 1) : q'[k].conn = d /\ q'[k].num = x /\ x \in 1..MaxMsgs
        BY <1>14, <2>1
      <3>2. PICK j \in 1..n : j # i /\ q'[k] = q[j]
        <4>1. CASE k < i
          BY <1>2, <1>3, <4>1
        <4>2. CASE ~(k < i)
          <5>1. k + 1 \in 1..n /\ k + 1 # i /\ q'[k] = q[k + 1]
            BY <1>2, <1>3, <4>2
          <5>. QED
            BY <5>1
        <4>. QED
          BY <4>1, <4>2
      <3>3. x \in Numbers(d)
        BY <1>12, <3>1, <3>2
      <3>4. ASSUME d = e.conn, x = e.num PROVE FALSE
        BY <1>7, <1>10, <3>1, <3>2, <3>4
      <3>. QED
        BY <3>3, <3>4
    <2>2. ASSUME NEW x \in Numbers(d), ~(d = e.conn /\ x = e.num)
          PROVE  x \in Numbers(d)'
      <3>1. PICK j \in 1..n : q[j].conn = d /\ q[j].num = x /\ x \in 1..MaxMsgs
        BY <1>12, <2>2
      <3>2. j # i
        BY <2>2, <3>1 DEF e, q
      <3>3. PICK k \in 1..(n - 1) : q'[k] = q[j]
        <4>1. CASE j < i
          BY <1>2, <1>3, <4>1
        <4>2. CASE i < j
          <5>1. j - 1 \in 1..(n - 1) /\ ~(j - 1 < i) /\ (j - 1) + 1 = j
            BY <1>2, <4>2
          <5>. QED
            BY <1>3, <5>1
        <4>. QED
          BY <1>2, <3>2, <4>1, <4>2
      <3>. QED
        BY <1>14, <3>1, <3>3
    <2>. QED
      BY <2>1, <2>2
  <1>16. e.num <= arrived[e.conn]
    <2>1. e.num \in Numbers(e.conn)
      BY <1>2, <1>7, <1>12 DEF e, q
    <2>. QED
      BY <1>5, <1>7, <1>11, <2>1
  <1>17. Counted'
    BY <1>1, <1>5, <1>7, <1>16 DEF OrderInv, Counted
  <1>18. \A d \in Conn :
          /\ running'[d] \in {0, retired'[d] + 1}
          /\ Numbers(d)' = (IF running'[d] # 0 THEN retired'[d] + 2
                                               ELSE retired'[d] + 1)..arrived'[d]
    <2>. TAKE d \in Conn
    <2>1. CASE d = e.conn
      <3>1. running'[d] = retired[d] + 1
        BY <1>1, <1>5, <1>7, <1>13, <2>1
      <3>2. ((retired[d] + 1)..arrived[d]) \ {retired[d] + 1} = (retired[d] + 2)..arrived[d]
        BY <1>5
      <3>3. Numbers(d)' = (retired[d] + 2)..arrived[d]
        BY <1>11, <1>13, <1>15, <2>1, <3>2
      <3>. QED
        BY <1>1, <1>5, <2>1, <3>1, <3>3
    <2>2. CASE d # e.conn
      <3>1. running'[d] = running[d]
        BY <1>1, <1>5, <1>7, <2>2
      <3>. QED
        BY <1>1, <1>15, <2>2, <3>1 DEF OrderInv, InOrder
    <2>. QED
      BY <2>1, <2>2
  <1>19. \A j, k \in 1..(n - 1) : j < k /\ q'[j].conn = q'[k].conn => q'[j].num < q'[k].num
    <2>. DEFINE was(j) == IF j < i THEN j ELSE j + 1
    <2>1. \A j \in 1..(n - 1) : was(j) \in 1..n /\ q'[j] = q[was(j)]
      BY <1>2, <1>3
    <2>2. \A j, k \in 1..(n - 1) : j < k => was(j) < was(k)
      BY <1>2
    <2>. HIDE DEF was
    <2>. QED
      BY <1>8, <2>1, <2>2
  <1>20. InOrder'
    BY <1>3, <1>18, <1>19 DEF InOrder, q
  <1>21. Scanned'
    <2>1. \A k \in 1..(n - 1) : k < i => running'[q'[k].conn] # 0
      <3>. TAKE k \in 1..(n - 1)
      <3>. HAVE k < i
      <3>1. q'[k] = q[k] /\ k \in 1..n
        BY <1>2, <1>3
      <3>2. running[q[k].conn] # 0 /\ q[k].conn # e.conn
        BY <1>1, <1>9, <3>1
      <3>. QED
        BY <1>1, <1>5, <1>6, <3>1, <3>2
    <2>. QED
      BY <1>1, <1>3, <2>1 DEF Scanned, q
  <1>22. NoneOvertaken'
    BY <1>1 DEF NoneOvertaken
  <1>. QED
    BY <1>7, <1>13, <1>17, <1>20, <1>21, <1>22 DEF OrderInv, e, q

(* A message that arrives goes behind those of its connection that are      *)
(* queued; it runs at once only where none is.                              *)
LEMMA DispatchOrder ==
  ASSUME IInv, OrderInv, NEW c \in Conn, Dispatch(c)
  PROVE  /\ OrderInv'
         /\ running[c] = 0 => arrived[c] = retired[c]
         /\ running'[c] \in {running[c], arrived[c] + 1}
  <1>. DEFINE q == processingQ
              n == Len(processingQ)
              x == arrived[c] + 1
  <1>1. /\ pc = "io"
        /\ arrived[c] < MaxMsgs
        /\ arrived' = [arrived EXCEPT ![c] = x]
        /\ UNCHANGED <<pc, i, retired>>
    BY DEF Dispatch, At, mainVars
  <1>2. q \in Seq(Queued) /\ n \in Nat /\ DOMAIN q = 1..n
    BY DEF IInv, TypeOK
  <1>3. /\ running \in [Conn -> 0..MaxMsgs] /\ MaxMsgs \in Nat
        /\ retired \in [Conn -> Nat] /\ arrived \in [Conn -> 0..MaxMsgs]
    BY EngineAssumption DEF IInv, TypeOK
  <1>4. \A k \in 1..n : q[k].conn \in Conn /\ q[k].num \in 1..MaxMsgs
    <2>. TAKE k \in 1..n
    <2>1. q[k] \in Queued
      BY <1>2
    <2>. QED
      BY <2>1 DEF Queued
  <1>5. \A k \in 1..n : running[q[k].conn] # 0
    BY <1>1, <1>2 DEF OrderInv, NoneOvertaken
  <1>6. \A d \in Conn : Numbers(d) = {y \in 1..MaxMsgs : \E k \in 1..n : q[k].conn = d /\ q[k].num = y}
    BY <1>2, <1>4 DEF Numbers
  <1>7. \A d \in Conn :
          /\ running[d] \in {0, retired[d] + 1}
          /\ Numbers(d) = (IF running[d] # 0 THEN retired[d] + 2 ELSE retired[d] + 1)..arrived[d]
          /\ retired[d] <= arrived[d] /\ running[d] <= arrived[d]
    BY DEF OrderInv, InOrder, Counted
  <1>8. \A j, k \in 1..n : j < k /\ q[j].conn = q[k].conn => q[j].num < q[k].num
    BY <1>2 DEF OrderInv, InOrder
  <1>9. running[c] = 0 => arrived[c] = retired[c]
    <2>1. running[c] = 0 => Numbers(c) = {}
      BY <1>5, <1>6
    <2>2. arrived[c] # retired[c] => retired[c] + 1 \in (retired[c] + 1)..arrived[c]
      BY <1>3, <1>7
    <2>. QED
      BY <1>7, <2>1, <2>2
  <1>10. \/ /\ running[c] # 0
            /\ UNCHANGED running
            /\ \E m : q' = Append(q, [conn |-> c, num |-> x, msg |-> m])
         \/ /\ running[c] = 0
            /\ running' = [running EXCEPT ![c] = x]
            /\ UNCHANGED q
    BY DEF Dispatch
  <1>11. CASE /\ running[c] # 0
              /\ UNCHANGED running
              /\ \E m : q' = Append(q, [conn |-> c, num |-> x, msg |-> m])
    <2>1. PICK m : q' = Append(q, [conn |-> c, num |-> x, msg |-> m])
      BY <1>11
    <2>2. /\ DOMAIN q' = 1..(n + 1)
          /\ \A k \in 1..n : q'[k] = q[k]
          /\ q'[n + 1].conn = c /\ q'[n + 1].num = x
      BY <1>2, <2>1, AppendProperties
    <2>3. x \in 1..MaxMsgs
      BY <1>1, <1>3
    <2>4. \A k \in 1..(n + 1) : k \in 1..n \/ k = n + 1
      BY <1>2
    <2>5. \A d \in Conn : Numbers(d)' = {y \in 1..MaxMsgs :
                             \E k \in 1..(n + 1) : q'[k].conn = d /\ q'[k].num = y}
      BY <1>4, <2>2, <2>3, <2>4 DEF Numbers
    <2>. HIDE DEF q, n, x
    <2>6. \A d \in Conn : Numbers(d)' = IF d = c THEN Numbers(d) \cup {x} ELSE Numbers(d)
      <3>. TAKE d \in Conn
      <3>1. n + 1 \in 1..(n + 1) /\ \A k \in 1..n : k \in 1..(n + 1)
        BY <1>2
      <3>2. ASSUME NEW y \in Numbers(d)' PROVE y \in Numbers(d) \/ (d = c /\ y = x)
        <4>1. PICK k \in 1..(n + 1) : q'[k].conn = d /\ q'[k].num = y /\ y \in 1..MaxMsgs
          BY <2>5, <3>2
        <4>. QED
          BY <1>6, <2>2, <2>4, <4>1
      <3>3. ASSUME NEW y \in Numbers(d) PROVE y \in Numbers(d)'
        <4>1. PICK k \in 1..n : q[k].conn = d /\ q[k].num = y /\ y \in 1..MaxMsgs
          BY <1>6, <3>3
        <4>. QED
          BY <2>2, <2>5, <3>1, <4>1
      <3>4. d = c => x \in Numbers(d)'
        BY <2>2, <2>3, <2>5, <3>1
      <3>. QED
        BY <3>2, <3>3, <3>4
    <2>7. \A y \in Numbers(c) : y < x
      BY <1>3, <1>7 DEF x
    <2>8. \A d \in Conn :
            /\ running'[d] \in {0, retired'[d] + 1}
            /\ Numbers(d)' = (IF running'[d] # 0 THEN retired'[d] + 2
                                                 ELSE retired'[d] + 1)..arrived'[d]
      <3>. TAKE d \in Conn
      <3>1. CASE d = c
        <4>1. arrived'[d] = arrived[d] + 1
          BY <1>1, <1>3, <3>1 DEF x
        <4>2. retired[d] + 1 <= arrived[d]
          BY <1>3, <1>7, <1>11, <3>1
        <4>3. ((retired[d] + 2)..arrived[d]) \cup {arrived[d] + 1} = (retired[d] + 2)..(arrived[d] + 1)
          BY <1>3, <4>2
        <4>. QED
          BY <1>1, <1>7, <1>11, <2>6, <3>1, <4>1, <4>3 DEF x
      <3>2. CASE d # c
        <4>1. arrived'[d] = arrived[d]
          BY <1>1, <1>3, <3>2
        <4>. QED
          BY <1>1, <1>7, <1>11, <2>6, <3>2, <4>1
      <3>. QED
        BY <3>1, <3>2
    <2>9. \A j, k \in 1..(n + 1) : j < k /\ q'[j].conn = q'[k].conn => q'[j].num < q'[k].num
      <3>. SUFFICES ASSUME NEW j \in 1..(n + 1), NEW k \in 1..(n + 1), j < k, q'[j].conn = q'[k].conn
                    PROVE  q'[j].num < q'[k].num
        OBVIOUS
      <3>1. j \in 1..n
        BY <1>2
      <3>2. CASE k \in 1..n
        BY <1>8, <2>2, <3>1, <3>2
      <3>3. CASE k = n + 1
        <4>1. q[j].num \in Numbers(c)
          BY <1>4, <1>6, <2>2, <3>1, <3>3
        <4>. QED
          BY <2>2, <2>7, <3>1, <3>3, <4>1
      <3>. QED
        BY <2>4, <3>2, <3>3
    <2>10. InOrder'
      BY <2>2, <2>8, <2>9 DEF InOrder, q
    <2>11. \A k \in 1..(n + 1) : running'[q'[k].conn] # 0
      BY <1>5, <1>11, <2>2, <2>4
    <2>12. NoneOvertaken' /\ Scanned'
      BY <1>1, <2>2, <2>11 DEF NoneOvertaken, Scanned, q
    <2>13. Counted'
      BY <1>1, <1>3, <1>7, <1>11 DEF Counted, x
    <2>. QED
      BY <1>9, <1>11, <2>10, <2>12, <2>13 DEF OrderInv
  <1>12. CASE /\ running[c] = 0
              /\ running' = [running EXCEPT ![c] = x]
              /\ UNCHANGED q
    <2>1. arrived[c] = retired[c]
      BY <1>9, <1>12
    <2>2. \A d \in Conn : Numbers(d)' = Numbers(d)
      BY <1>12 DEF Numbers
    <2>3. running'[c] = x /\ \A d \in Conn \ {c} : running'[d] = running[d]
      BY <1>3, <1>12
    <2>4. arrived'[c] = x /\ \A d \in Conn \ {c} : arrived'[d] = arrived[d]
      BY <1>1, <1>3
    <2>5. x \in Nat /\ x # 0
      BY <1>3
    <2>. HIDE DEF x
    <2>6. \A d \in Conn :
            /\ running'[d] \in {0, retired'[d] + 1}
            /\ Numbers(d)' = (IF running'[d] # 0 THEN retired'[d] + 2
                                                 ELSE retired'[d] + 1)..arrived'[d]
      <3>. TAKE d \in Conn
      <3>1. CASE d = c
        <4>1. ((retired[d] + 1)..arrived[d]) = {} /\ ((retired[d] + 2)..(arrived[d] + 1)) = {}
          BY <1>3, <2>1, <3>1
        <4>. QED
          BY <1>1, <1>7, <1>12, <2>1, <2>2, <2>3, <2>4, <2>5, <3>1, <4>1 DEF x
      <3>2. CASE d # c
        BY <1>1, <1>7, <2>2, <2>3, <2>4, <3>2
      <3>. QED
        BY <3>1, <3>2
    <2>7. InOrder'
      BY <1>2, <1>8, <1>12, <2>6 DEF InOrder, q
    <2>8. \A k \in 1..n : running'[q[k].conn] # 0
      BY <1>4, <1>5, <2>3, <2>5
    <2>9. NoneOvertaken' /\ Scanned'
      BY <1>1, <1>2, <1>12, <2>8 DEF NoneOvertaken, Scanned, q
    <2>10. Counted'
      BY <1>1, <1>3, <1>7, <2>1, <2>3, <2>4 DEF Counted, x
    <2>. QED
      BY <1>9, <2>3, <2>7, <2>9, <2>10 DEF OrderInv, x
  <1>. QED
    BY <1>10, <1>11, <1>12

LEMMA OrderInit == Init => OrderInv
  <1>. SUFFICES ASSUME Init PROVE OrderInv
    OBVIOUS
  <1>1. \A c \in Conn : Numbers(c) = {}
    BY DEF Init, Numbers
  <1>2. InOrder
    BY <1>1 DEF Init, InOrder
  <1>3. Counted
    BY DEF Init, Counted
  <1>. QED
    BY <1>2, <1>3 DEF Init, OrderInv, NoneOvertaken, Scanned

LEMMA OrderNext == IInv /\ OrderInv /\ [Next]_vars => OrderInv'
  <1>. SUFFICES ASSUME IInv, OrderInv, [Next]_vars PROVE OrderInv'
    OBVIOUS
  <1>. USE DEF mainVars, countVars, poolVars, At
  <1>1. CASE /\ UNCHANGED <<processingQ, running, arrived, retired, i>>
             /\ pc' = pc \/ pc' = "pickup" \/ (pc # "run" /\ pc # "pickup" /\ pc' # "run")
    <2>1. InOrder' /\ Counted'
      BY <1>1, OrderUnchanged DEF OrderInv
    <2>2. NoneOvertaken' /\ Scanned'
      BY <1>1 DEF OrderInv, NoneOvertaken, Scanned, IInv, TypeOK
    <2>. QED
      BY <2>1, <2>2 DEF OrderInv
  <1>2. CASE PickupResult
    BY <1>2, PickupOrder
  <1>3. CASE PickupEmpty
    <2>1. InOrder' /\ Counted'
      BY <1>3, OrderUnchanged DEF OrderInv, PickupEmpty
    <2>2. processingQ \in Seq(Queued)
      BY DEF IInv, TypeOK
    <2>3. NoneOvertaken' /\ Scanned'
      BY <1>3, <2>2 DEF PickupEmpty, NoneOvertaken, Scanned
    <2>. QED
      BY <2>1, <2>3 DEF OrderInv
  <1>4. CASE RunQueued
    BY <1>4, RunQueuedOrder
  <1>5. CASE SkipQueued
    <2>1. InOrder' /\ Counted'
      BY <1>5, OrderUnchanged DEF OrderInv, SkipQueued
    <2>2. processingQ \in Seq(Queued) /\ i \in Nat
      BY DEF IInv, TypeOK
    <2>3. \A k \in DOMAIN processingQ : k < i + 1 => k < i \/ k = i
      BY <2>2
    <2>4. NoneOvertaken' /\ Scanned'
      BY <1>5, <2>3 DEF SkipQueued, OrderInv, NoneOvertaken, Scanned
    <2>. QED
      BY <2>1, <2>4 DEF OrderInv
  <1>6. CASE RunDone
    <2>1. InOrder' /\ Counted'
      BY <1>6, OrderUnchanged DEF OrderInv, RunDone
    <2>2. processingQ \in Seq(Queued) /\ i \in Nat /\ l = Len(processingQ)
      BY <1>6 DEF IInv, TypeOK, RunBound, RunDone
    <2>3. \A k \in DOMAIN processingQ : k < i
      BY <1>6, <2>2 DEF RunDone
    <2>4. NoneOvertaken' /\ Scanned'
      BY <1>6, <2>3 DEF RunDone, OrderInv, NoneOvertaken, Scanned
    <2>. QED
      BY <2>1, <2>4 DEF OrderInv
  <1>7. ASSUME NEW c \in Conn, Dispatch(c) PROVE OrderInv'
    BY <1>7, DispatchOrder
  <1>8. CASE UNCHANGED vars
    BY <1>1, <1>8 DEF vars
  <1>9. ASSUME NEW c \in Conn,
               \/ RunHandler(c) \/ RunErrorHandler(c) \/ SkipErrorHandler(c)
               \/ StartThread(c) \/ Finish(c) \/ DoneReading(c) \/ FuncCheck(c)
        PROVE  OrderInv'
    BY <1>1, <1>9 DEF RunHandler, RunErrorHandler, SkipErrorHandler, StartThread, Finish,
                      DoneReading, FuncCheck
  <1>10. CASE Select \/ ReadTrigger \/ IoDone \/ FuncsDone
    BY <1>1, <1>10 DEF Select, ReadTrigger, IoDone, FuncsDone
  <1>11. ASSUME NEW w \in Worker, WorkerStep(w) PROVE OrderInv'
    BY <1>1, <1>11 DEF WorkerStep, Get, Act, Notify, Truncate
  <1>. QED
    BY <1>2, <1>3, <1>4, <1>5, <1>6, <1>7, <1>8, <1>9, <1>10, <1>11 DEF Next, Process, MainLoop

(* The order of the messages is an invariant on top of IInv: where the scan   *)
(* of _runMessages stands decides what may still be behind nothing.           *)
THEOREM OrderInvariance == Safety => [](IInv /\ OrderInv)
  <1>1. Init => IInv /\ OrderInv
    BY IInvInit, OrderInit
  <1>2. IInv /\ OrderInv /\ [Next]_vars => IInv' /\ OrderInv'
    BY TypeNext, RunBoundNext, RunningNext, RequestsNext, OwnNext, WatchedNext, OrderNext DEF IInv
  <1>. QED
    BY <1>1, <1>2, PTL DEF Safety

(* Once the queue has been scanned, what is queued is behind a running      *)
(* message.                                                                 *)
THEOREM OvertakenCorrect == Safety => []NoneOvertaken
  BY OrderInvariance, PTL DEF OrderInv

(* The messages of a connection run in the order they were dispatched in,   *)
(* none lost or repeated.                                                   *)
THEOREM OrderCorrect == Safety => []InOrder
  BY OrderInvariance, PTL DEF OrderInv

-----------------------------------------------------------------------------
(* The queues implement SerialConnections: what each step does to the three *)
(* counters.                                                                *)
LEMMA SerialInit == Init => Serial!Init
  <1>. SUFFICES ASSUME Init PROVE Serial!Init
    OBVIOUS
  <1>. QED
    BY DEF Init, Serial!Init

LEMMA SerialStutter ==
  ASSUME UNCHANGED <<arrived, retired, running>>
  PROVE  UNCHANGED Serial!vars
  BY DEF Serial!vars

(* Where a message of an idle connection starts, started advances by one.   *)
LEMMA OneStarted ==
  ASSUME NEW c \in Conn, running \in [Conn -> Nat], retired \in [Conn -> Nat],
         running[c] = 0, running' = [running EXCEPT ![c] = retired[c] + 1],
         UNCHANGED retired
  PROVE  [d \in Conn |-> IF running'[d] # 0 THEN running'[d] ELSE retired'[d]]
           = [[d \in Conn |-> IF running[d] # 0 THEN running[d] ELSE retired[d]]
                EXCEPT ![c] = @ + 1]
  <1>. DEFINE f == [d \in Conn |-> IF running[d] # 0 THEN running[d] ELSE retired[d]]
              g == [d \in Conn |-> IF running'[d] # 0 THEN running'[d] ELSE retired'[d]]
  <1>1. running'[c] = retired[c] + 1 /\ retired[c] + 1 # 0
    OBVIOUS
  <1>2. \A d \in Conn \ {c} : running'[d] = running[d]
    OBVIOUS
  <1>3. g[c] = f[c] + 1
    BY <1>1
  <1>4. \A d \in Conn \ {c} : g[d] = f[d]
    BY <1>2
  <1>5. f \in [Conn -> Nat] /\ g \in [Conn -> Nat]
    BY <1>1, <1>2
  <1>. HIDE DEF f, g
  <1>6. g = [f EXCEPT ![c] = f[c] + 1]
    BY <1>3, <1>4, <1>5
  <1>. QED
    BY <1>6 DEF f, g

LEMMA PickupSerial ==
  ASSUME IInv, OrderInv, PickupResult
  PROVE  Serial!Next
  <1>. DEFINE c == Head(resultQ)
  <1>1. /\ running' = [running EXCEPT ![c] = 0]
        /\ retired' = [retired EXCEPT ![c] = @ + 1]
        /\ UNCHANGED arrived
    BY DEF PickupResult
  <1>2. c \in Conn /\ running[c] # 0
    BY TailElements DEF PickupResult, IInv, TypeOK, RunningAccounted
  <1>3. /\ running \in [Conn -> 0..MaxMsgs] /\ MaxMsgs \in Nat
        /\ retired \in [Conn -> Nat]
    BY EngineAssumption DEF IInv, TypeOK
  <1>. HIDE DEF c
  <1>4. running[c] = retired[c] + 1
    BY <1>2 DEF OrderInv, InOrder
  <1>5. \A d \in Conn : (IF running'[d] # 0 THEN running'[d] ELSE retired'[d])
                        = (IF running[d] # 0 THEN running[d] ELSE retired[d])
    BY <1>1, <1>2, <1>3, <1>4
  <1>6. Serial!Finish(c)
    BY <1>1, <1>2, <1>3, <1>4, <1>5 DEF Serial!Finish, Serial!Idle, Serial!Increment
  <1>. QED
    BY <1>2, <1>6 DEF Serial!Next

LEMMA RunQueuedSerial ==
  ASSUME IInv, OrderInv, RunQueued
  PROVE  Serial!Next
  <1>0. PICK c \in Conn : c = processingQ[i].conn
    BY RunQueuedOrder
  <1>1. /\ running[c] = 0
        /\ running' = [running EXCEPT ![c] = retired[c] + 1]
        /\ UNCHANGED <<arrived, retired>>
    BY <1>0, RunQueuedOrder DEF RunQueued, countVars
  <1>2. /\ running \in [Conn -> Nat]
        /\ retired \in [Conn -> Nat] /\ arrived \in [Conn -> 0..MaxMsgs]
    BY EngineAssumption DEF IInv, TypeOK
  <1>3. OrderInv'
    BY RunQueuedOrder
  <1>4. retired[c] < arrived[c]
    BY <1>1, <1>2, <1>3 DEF OrderInv, Counted
  <1>5. [d \in Conn |-> IF running'[d] # 0 THEN running'[d] ELSE retired'[d]]
          = [[d \in Conn |-> IF running[d] # 0 THEN running[d] ELSE retired[d]]
               EXCEPT ![c] = @ + 1]
    BY <1>1, <1>2, OneStarted
  <1>6. Serial!Start(c)
    BY <1>1, <1>4, <1>5 DEF Serial!Start, Serial!Idle, Serial!Increment
  <1>. QED
    BY <1>6 DEF Serial!Next

LEMMA DispatchSerial ==
  ASSUME IInv, OrderInv, NEW c \in Conn, Dispatch(c)
  PROVE  Serial!Next
  <1>1. /\ arrived' = [arrived EXCEPT ![c] = @ + 1]
        /\ UNCHANGED retired
    BY DEF Dispatch
  <1>2. /\ running \in [Conn -> Nat]
        /\ retired \in [Conn -> Nat] /\ arrived \in [Conn -> 0..MaxMsgs]
    BY EngineAssumption DEF IInv, TypeOK
  <1>3. CASE running[c] # 0 /\ UNCHANGED running
    <2>1. Serial!Arrive(c)
      BY <1>1, <1>3 DEF Serial!Arrive, Serial!Increment
    <2>. QED
      BY <2>1 DEF Serial!Next
  <1>4. CASE running[c] = 0 /\ running' = [running EXCEPT ![c] = arrived[c] + 1]
    <2>1. arrived[c] = retired[c] /\ running' = [running EXCEPT ![c] = retired[c] + 1]
      BY <1>4, DispatchOrder
    <2>2. [d \in Conn |-> IF running'[d] # 0 THEN running'[d] ELSE retired'[d]]
            = [[d \in Conn |-> IF running[d] # 0 THEN running[d] ELSE retired[d]]
                 EXCEPT ![c] = @ + 1]
      BY <1>1, <1>2, <1>4, <2>1, OneStarted
    <2>3. Serial!ArriveAndStart(c)
      BY <1>1, <1>4, <2>1, <2>2 DEF Serial!ArriveAndStart, Serial!Idle, Serial!Increment
    <2>. QED
      BY <2>3 DEF Serial!Next
  <1>. QED
    BY <1>3, <1>4 DEF Dispatch

LEMMA SerialNext == IInv /\ OrderInv /\ [Next]_vars => [Serial!Next]_(Serial!vars)
  <1>. SUFFICES ASSUME IInv, OrderInv, [Next]_vars PROVE [Serial!Next]_(Serial!vars)
    OBVIOUS
  <1>. USE DEF mainVars, countVars, poolVars
  <1>1. CASE PickupResult \/ RunQueued \/ \E c \in Conn : Dispatch(c)
    BY <1>1, PickupSerial, RunQueuedSerial, DispatchSerial
  <1>2. CASE UNCHANGED <<arrived, retired, running>>
    BY <1>2, SerialStutter
  <1>3. CASE UNCHANGED vars
    BY <1>2, <1>3 DEF vars
  <1>4. ASSUME NEW c \in Conn,
               \/ RunHandler(c) \/ RunErrorHandler(c) \/ SkipErrorHandler(c)
               \/ StartThread(c) \/ Finish(c) \/ DoneReading(c) \/ FuncCheck(c)
        PROVE  [Serial!Next]_(Serial!vars)
    BY <1>2, <1>4 DEF RunHandler, RunErrorHandler, SkipErrorHandler, StartThread, Finish,
                      DoneReading, FuncCheck
  <1>5. CASE PickupEmpty \/ SkipQueued \/ RunDone \/ Select \/ ReadTrigger \/ IoDone \/ FuncsDone
    BY <1>2, <1>5 DEF PickupEmpty, SkipQueued, RunDone, Select, ReadTrigger, IoDone, FuncsDone
  <1>6. ASSUME NEW w \in Worker, WorkerStep(w) PROVE [Serial!Next]_(Serial!vars)
    BY <1>2, <1>6 DEF WorkerStep, Get, Act, Notify, Truncate
  <1>. QED
    BY <1>1, <1>3, <1>4, <1>5, <1>6 DEF Next, Process, MainLoop

(* The safety half of ImplementsSerial, for any connections, workers, pools *)
(* and phases: one message of a connection at a time, in order.             *)
THEOREM SerialCorrect == Safety => Serial!Safety
  <1>1. Init => Serial!Init
    BY SerialInit
  <1>2. IInv /\ OrderInv /\ [Next]_vars => [Serial!Next]_(Serial!vars)
    BY SerialNext
  <1>. QED
    BY <1>1, <1>2, OrderInvariance, PTL DEF Safety, Serial!Safety

-----------------------------------------------------------------------------
(* The main loop is woken.                                                  *)

(* While results wait the main loop is to be woken, by a byte that is on    *)
(* the trigger connection or by the worker that is to send it; or it is     *)
(* awake and still has to check the handler.                                *)
Woken == trigger \/ \E w \in Worker : worker[w].at = "notify"
StillChecked(c) == pc = "io" \/ (pc = "funcs" /\ c \in todo)

WakeInv ==
  \A c \in Conn : Answered(c) \/ handlerRet[c] \in Outcome => Woken \/ StillChecked(c)

(* A thread that is started is not done, and a handler that is checked is   *)
(* resumed or has no result; other steps than an act() bring no result.     *)
LEMMA NothingAnswered ==
  ASSUME WakeInv, Woken => Woken',
         \A c \in Conn : StillChecked(c) => StillChecked(c)' \/ Woken',
         \A c \in Conn : Answered(c)' \/ handlerRet'[c] \in Outcome
                           => Answered(c) \/ handlerRet[c] \in Outcome
  PROVE  WakeInv'
  BY DEF WakeInv

LEMMA WakeProcess ==
  ASSUME IInv, WakeInv, Process
  PROVE  WakeInv'
  <1>1. UNCHANGED <<pc, todo, worker, trigger, resultsQueue>>
    BY DEF Process, RunHandler, RunErrorHandler, SkipErrorHandler, StartThread, Finish,
           mainVars, poolVars
  <1>2. \A c \in Conn : handlerRet'[c] = handlerRet[c] \/ handlerRet'[c] = "pending"
    <2>1. CASE \E c \in Conn : StartThread(c)
      BY <2>1 DEF StartThread, IInv, TypeOK
    <2>2. CASE ~ \E c \in Conn : StartThread(c)
      BY <2>2 DEF Process, RunHandler, RunErrorHandler, SkipErrorHandler, Finish
    <2>. QED
      BY <2>1, <2>2
  <1>3. "pending" \notin Outcome
    BY DEF Outcome
  <1>. QED
    BY <1>1, <1>2, <1>3 DEF WakeInv, Answered, Woken, StillChecked

LEMMA WakeIoDone ==
  ASSUME IInv, WakeInv, IoDone
  PROVE  WakeInv'
  <1>1. UNCHANGED <<funcMap, handlerRet, resultsQueue>> /\ todo' = funcMap
        /\ pc' = IF funcMap = {} THEN "pickup" ELSE "funcs"
    BY DEF IoDone, poolVars
  <1>2. ASSUME NEW c \in Conn, Answered(c) \/ handlerRet[c] \in Outcome
        PROVE  c \in funcMap
    <2>1. handlerRet[c] # "idle"
      BY <1>2 DEF IInv, RequestsAccounted, Outcome
    <2>. QED
      BY <2>1 DEF IInv, RequestsAccounted
  <1>. QED
    BY <1>1, <1>2 DEF WakeInv, Answered, StillChecked

LEMMA WakeFuncCheck ==
  ASSUME IInv, WakeInv, NEW c \in Conn, FuncCheck(c)
  PROVE  WakeInv'
  <1>. DEFINE p == PoolOf[c]
  <1>1. /\ resultsQueue' = [resultsQueue EXCEPT ![p] = <<>>]
        /\ UNCHANGED <<pc, worker, trigger>> /\ todo' = todo \ {c}
    BY DEF FuncCheck
  <1>2. TypeOK /\ p \in Pool /\ pc = "funcs"
    BY EngineAssumption DEF IInv, FuncCheck, At
  <1>3. ASSUME NEW e \in Conn, Answered(e)'
        PROVE  Answered(e) /\ e # c
    BY <1>1, <1>2, <1>3 DEF Answered, TypeOK
  <1>4. handlerRet' \in {Polled(p), [Polled(p) EXCEPT ![c] = "idle"]}
    BY DEF FuncCheck
  <1>5. handlerRet'[c] \notin Outcome
    <2>1. Polled(p) \in [Conn -> {"idle", "pending"} \cup Outcome]
      BY <1>2, PolledTyped
    <2>2. CASE Polled(p)[c] = "pending" /\ handlerRet' = Polled(p)
      BY <2>2 DEF Outcome
    <2>3. CASE handlerRet' = [Polled(p) EXCEPT ![c] = "idle"]
      BY <2>1, <2>3 DEF Outcome
    <2>. QED
      BY <2>2, <2>3 DEF FuncCheck
  <1>6. ASSUME NEW e \in Conn \ {c}, handlerRet'[e] \in Outcome
        PROVE  Answered(e) \/ handlerRet[e] \in Outcome
    <2>1. Polled(p) \in [Conn -> {"idle", "pending"} \cup Outcome]
      BY <1>2, PolledTyped
    <2>2. handlerRet'[e] = Polled(p)[e]
      BY <1>4, <2>1
    <2>3. CASE e \in Drained(p)
      <3>1. PoolOf[e] = p
        BY <2>3, <1>2 DEF Drained, IInv, OwnRequests
      <3>. QED
        BY <2>3, <3>1 DEF Drained, Answered
    <2>4. CASE e \notin Drained(p)
      BY <1>2, <1>6, <2>2, <2>4, PolledTyped
    <2>. QED
      BY <2>3, <2>4
  <1>. QED
    BY <1>1, <1>2, <1>3, <1>5, <1>6 DEF WakeInv, Woken, StillChecked

LEMMA WakeMainLoop ==
  ASSUME IInv, WakeInv, MainLoop
  PROVE  WakeInv'
  <1>1. CASE UNCHANGED <<handlerRet, resultsQueue, worker, trigger, todo>> /\ pc' = pc
    BY <1>1 DEF WakeInv, Answered, Woken, StillChecked
  <1>2. CASE UNCHANGED <<handlerRet, resultsQueue, worker, trigger>>
             /\ (pc \in {"pickup", "run", "select"} \/ (pc = "funcs" /\ todo = {}))
    BY <1>2 DEF WakeInv, Answered, Woken, StillChecked
  <1>3. CASE ReadTrigger
    BY <1>3 DEF ReadTrigger, At, WakeInv, StillChecked
  <1>4. CASE PickupResult \/ SkipQueued \/ RunQueued \/ \E c \in Conn : Dispatch(c) \/ DoneReading(c)
    BY <1>1, <1>4 DEF PickupResult, SkipQueued, RunQueued, Dispatch, DoneReading, mainVars, poolVars
  <1>5. CASE PickupEmpty \/ RunDone \/ Select \/ FuncsDone
    BY <1>2, <1>5 DEF PickupEmpty, RunDone, Select, FuncsDone, At, poolVars
  <1>. QED
    BY <1>3, <1>4, <1>5, WakeIoDone, WakeFuncCheck DEF MainLoop

(* No byte sent on the trigger connection is lost.                          *)
ByteKept ==
  \A w \in Worker : worker[w].at = "notify" /\ worker'[w].at = "truncate" => trigger'

LEMMA WakeWorker ==
  ASSUME IInv, WakeInv, ByteKept, NEW w \in Worker, WorkerStep(w)
  PROVE  WakeInv'
  <1>0. worker \in [Worker -> WorkerState]
    BY DEF IInv, TypeOK
  <1>1. CASE Act(w)
    <2>1. worker'[w].at = "notify"
      BY <1>0, <1>1 DEF Act
    <2>. QED
      BY <2>1 DEF WakeInv, Woken
  <1>2. CASE Notify(w)
    <2>1. worker[w].at = "notify" /\ worker'[w].at = "truncate"
      BY <1>0, <1>2 DEF Notify, WorkerState
    <2>. QED
      BY <2>1 DEF ByteKept, WakeInv, Woken
  <1>3. CASE Get(w) \/ Truncate(w)
    <2>1. UNCHANGED <<pc, todo, handlerRet, resultsQueue, trigger>> /\ worker[w].at # "notify"
      BY <1>3 DEF Get, Truncate, mainVars, poolVars
    <2>2. \A v \in Worker \ {w} : worker'[v] = worker[v]
      BY <1>0, <1>3 DEF Get, Truncate
    <2>. QED
      BY <2>1, <2>2 DEF WakeInv, Answered, Woken, StillChecked
  <1>. QED
    BY <1>1, <1>2, <1>3 DEF WorkerStep

LEMMA WakeStep ==
  ASSUME IInv, WakeInv, [Next]_vars, [ByteKept]_vars
  PROVE  WakeInv'
  <1>1. CASE UNCHANGED vars
    BY <1>1 DEF vars, mainVars, poolVars, WakeInv, Answered, Woken, StillChecked
  <1>2. CASE Next /\ ByteKept
    BY <1>2, WakeProcess, WakeMainLoop, WakeWorker DEF Next
  <1>. QED
    BY <1>1, <1>2

LEMMA WakeInit == Init => WakeInv
  <1>1. ASSUME Init, NEW c \in Conn
        PROVE  ~Answered(c) /\ handlerRet[c] \notin Outcome
    <2>1. PoolOf[c] \in Pool
      BY EngineAssumption
    <2>. QED
      BY <1>1, <2>1 DEF Init, Answered, Outcome
  <1>. QED
    BY <1>1 DEF WakeInv

(* The bytes on the trigger connection are all that is needed: as long as   *)
(* none of them is lost, the main loop never goes to sleep while a result   *)
(* waits, whatever the order of its steps and those of the workers.         *)
THEOREM WakeupCorrect == Safety /\ [][ByteKept]_vars => []NoLostWakeup
  <1>1. Init => WakeInv
    BY WakeInit
  <1>2. IInv /\ WakeInv /\ [Next]_vars /\ [ByteKept]_vars => WakeInv'
    BY WakeStep
  <1>3. IInv /\ WakeInv => NoLostWakeup
    <2>. SUFFICES ASSUME IInv, WakeInv, pc = "select", ~Woken
                  PROVE  /\ \A p \in Pool : resultsQueue[p] = <<>>
                         /\ \A c \in Conn : handlerRet[c] \notin Outcome
      BY DEF NoLostWakeup, Woken
    <2>1. \A c \in Conn : ~Answered(c) /\ handlerRet[c] \notin Outcome
      BY DEF WakeInv, StillChecked
    <2>2. ASSUME NEW p \in Pool, resultsQueue[p] # <<>>
          PROVE  FALSE
      <3>1. resultsQueue[p] \in Seq(Result)
        BY DEF IInv, TypeOK
      <3>2. 1 \in DOMAIN resultsQueue[p] /\ resultsQueue[p][1] \in Result
        BY <2>2, <3>1
      <3>3. resultsQueue[p][1].conn \in Conn
        BY <3>2 DEF Result
      <3>4. PoolOf[resultsQueue[p][1].conn] = p
        BY <3>2 DEF IInv, OwnRequests
      <3>. QED
        BY <2>1, <3>2, <3>3, <3>4 DEF Answered
    <2>. QED
      BY <2>1, <2>2
  <1>. QED
    BY <1>1, <1>2, <1>3, Invariance, PTL DEF Safety
=============================================================================
