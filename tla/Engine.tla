------------------------------- MODULE Engine -------------------------------
(***************************************************************************)
(* The engine of pjabberd: the main loop of async/core.py (poll), the       *)
(* message queues of queues.py and events.py, and the thread pools.         *)
(*                                                                          *)
(* One thread, the main loop, reads the connections, dispatches a Message   *)
(* for every stanza and runs its handlers; a threaded handler is put on the *)
(* queue of a pool, a worker executes it and wakes the main loop through the*)
(* trigger connection, and the main loop resumes the message.  The steps of *)
(* the workers interleave with every step of the main loop.                 *)
(***************************************************************************)
EXTENDS HandlerChain, FiniteSets

CONSTANTS
  Conn,        \* connections
  Worker,      \* worker threads of all the pools
  Pool,        \* the thread pools (one per server)
  PoolOf,      \* PoolOf[x]: the pool of a connection's server, or of a worker
  Trigger,     \* the connection the trigger bytes arrive on
  Phases,      \* records [handlers, errorHandlers]: the phases dispatch finds
  MaxMsgs      \* bound: messages dispatched per connection

ASSUME EngineAssumption ==
  /\ Conn \cap Worker = {}
  /\ PoolOf \in [Conn \cup Worker -> Pool]
  /\ Trigger \notin Conn
  /\ None \notin Conn
  /\ Phases \subseteq [handlers : Seq(Handler), errorHandlers : Seq(Handler)]
  /\ MaxMsgs \in Nat

VARIABLES
  pc,            \* where poll() is: "pickup", "run", "select", "io", "funcs"
  cur,           \* the connection whose Message process() is running, or None
  i, l,          \* the indices of _runMessages
  ready,         \* what select returned and poll() has not read yet
  todo,          \* the rest of the keys funcCheck iterates over
  arrived,       \* arrived[c]: messages dispatched so far (numbers them)
  retired,       \* retired[c]: messages whose result was picked up
  running,       \* _runningMessages: the number of c's message, 0 if none
  chain,         \* the Message that is running for c
  processingQ,   \* _processingQ
  resultQ,       \* resultQ, by connection
  funcMap,       \* func_map, by the connection whose handler is watched
  handlerRet,    \* the watched handler of c: its retVal once done is set
  requestsQueue, \* ThreadPool.requestsQueue, per pool
  workRequests,  \* ThreadPool.workRequests, per pool
  resultsQueue,  \* ThreadPool.resultsQueue, per pool
  worker,        \* worker[w]: where its loop is, and the request it has
  trigger        \* bytes are waiting on the trigger connection

mainVars == <<pc, i, l, ready, todo>>
poolVars == <<requestsQueue, workRequests, resultsQueue>>
countVars == <<arrived, retired>>
vars == <<mainVars, cur, countVars, running, chain, processingQ, resultQ,
          funcMap, handlerRet, poolVars, worker, trigger>>

NoMessage == NewMessage(<<>>, <<>>)

Queued == [conn : Conn, num : 1..MaxMsgs, msg : Message]
Result == [conn : Conn, ret : Outcome]
WorkerState == [at : {"get", "act", "notify", "truncate"}, job : Conn \cup {None}]

(* The types of the state of the loop, the queues and the pools.            *)
TypeOK ==
  /\ pc \in {"pickup", "run", "select", "io", "funcs"}
  /\ cur \in Conn \cup {None}
  /\ i \in Nat \ {0} /\ l \in Nat
  /\ ready \in SUBSET (Conn \cup {Trigger})
  /\ todo \in SUBSET Conn
  /\ arrived \in [Conn -> 0..MaxMsgs]
  /\ retired \in [Conn -> Nat]
  /\ running \in [Conn -> 0..MaxMsgs]
  /\ chain \in [Conn -> Message]
  /\ processingQ \in Seq(Queued)
  /\ resultQ \in Seq(Conn)
  /\ funcMap \in SUBSET Conn
  /\ handlerRet \in [Conn -> {"idle", "pending"} \cup Outcome]
  /\ requestsQueue \in [Pool -> Seq(Conn)]
  /\ workRequests \in [Pool -> SUBSET Conn]
  /\ resultsQueue \in [Pool -> Seq(Result)]
  /\ worker \in [Worker -> WorkerState]
  /\ trigger \in BOOLEAN

Init ==
  /\ pc = "pickup" /\ cur = None /\ i = 1 /\ l = 0
  /\ ready = {} /\ todo = {}
  /\ arrived = [c \in Conn |-> 0]
  /\ retired = [c \in Conn |-> 0]
  /\ running = [c \in Conn |-> 0]
  /\ chain = [c \in Conn |-> NoMessage]
  /\ processingQ = <<>> /\ resultQ = <<>>
  /\ funcMap = {}
  /\ handlerRet = [c \in Conn |-> "idle"]
  /\ requestsQueue = [p \in Pool |-> <<>>]
  /\ workRequests = [p \in Pool |-> {}]
  /\ resultsQueue = [p \in Pool |-> <<>>]
  /\ worker = [w \in Worker |-> [at |-> "get", job |-> None]]
  /\ trigger = FALSE

-----------------------------------------------------------------------------
(* process(), for the message of the connection cur.                        *)

(* The message with the pair its next link works on.                        *)
AtLink(m) == IF MustTake(m) THEN Taken(m) ELSE m

InLink(c) == cur = c /\ ~AtEnd(chain[c])

RunHandler(c) ==
  LET m == AtLink(chain[c])
  IN /\ InLink(c)
     /\ ~m.gotException
     /\ m.pair[1] \notin Threaded
     /\ \E e \in Effects[m.pair[1]] : chain' = [chain EXCEPT ![c] = AfterHandler(m, e)]
     /\ UNCHANGED <<mainVars, cur, countVars, running, processingQ, resultQ,
                    funcMap, handlerRet, poolVars, worker, trigger>>

RunErrorHandler(c) ==
  LET m == AtLink(chain[c])
  IN /\ InLink(c)
     /\ m.gotException
     /\ m.pair[2] \in Handler \ Threaded
     /\ \E e \in Effects[m.pair[2]] :
          chain' = [chain EXCEPT ![c] = AfterErrorHandler(m, e)]
     /\ UNCHANGED <<mainVars, cur, countVars, running, processingQ, resultQ,
                    funcMap, handlerRet, poolVars, worker, trigger>>

SkipErrorHandler(c) ==
  LET m == AtLink(chain[c])
  IN /\ InLink(c)
     /\ m.gotException
     /\ m.pair[2] = None
     /\ chain' = [chain EXCEPT ![c] = WithoutErrorHandler(m)]
     /\ UNCHANGED <<mainVars, cur, countVars, running, processingQ, resultQ,
                    funcMap, handlerRet, poolVars, worker, trigger>>

(* _execThreadedHandler: watch_function runs initFunc, which puts the       *)
(* request on the pool, and then registers the check function.              *)
StartThread(c) ==
  LET m == AtLink(chain[c])
      p == PoolOf[c]
  IN /\ InLink(c)
     /\ Current(m) \in Threaded
     /\ chain' = [chain EXCEPT ![c] = Started(m)]
     /\ handlerRet' = [handlerRet EXCEPT ![c] = "pending"]
     /\ requestsQueue' = [requestsQueue EXCEPT ![p] = Append(@, c)]
     /\ workRequests' = [workRequests EXCEPT ![p] = @ \cup {c}]
     /\ funcMap' = funcMap \cup {c}
     /\ cur' = None
     /\ UNCHANGED <<mainVars, countVars, running, processingQ, resultQ,
                    resultsQueue, worker, trigger>>

Finish(c) ==
  /\ cur = c
  /\ AtEnd(chain[c])
  /\ resultQ' = Append(resultQ, c)
  /\ cur' = None
  /\ UNCHANGED <<mainVars, countVars, running, chain, processingQ, funcMap,
                 handlerRet, poolVars, worker, trigger>>

Process ==
  \E c \in Conn : \/ RunHandler(c) \/ RunErrorHandler(c) \/ SkipErrorHandler(c)
                  \/ StartThread(c) \/ Finish(c)

-----------------------------------------------------------------------------
(* poll(), when no message is being processed.                              *)

At(where) == pc = where /\ cur = None

(* Mutant of PickupResult: without the del _runningMessages[connId].        *)
PickupKeepsRunning ==
  /\ At("pickup")
  /\ resultQ # <<>>
  /\ retired' = [retired EXCEPT ![Head(resultQ)] = @ + 1]
  /\ resultQ' = Tail(resultQ)
  /\ UNCHANGED <<mainVars, cur, arrived, running, chain, processingQ, funcMap,
                 handlerRet, poolVars, worker, trigger>>

(* pickupResults: the output goes to the connection if it still exists; the *)
(* message is retired in either case.                                       *)
PickupResult ==
  /\ At("pickup")
  /\ resultQ # <<>>
  /\ LET c == Head(resultQ)
     IN /\ running' = [running EXCEPT ![c] = 0]
        /\ chain' = [chain EXCEPT ![c] = NoMessage]
        /\ retired' = [retired EXCEPT ![c] = @ + 1]
  /\ resultQ' = Tail(resultQ)
  /\ UNCHANGED <<mainVars, cur, arrived, processingQ, funcMap, handlerRet,
                 poolVars, worker, trigger>>

PickupEmpty ==
  /\ At("pickup")
  /\ resultQ = <<>>
  /\ pc' = "run"
  /\ i' = 1
  /\ l' = Len(processingQ)
  /\ UNCHANGED <<ready, todo, cur, countVars, running, chain, processingQ,
                 resultQ, funcMap, handlerRet, poolVars, worker, trigger>>

(* Mutant of Without: pop(0) for del q[k].                                  *)
WithoutFirst(q, k) == Tail(q)

(* del q[k] *)
Without(q, k) == [j \in 1..(Len(q) - 1) |-> IF j < k THEN q[j] ELSE q[j + 1]]

(* Mutant of RunQueued: i moves on although the entry was deleted.          *)
RunQueuedSkipsNext ==
  /\ At("run")
  /\ i <= l
  /\ LET e == processingQ[i]
     IN /\ running[e.conn] = 0
        /\ running' = [running EXCEPT ![e.conn] = e.num]
        /\ chain' = [chain EXCEPT ![e.conn] = e.msg]
        /\ cur' = e.conn
  /\ processingQ' = Without(processingQ, i)
  /\ i' = i + 1
  /\ l' = l - 1
  /\ UNCHANGED <<pc, ready, todo, countVars, resultQ, funcMap, handlerRet,
                 poolVars, worker, trigger>>

(* _runMessages: after the deletion i stays on the entry that moved up.     *)
RunQueued ==
  /\ At("run")
  /\ i <= l
  /\ LET e == processingQ[i]
     IN /\ running[e.conn] = 0
        /\ running' = [running EXCEPT ![e.conn] = e.num]
        /\ chain' = [chain EXCEPT ![e.conn] = e.msg]
        /\ cur' = e.conn
  /\ processingQ' = Without(processingQ, i)
  /\ l' = l - 1
  /\ UNCHANGED <<pc, i, ready, todo, countVars, resultQ, funcMap, handlerRet,
                 poolVars, worker, trigger>>

SkipQueued ==
  /\ At("run")
  /\ i <= l
  /\ running[processingQ[i].conn] # 0
  /\ i' = i + 1
  /\ UNCHANGED <<pc, l, ready, todo, cur, countVars, running, chain, processingQ,
                 resultQ, funcMap, handlerRet, poolVars, worker, trigger>>

RunDone ==
  /\ At("run")
  /\ i > l
  /\ pc' = "select"
  /\ UNCHANGED <<i, l, ready, todo, cur, countVars, running, chain, processingQ,
                 resultQ, funcMap, handlerRet, poolVars, worker, trigger>>

(* select returns the connections with input, some or none of them, and the *)
(* trigger connection if bytes wait on it; nothing at all after the timeout. *)
Select ==
  /\ At("select")
  /\ \E input \in SUBSET {c \in Conn : arrived[c] < MaxMsgs} :
       ready' = input \cup (IF trigger THEN {Trigger} ELSE {})
  /\ pc' = "io"
  /\ UNCHANGED <<i, l, todo, cur, countVars, running, chain, processingQ,
                 resultQ, funcMap, handlerRet, poolVars, worker, trigger>>

ReadTrigger ==
  /\ At("io")
  /\ Trigger \in ready
  /\ ready' = ready \ {Trigger}
  /\ trigger' = FALSE
  /\ UNCHANGED <<pc, i, l, todo, cur, countVars, running, chain, processingQ,
                 resultQ, funcMap, handlerRet, poolVars, worker>>

(* Mutant of Dispatch: it does not look whether a message is running.       *)
DispatchAtOnce(c) ==
  /\ At("io")
  /\ c \in ready
  /\ arrived[c] < MaxMsgs
  /\ arrived' = [arrived EXCEPT ![c] = @ + 1]
  /\ \E p \in Phases :
       chain' = [chain EXCEPT ![c] = NewMessage(p.handlers, p.errorHandlers)]
  /\ running' = [running EXCEPT ![c] = arrived[c] + 1]
  /\ cur' = c
  /\ UNCHANGED <<mainVars, retired, processingQ, resultQ, funcMap, handlerRet,
                 poolVars, worker, trigger>>

(* dispatch(): one stanza of the data read from c; c stays ready, as the    *)
(* data may hold more.                                                      *)
Dispatch(c) ==
  /\ At("io")
  /\ c \in ready
  /\ arrived[c] < MaxMsgs
  /\ arrived' = [arrived EXCEPT ![c] = @ + 1]
  /\ \E p \in Phases :
       LET m == NewMessage(p.handlers, p.errorHandlers)
       IN \/ /\ running[c] # 0
             /\ processingQ' = Append(processingQ,
                                  [conn |-> c, num |-> arrived[c] + 1, msg |-> m])
             /\ UNCHANGED <<running, chain, cur>>
          \/ /\ running[c] = 0
             /\ running' = [running EXCEPT ![c] = arrived[c] + 1]
             /\ chain' = [chain EXCEPT ![c] = m]
             /\ cur' = c
             /\ UNCHANGED processingQ
  /\ UNCHANGED <<mainVars, retired, resultQ, funcMap, handlerRet, poolVars,
                 worker, trigger>>

DoneReading(c) ==
  /\ At("io")
  /\ c \in ready
  /\ ready' = ready \ {c}
  /\ UNCHANGED <<pc, i, l, todo, cur, countVars, running, chain, processingQ,
                 resultQ, funcMap, handlerRet, poolVars, worker, trigger>>

IoDone ==
  /\ At("io")
  /\ ready = {}
  /\ pc' = IF funcMap = {} THEN "pickup" ELSE "funcs"
  /\ todo' = funcMap
  /\ UNCHANGED <<i, l, ready, cur, countVars, running, chain, processingQ,
                 resultQ, funcMap, handlerRet, poolVars, worker, trigger>>

(* What ThreadPool.poll() takes off the results queue of p: all of it, and  *)
(* each callback sets done and retVal of its handler.                       *)
Drained(p) == {c \in workRequests[p] : \E k \in DOMAIN resultsQueue[p] :
                                         resultsQueue[p][k].conn = c}

RetOf(p, c) == (CHOOSE r \in {resultsQueue[p][k] : k \in DOMAIN resultsQueue[p]} :
                  r.conn = c).ret

Polled(p) == [c \in Conn |-> IF c \in Drained(p) THEN RetOf(p, c) ELSE handlerRet[c]]

(* funcCheck, for one key: the check function polls the pool, so it may set *)
(* other handlers to done as well; when its own handler is done the message *)
(* is resumed.  The key is deleted after the resumed message has run on: the*)
(* threaded handler that may follow has a key of its own.                   *)
FuncCheck(c) ==
  LET p == PoolOf[c]
      done == Polled(p)
  IN /\ At("funcs")
     /\ c \in todo
     /\ todo' = todo \ {c}
     /\ resultsQueue' = [resultsQueue EXCEPT ![p] = <<>>]
     /\ workRequests' = [workRequests EXCEPT ![p] = @ \ Drained(p)]
     /\ \/ /\ done[c] = "pending"
           /\ handlerRet' = done
           /\ UNCHANGED <<chain, funcMap, cur>>
        \/ /\ done[c] \in Outcome
           /\ handlerRet' = [done EXCEPT ![c] = "idle"]
           /\ chain' = [chain EXCEPT ![c] = Resumed(@, done[c])]
           /\ funcMap' = funcMap \ {c}
           /\ cur' = c
     /\ UNCHANGED <<pc, i, l, ready, countVars, running, processingQ, resultQ,
                    requestsQueue, worker, trigger>>

FuncsDone ==
  /\ At("funcs")
  /\ todo = {}
  /\ pc' = "pickup"
  /\ UNCHANGED <<i, l, ready, todo, cur, countVars, running, chain, processingQ,
                 resultQ, funcMap, handlerRet, poolVars, worker, trigger>>

MainLoop ==
  \/ PickupResult \/ PickupEmpty \/ RunQueued \/ SkipQueued \/ RunDone
  \/ Select \/ ReadTrigger \/ IoDone \/ FuncsDone
  \/ \E c \in Conn : Dispatch(c) \/ DoneReading(c) \/ FuncCheck(c)

-----------------------------------------------------------------------------
(* WorkerThread.run(), one round of its loop.                               *)

(* Mutant of Get: the request stays on the queue.                           *)
GetKeepsRequest(w) ==
  /\ worker[w].at = "get"
  /\ requestsQueue[PoolOf[w]] # <<>>
  /\ worker' = [worker EXCEPT ![w] = [at |-> "act",
                                     job |-> Head(requestsQueue[PoolOf[w]])]]
  /\ UNCHANGED <<mainVars, cur, countVars, running, chain, processingQ, resultQ,
                 funcMap, handlerRet, poolVars, trigger>>

Get(w) ==
  LET p == PoolOf[w]
  IN /\ worker[w].at = "get"
     /\ requestsQueue[p] # <<>>
     /\ worker' = [worker EXCEPT ![w] = [at |-> "act", job |-> Head(requestsQueue[p])]]
     /\ requestsQueue' = [requestsQueue EXCEPT ![p] = Tail(@)]
     /\ UNCHANGED <<mainVars, cur, countVars, running, chain, processingQ, resultQ,
                    funcMap, handlerRet, workRequests, resultsQueue, trigger>>

(* The handler's act() runs, and may schedule handlers on its message; what *)
(* it returned or raised goes onto the results queue.                       *)
Act(w) ==
  LET c == worker[w].job
      p == PoolOf[w]
  IN /\ worker[w].at = "act"
     /\ \E e \in Effects[Current(chain[c])] :
          /\ chain' = [chain EXCEPT ![c] = Touched(@, e)]
          /\ resultsQueue' = [resultsQueue EXCEPT
                                ![p] = Append(@, [conn |-> c, ret |-> e.out])]
     /\ worker' = [worker EXCEPT ![w] = [at |-> "notify", job |-> None]]
     /\ UNCHANGED <<mainVars, cur, countVars, running, processingQ, resultQ,
                    funcMap, handlerRet, requestsQueue, workRequests, trigger>>

(* Mutant of Notify: the main loop is not woken.                            *)
NotifyNobody(w) ==
  /\ worker[w].at = "notify"
  /\ worker' = [worker EXCEPT ![w].at = "truncate"]
  /\ UNCHANGED <<mainVars, cur, countVars, running, chain, processingQ, resultQ,
                 funcMap, handlerRet, poolVars, trigger>>

(* notifyFunc sends a byte on the trigger connection, which all the workers *)
(* share without a lock: while another worker is about to store the buffer  *)
(* it has truncated, the byte appended here can be overwritten before it is *)
(* sent (module SendBuffer has the steps).                                  *)
Notify(w) ==
  /\ worker[w].at = "notify"
  /\ \/ trigger' = TRUE
     \/ /\ \E v \in Worker \ {w} : worker[v].at = "truncate"
        /\ UNCHANGED trigger
  /\ worker' = [worker EXCEPT ![w].at = "truncate"]
  /\ UNCHANGED <<mainVars, cur, countVars, running, chain, processingQ, resultQ,
                 funcMap, handlerRet, poolVars>>

Truncate(w) ==
  /\ worker[w].at = "truncate"
  /\ worker' = [worker EXCEPT ![w].at = "get"]
  /\ UNCHANGED <<mainVars, cur, countVars, running, chain, processingQ, resultQ,
                 funcMap, handlerRet, poolVars, trigger>>

WorkerStep(w) == Get(w) \/ Act(w) \/ Notify(w) \/ Truncate(w)

-----------------------------------------------------------------------------
Next == Process \/ MainLoop \/ \E w \in Worker : WorkerStep(w)

Safety == Init /\ [][Next]_vars

(* loop() calls poll() for ever, and select returns within its timeout; a   *)
(* worker thread is scheduled, and the handlers it executes return.         *)
Spec ==
  /\ Safety
  /\ WF_vars(Process \/ MainLoop)
  /\ \A w \in Worker : WF_vars(WorkerStep(w))

-----------------------------------------------------------------------------
(* Correctness.                                                             *)

Elements(s) == {s[k] : k \in DOMAIN s}
Distinct(s) == \A j, k \in DOMAIN s : j # k => s[j] # s[k]

(* A running message is in exactly one place: process() works on it, a      *)
(* watched handler has it, or its result waits on resultQ.  So no message is*)
(* stuck outside the engine, no result is delivered twice, and the          *)
(* del _runningMessages[connId] of queues.py:83 never raises.               *)
RunningAccounted ==
  /\ Distinct(resultQ)
  /\ \A c \in Conn :
       /\ running[c] # 0 <=> cur = c \/ c \in funcMap \/ c \in Elements(resultQ)
       /\ ~(cur = c /\ c \in funcMap)
       /\ ~(cur = c /\ c \in Elements(resultQ))
       /\ ~(c \in funcMap /\ c \in Elements(resultQ))

(* The request of a watched handler is in exactly one place too, the queue, *)
(* a worker or the results, until the handler is done; so poll() never stops*)
(* early on an empty workRequests, nor raises on its del (threadpool.py     *)
(* 193-203), and no request is executed twice.                              *)
Waiting(c) ==
  \E k \in DOMAIN requestsQueue[PoolOf[c]] : requestsQueue[PoolOf[c]][k] = c
Executing(c) ==
  \E w \in Worker : worker[w].job = c
Answered(c) ==
  \E k \in DOMAIN resultsQueue[PoolOf[c]] : resultsQueue[PoolOf[c]][k].conn = c

RequestsAccounted ==
  /\ \A p \in Pool :
       /\ Distinct(requestsQueue[p])
       /\ \A j, k \in DOMAIN resultsQueue[p] :
            j # k => resultsQueue[p][j].conn # resultsQueue[p][k].conn
  /\ \A v, w \in Worker :
       v # w /\ worker[v].job # None => worker[v].job # worker[w].job
  /\ \A c \in Conn :
       /\ handlerRet[c] = "pending" <=> Waiting(c) \/ Executing(c) \/ Answered(c)
       /\ ~(Waiting(c) /\ Executing(c))
       /\ ~(Waiting(c) /\ Answered(c))
       /\ ~(Executing(c) /\ Answered(c))
       /\ handlerRet[c] = "pending" <=> c \in workRequests[PoolOf[c]]
       /\ handlerRet[c] # "idle" <=> c \in funcMap

(* The numbers of the messages queued for c.                                *)
Numbers(c) ==
  {processingQ[k].num : k \in {j \in DOMAIN processingQ : processingQ[j].conn = c}}

(* The messages of a connection run in the order of their dispatch: what is *)
(* queued for c are the numbers after the running one, in sequence, up to   *)
(* the last that arrived, so none is lost, repeated or overtaken            *)
(* (_runMessages deletes from the list it scans, queues.py:44-57).          *)
InOrder ==
  /\ \A c \in Conn :
       /\ running[c] \in {0, retired[c] + 1}
       /\ Numbers(c) =
            (IF running[c] # 0 THEN retired[c] + 2 ELSE retired[c] + 1)..arrived[c]
  /\ \A j, k \in DOMAIN processingQ :
       j < k /\ processingQ[j].conn = processingQ[k].conn
         => processingQ[j].num < processingQ[k].num

(* Once the queue has been scanned, what is still queued is behind a message*)
(* that is running: dispatch() can run a new message at once without        *)
(* overtaking (events.py:265-272).                                          *)
NoneOvertaken ==
  pc \in {"select", "io", "funcs"} =>
    \A k \in DOMAIN processingQ : running[processingQ[k].conn] # 0

(* The main loop does not go to sleep on a finished request: when nothing on*)
(* the trigger connection will end the select, no result of a pool waits and*)
(* no handler is done ("each WorkThread sends a single space on this        *)
(* connection, which causes asyncore to wake up", connection.py:249-252).   *)
NoLostWakeup ==
  pc = "select" /\ ~trigger /\ (\A w \in Worker : worker[w].at # "notify") =>
    /\ \A p \in Pool : resultsQueue[p] = <<>>
    /\ \A c \in Conn : handlerRet[c] \notin Outcome

(* Nor does it go to sleep on a finished message: "this signals to the      *)
(* dispatcher that the next message for this connection can now be          *)
(* processed" (events.py:103-104).                                          *)
NoLostResult == pc = "select" /\ ~trigger => resultQ = <<>>

(* The queues implement SerialConnections: one message of a connection at a *)
(* time, in order, and every message is processed in the end, by the timeout*)
(* of select if by nothing else.                                            *)
Serial == INSTANCE SerialConnections WITH
  finished <- retired,
  started  <- [c \in Conn |-> IF running[c] # 0 THEN running[c] ELSE retired[c]]

ImplementsSerial == Serial!Spec
=============================================================================
