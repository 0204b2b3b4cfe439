-------------------------- MODULE MessageChainProofs --------------------------
(***************************************************************************)
(* Proofs about MessageChain, for every set of handlers, threaded or not,   *)
(* and every phase and effect they can have.                                *)
(***************************************************************************)
EXTENDS MessageChain, SequenceTheorems, TLAPS

Safety == Init /\ [][Next]_vars

-----------------------------------------------------------------------------
(* The inductive invariant: the error handlers that are left, and the one   *)
(* of the pair, are error handlers; and a message that waits for a thread   *)
(* stopped at a threaded handler.                                           *)
Sound(m) ==
  /\ m \in Message
  /\ m.errorHandlers \in Seq(ErrorHandler)
  /\ m.pair[2] \in ErrorHandler \cup {None}
  /\ m.gotException <=> m.retVal = "exception"

IInv ==
  /\ Sound(msg)
  /\ where \in {"main", "thread", "done"}
  /\ where = "thread" => Current(msg) \in Threaded

LEMMA NewSound ==
  ASSUME NEW p \in Phases
  PROVE  Sound(NewMessage(p.handlers, p.errorHandlers))
  <1>1. p.handlers \in Seq(Handler) /\ p.errorHandlers \in Seq(Handler)
    BY MessageChainAssumption
  <1>2. \A k \in DOMAIN p.errorHandlers : p.errorHandlers[k] \in ErrorHandler
    BY <1>1 DEF ErrorHandler
  <1>3. p.errorHandlers \in Seq(ErrorHandler)
    BY <1>1, <1>2
  <1>. QED
    BY <1>1, <1>3 DEF Sound, NewMessage, Message, NoPair

(* A pair that is taken has an error handler from the list, or none.        *)
LEMMA TakenSound ==
  ASSUME NEW m, Sound(m), MustTake(m)
  PROVE  Sound(Taken(m))
  <1>1. /\ m \in Message /\ m.handlers \in Seq(Handler) /\ m.handlers # <<>>
        /\ m.errorHandlers \in Seq(Handler) /\ m.errorHandlers \in Seq(ErrorHandler)
    BY DEF Sound, MustTake, AtEnd, Message
  <1>2. Head(m.handlers) \in Handler /\ Tail(m.handlers) \in Seq(Handler)
    BY <1>1
  <1>3. CASE m.errorHandlers # <<>>
    <2>1. /\ Head(m.errorHandlers) \in Handler /\ Tail(m.errorHandlers) \in Seq(Handler)
          /\ Head(m.errorHandlers) \in ErrorHandler
          /\ Tail(m.errorHandlers) \in Seq(ErrorHandler)
      BY <1>1, <1>3
    <2>2. Taken(m) = [m EXCEPT !.pair = <<Head(m.handlers), Head(m.errorHandlers)>>,
                               !.handlers = Tail(@), !.errorHandlers = Tail(@),
                               !.lastInPair = FALSE]
      BY <1>3 DEF Taken
    <2>3. <<Head(m.handlers), Head(m.errorHandlers)>> \in Handler \X MaybeHandler
      BY <1>2, <2>1 DEF MaybeHandler
    <2>4. Taken(m) \in Message
      BY <1>1, <1>2, <2>1, <2>2, <2>3 DEF Message
    <2>. QED
      BY <1>1, <2>1, <2>2, <2>4 DEF Sound, Message
  <1>4. CASE m.errorHandlers = <<>>
    <2>1. Taken(m) = [m EXCEPT !.pair = <<Head(m.handlers), None>>,
                               !.handlers = Tail(@), !.lastInPair = FALSE]
      BY <1>1, <1>4 DEF Taken, Message
    <2>2. <<Head(m.handlers), None>> \in Handler \X MaybeHandler
      BY <1>2 DEF MaybeHandler
    <2>3. Taken(m) \in Message
      BY <1>1, <1>2, <2>1, <2>2 DEF Message
    <2>. QED
      BY <1>1, <2>1, <2>3 DEF Sound, Message
  <1>. QED
    BY <1>3, <1>4

LEMMA EndPairSound ==
  ASSUME NEW m, Sound(m)
  PROVE  Sound(EndPair(m))
  <1>1. [m EXCEPT !.pair = NoPair] \in Message
    BY DEF Sound, Message
  <1>. QED
    BY <1>1 DEF Sound, EndPair, NoPair, Message

(* A handler may schedule others; how it ends is not yet recorded.          *)
LEMMA TouchedSound ==
  ASSUME NEW m, Sound(m), NEW h \in Handler, NEW e \in Effects[h]
  PROVE  /\ Sound(Touched(m, e))
         /\ Touched(m, e).pair = m.pair
         /\ Touched(m, e).gotException = m.gotException
         /\ Touched(m, e).retVal = m.retVal
         /\ Touched(m, e).lastInPair = m.lastInPair
  <1>1. /\ m \in Message /\ m.handlers \in Seq(Handler) /\ m.errorHandlers \in Seq(Handler)
        /\ m.errorHandlers \in Seq(ErrorHandler) /\ m.stopChain \in BOOLEAN
    BY DEF Sound, Message
  <1>2. /\ e \in Effect /\ e.next \in Seq(Handler) /\ e.nextErrors \in Seq(Handler)
        /\ e.stop \in BOOLEAN
    BY HandlerAssumption DEF Effect
  <1>3. e.nextErrors \in Seq(ErrorHandler)
    <2>1. \A k \in DOMAIN e.nextErrors : e.nextErrors[k] \in ErrorHandler
      BY <1>2 DEF ErrorHandler
    <2>. QED
      BY <1>2, <2>1
  <1>4. /\ e.next \o m.handlers \in Seq(Handler)
        /\ e.nextErrors \o m.errorHandlers \in Seq(Handler)
        /\ e.nextErrors \o m.errorHandlers \in Seq(ErrorHandler)
        /\ (m.stopChain \/ e.stop) \in BOOLEAN
    BY <1>1, <1>2, <1>3
  <1>5. Touched(m, e) = [m EXCEPT !.handlers = e.next \o m.handlers,
                                  !.errorHandlers = e.nextErrors \o m.errorHandlers,
                                  !.stopChain = m.stopChain \/ e.stop]
    BY <1>1 DEF Touched, SetNextHandler, Message
  <1>. QED
    BY <1>1, <1>4, <1>5 DEF Sound, Message

(* What a handler returns is an exception exactly when it raised, if the    *)
(* value it may leave is not one.                                           *)
LEMMA ReturnValueSound ==
  ASSUME NEW m, Sound(m), NEW out \in Outcome, out = "none" => ~m.gotException
  PROVE  /\ ReturnValue(m, out) \in {"none", "value", "exception"}
         /\ ReturnValue(m, out) = "exception" <=> out = "raise"
  <1>1. CASE out = "none"
    BY <1>1 DEF ReturnValue, Sound, Message
  <1>2. CASE out = "value"
    BY <1>2 DEF ReturnValue
  <1>3. CASE out = "raise"
    BY <1>3 DEF ReturnValue
  <1>. QED
    BY <1>1, <1>2, <1>3 DEF Outcome

LEMMA ExecutedSound ==
  ASSUME NEW m, Sound(m), NEW h \in Handler, NEW e \in Effects[h],
         e.out = "none" => ~m.gotException
  PROVE  Sound(Executed(m, e))
  <1>1. Sound(Touched(m, e))
    BY TouchedSound
  <1>2. e.out \in Outcome /\ (e.out = "raise") \in BOOLEAN
    BY HandlerAssumption DEF Effect
  <1>3. /\ ReturnValue(m, e.out) \in {"none", "value", "exception"}
        /\ ReturnValue(m, e.out) = "exception" <=> e.out = "raise"
    BY <1>2, ReturnValueSound
  <1>. QED
    BY <1>1, <1>2, <1>3 DEF Executed, Sound, Message

(* Which of the pair it is, and whether it is the last of it, is no matter. *)
LEMMA LastInPairSound ==
  ASSUME NEW m, Sound(m), NEW b \in BOOLEAN
  PROVE  /\ Sound([m EXCEPT !.lastInPair = b])
         /\ [m EXCEPT !.lastInPair = b].gotException = m.gotException
         /\ Current([m EXCEPT !.lastInPair = b]) = Current(m)
  BY DEF Sound, Message, Current

LEMMA ResumedSound ==
  ASSUME NEW m, Sound(m), NEW out \in Outcome
  PROVE  Sound(Resumed(m, out))
  <1>. DEFINE v == ReturnValue(m, out)
              x == [m EXCEPT !.retVal = v, !.gotException = (v = "exception"),
                             !.lastInPair = @ \/ v # "exception"]
  <1>1. v \in {"none", "value", "exception"}
    BY DEF ReturnValue, Outcome, Sound, Message
  <1>2. (v = "exception") \in BOOLEAN /\ (m.lastInPair \/ v # "exception") \in BOOLEAN
    OBVIOUS
  <1>. HIDE DEF v
  <1>3. Sound(x)
    BY <1>1, <1>2 DEF Sound, Message
  <1>. HIDE DEF x
  <1>4. Sound(EndPair(x))
    BY <1>3, EndPairSound
  <1>. QED
    BY <1>4 DEF Resumed, x, v

-----------------------------------------------------------------------------
LEMMA StepIInv ==
  ASSUME ErrorHandlersAnswer, IInv, [Next]_vars
  PROVE  IInv'
  <1>0. Sound(msg) /\ msg \in Message /\ None \notin Handler
    BY HandlerAssumption DEF IInv, Sound
  <1>1. CASE Take
    BY <1>1, <1>0, TakenSound DEF Take, IInv
  <1>2. CASE RunHandler
    <2>. DEFINE m == [msg EXCEPT !.lastInPair = FALSE]
    <2>1. PICK e \in Effects[msg.pair[1]] : msg' = AfterHandler(msg, e)
      BY <1>2 DEF RunHandler
    <2>2. msg.pair[1] \in Handler /\ ~msg.gotException
      BY <1>0, <1>2 DEF RunHandler, AtLink, Message
    <2>3. Sound(m) /\ ~m.gotException
      BY <1>0, <2>2, LastInPairSound
    <2>. HIDE DEF m
    <2>4. Sound(Executed(m, e))
      BY <2>2, <2>3, ExecutedSound
    <2>5. Sound(EndPair([Executed(m, e) EXCEPT !.lastInPair = TRUE]))
      BY <2>4, LastInPairSound, EndPairSound
    <2>6. msg' = IF Executed(m, e).gotException THEN Executed(m, e)
                 ELSE EndPair([Executed(m, e) EXCEPT !.lastInPair = TRUE])
      BY <2>1 DEF AfterHandler, m
    <2>. QED
      BY <1>2, <2>4, <2>5, <2>6 DEF RunHandler, AtLink, IInv
  <1>3. CASE RunErrorHandler
    <2>. DEFINE m == [msg EXCEPT !.lastInPair = TRUE]
    <2>1. PICK e \in Effects[msg.pair[2]] : msg' = AfterErrorHandler(msg, e)
      BY <1>3 DEF RunErrorHandler
    <2>2. msg.pair[2] \in Handler /\ msg.pair[2] \in ErrorHandler
      BY <1>0, <1>3 DEF RunErrorHandler, Sound
    <2>3. e.out # "none"
      BY <2>2 DEF ErrorHandlersAnswer
    <2>4. Sound(m)
      BY <1>0, LastInPairSound
    <2>. HIDE DEF m
    <2>5. Sound(EndPair(Executed(m, e)))
      BY <2>2, <2>3, <2>4, ExecutedSound, EndPairSound
    <2>. QED
      BY <1>3, <2>1, <2>5 DEF RunErrorHandler, AtLink, AfterErrorHandler, IInv, m
  <1>4. CASE SkipErrorHandler
    BY <1>0, <1>4, LastInPairSound, EndPairSound
    DEF SkipErrorHandler, AtLink, WithoutErrorHandler, IInv
  <1>5. CASE StartThread
    <2>1. msg.gotException \in BOOLEAN
      BY <1>0 DEF Message
    <2>2. Sound(Started(msg)) /\ Current(Started(msg)) = Current(msg)
      BY <1>0, <2>1, LastInPairSound DEF Started
    <2>. QED
      BY <1>5, <2>2 DEF StartThread, IInv
  <1>6. CASE Resume
    <2>1. Current(msg) \in Handler
      BY <1>6, HandlerAssumption DEF Resume, IInv
    <2>2. PICK e \in Effects[Current(msg)] : msg' = Resumed(Touched(msg, e), e.out)
      BY <1>6 DEF Resume
    <2>3. Sound(Touched(msg, e)) /\ e.out \in Outcome
      BY <1>0, <2>1, TouchedSound, HandlerAssumption DEF Effect
    <2>4. Sound(msg')
      BY <2>2, <2>3, ResumedSound
    <2>. QED
      BY <1>6, <2>4 DEF Resume, IInv
  <1>7. CASE Finish
    BY <1>7 DEF Finish, IInv
  <1>8. CASE UNCHANGED vars
    BY <1>8 DEF vars, IInv
  <1>. QED
    BY <1>1, <1>2, <1>3, <1>4, <1>5, <1>6, <1>7, <1>8 DEF Next

(* Of the handlers a message still has, those in the list of error handlers *)
(* are error handlers; and the last value is an exception exactly while the *)
(* chain is failing.                                                        *)
THEOREM Invariant == ASSUME ErrorHandlersAnswer PROVE Safety => []IInv
  <1>1. Init => IInv
    BY NewSound DEF Init, IInv
  <1>2. IInv /\ [Next]_vars => IInv'
    BY StepIInv
  <1>. QED
    BY <1>1, <1>2, PTL DEF Safety

(* process() and resume() hand on an exception exactly while the chain is   *)
(* failing: no regular handler gets a stale one.                            *)
THEOREM NoStaleException == ASSUME ErrorHandlersAnswer PROVE Spec => []ExceptionIffFailing
  <1>1. IInv => ExceptionIffFailing
    BY DEF IInv, Sound, ExceptionIffFailing
  <1>2. Spec => Safety
    BY PTL DEF Spec, Safety
  <1>. QED
    BY <1>1, <1>2, Invariant, PTL

(* resume() makes the chain fail only when the thread has raised.           *)
THEOREM ThreadsFailByRaising == ASSUME ErrorHandlersAnswer PROVE Spec => FailsOnlyByRaising
  <1>. DEFINE A == where = "thread" /\ msg'.gotException
                   => \E e \in Effects[Current(msg)] :
                        e.out = "raise" /\ msg' = Resumed(Touched(msg, e), e.out)
  <1>1. ASSUME IInv, Next, where = "thread", msg'.gotException
        PROVE  \E e \in Effects[Current(msg)] :
                 e.out = "raise" /\ msg' = Resumed(Touched(msg, e), e.out)
    <2>1. Resume
      BY <1>1 DEF Next, Take, RunHandler, RunErrorHandler, SkipErrorHandler, StartThread,
                  Finish, AtLink
    <2>2. PICK e \in Effects[Current(msg)] : msg' = Resumed(Touched(msg, e), e.out)
      BY <2>1 DEF Resume
    <2>. DEFINE m == Touched(msg, e)
                v == ReturnValue(m, e.out)
    <2>3. Current(msg) \in Handler /\ Sound(msg)
      BY <1>1, HandlerAssumption DEF IInv
    <2>4. Sound(m) /\ m.gotException = msg.gotException /\ e.out \in Outcome
      BY <2>3, TouchedSound, HandlerAssumption DEF Effect
    <2>5. e.out = "none" => ~msg.gotException
      <3>1. msg.gotException => Current(msg) \in ErrorHandler
        BY <2>3, HandlerAssumption DEF Current, Sound
      <3>. QED
        BY <3>1 DEF ErrorHandlersAnswer
    <2>6. v = "exception" <=> e.out = "raise"
      BY <2>4, <2>5, ReturnValueSound
    <2>. HIDE DEF m
    <2>7. msg'.gotException <=> v = "exception"
      BY <2>2, <2>4 DEF Resumed, EndPair, Sound, Message, m
    <2>. QED
      BY <1>1, <2>2, <2>6, <2>7
  <1>2. IInv /\ [Next]_vars => [A]_vars
    BY <1>1
  <1>3. Spec => [][A]_vars
    BY <1>2, Invariant, PTL DEF Spec, Safety
  <1>. QED
    BY <1>3 DEF FailsOnlyByRaising

-----------------------------------------------------------------------------
(* The refinement of ChainedHandlers.                                       *)

(* What a message is to the next handler when one has run to its end.       *)
Ran(m, n, e) ==
  /\ n.handlers = e.next \o m.handlers
  /\ n.errorHandlers = e.nextErrors \o m.errorHandlers
  /\ n.gotException = (e.out = "raise")
  /\ n.pair = IF e.out = "raise" /\ ~m.gotException THEN m.pair ELSE NoPair

(* As long as error handlers are left, the handlers of the message are ones *)
(* that schedule nothing.                                                   *)
Plain == {h \in Handler : SchedulesNothing(h)}

Aligned ==
  msg.errorHandlers # <<>> =>
    /\ msg.handlers \in Seq(Plain) /\ msg.errorHandlers \in Seq(Plain)
    /\ msg.pair = NoPair \/ msg.pair \in Plain \X (Plain \cup {None})

(* A thread runs the handler that is the last of the pair if it is the error*)
(* handler.                                                                 *)
ThreadLast == where = "thread" => msg.lastInPair = msg.gotException

(* What stands with the k-th handler in its pair.                           *)
Mate(es, k) == IF k <= Len(es) THEN es[k] ELSE None

LEMMA MateFacts ==
  ASSUME NEW es \in Seq(Handler), NEW k \in Nat \ {0}
  PROVE  /\ Mate(es, k) \in MaybeHandler
         /\ es = <<>> => Mate(es, k) = None
         /\ es # <<>> => /\ Mate(es, 1) = Head(es)
                        /\ Tail(es) \in Seq(Handler)
                        /\ Mate(Tail(es), k) = Mate(es, k + 1)
  <1>1. Mate(es, k) \in MaybeHandler
    BY DEF Mate, MaybeHandler
  <1>2. es = <<>> => Mate(es, k) = None
    BY DEF Mate
  <1>3. ASSUME es # <<>>
        PROVE  /\ Mate(es, 1) = Head(es)
               /\ Tail(es) \in Seq(Handler)
               /\ Mate(Tail(es), k) = Mate(es, k + 1)
    <2>1. /\ Len(es) \in Nat \ {0} /\ Tail(es) \in Seq(Handler) /\ Head(es) = es[1]
          /\ Len(Tail(es)) = Len(es) - 1
          /\ \A j \in 1..(Len(es) - 1) : Tail(es)[j] = es[j + 1]
      BY <1>3
    <2>2. k <= Len(Tail(es)) <=> k + 1 <= Len(es)
      BY <2>1
    <2>3. k <= Len(Tail(es)) => Tail(es)[k] = es[k + 1]
      BY <2>1
    <2>. QED
      BY <2>1, <2>2, <2>3 DEF Mate
  <1>. QED
    BY <1>1, <1>2, <1>3

LEMMA PairedType ==
  ASSUME NEW hs \in Seq(Handler), NEW es \in Seq(Handler)
  PROVE  /\ Paired(hs, es) \in Seq(Handler \X MaybeHandler)
         /\ Len(Paired(hs, es)) = Len(hs)
         /\ \A k \in 1..Len(hs) : Paired(hs, es)[k] = <<hs[k], Mate(es, k)>>
  <1>1. ASSUME NEW k \in 1..Len(hs)
        PROVE  <<hs[k], Mate(es, k)>> \in Handler \X MaybeHandler
    <2>1. hs[k] \in Handler /\ k \in Nat \ {0}
      OBVIOUS
    <2>2. Mate(es, k) \in MaybeHandler
      BY <2>1, MateFacts
    <2>. QED
      BY <2>1, <2>2
  <1>2. Paired(hs, es) = [k \in 1..Len(hs) |-> <<hs[k], Mate(es, k)>>]
    BY DEF Paired, Mate
  <1>. QED
    BY <1>1, <1>2

(* The pairs go one by one.                                                 *)
LEMMA PairedTail ==
  ASSUME NEW hs \in Seq(Handler), NEW es \in Seq(Handler), hs # <<>>
  PROVE  /\ Paired(hs, es) # <<>>
         /\ Head(Paired(hs, es)) =
              <<Head(hs), IF es # <<>> THEN Head(es) ELSE None>>
         /\ Tail(Paired(hs, es)) =
              Paired(Tail(hs), IF es # <<>> THEN Tail(es) ELSE es)
  <1>. DEFINE ts == IF es # <<>> THEN Tail(es) ELSE es
              n == Len(hs) - 1
              q == Paired(hs, es)
              r == Paired(Tail(hs), ts)
  <1>1. /\ n \in Nat /\ Len(hs) = n + 1 /\ Tail(hs) \in Seq(Handler)
        /\ Len(Tail(hs)) = n /\ \A k \in 1..n : Tail(hs)[k] = hs[k + 1]
        /\ Head(hs) = hs[1]
    OBVIOUS
  <1>2. ts \in Seq(Handler) /\ \A k \in Nat \ {0} : Mate(ts, k) = Mate(es, k + 1)
    <2>1. ASSUME es = <<>>, NEW k \in Nat \ {0}
          PROVE  Mate(ts, k) = Mate(es, k + 1)
      <3>1. k + 1 \in Nat \ {0} /\ ts = es
        BY <2>1
      <3>. QED
        BY <2>1, <3>1, MateFacts
    <2>2. ASSUME es # <<>>, NEW k \in Nat \ {0}
          PROVE  Mate(ts, k) = Mate(es, k + 1)
      BY <2>2, MateFacts
    <2>3. ts \in Seq(Handler)
      OBVIOUS
    <2>. QED
      BY <2>1, <2>2, <2>3
  <1>3. /\ q \in Seq(Handler \X MaybeHandler) /\ Len(q) = n + 1
        /\ \A k \in 1..(n + 1) : q[k] = <<hs[k], Mate(es, k)>>
    BY <1>1, PairedType
  <1>4. /\ r \in Seq(Handler \X MaybeHandler) /\ Len(r) = n
        /\ \A k \in 1..n : r[k] = <<Tail(hs)[k], Mate(ts, k)>>
    <2>1. /\ r \in Seq(Handler \X MaybeHandler) /\ Len(r) = Len(Tail(hs))
          /\ \A k \in 1..Len(Tail(hs)) : r[k] = <<Tail(hs)[k], Mate(ts, k)>>
      <3>. HIDE DEF ts
      <3>. QED
        BY <1>1, <1>2, PairedType
    <2>. QED
      BY <1>1, <2>1, Zenon
  <1>. HIDE DEF q, r, n, ts
  <1>5. ASSUME NEW k \in 1..n
        PROVE  r[k] = q[k + 1]
    <2>1. k \in Nat \ {0} /\ k + 1 \in 1..(n + 1)
      BY <1>1
    <2>2. q[k + 1] = <<hs[k + 1], Mate(es, k + 1)>>
      BY <1>3, <2>1
    <2>3. r[k] = <<Tail(hs)[k], Mate(ts, k)>>
      BY <1>4
    <2>. QED
      BY <1>1, <1>2, <2>1, <2>2, <2>3
  <1>6. q # <<>> /\ Head(q) = q[1] /\ 1 \in 1..(n + 1)
    BY <1>1, <1>3
  <1>7. q[1] = <<Head(hs), IF es # <<>> THEN Head(es) ELSE None>>
    <2>1. q[1] = <<Head(hs), Mate(es, 1)>>
      BY <1>1, <1>3, <1>6
    <2>2. Mate(es, 1) = IF es # <<>> THEN Head(es) ELSE None
      BY MateFacts
    <2>. QED
      BY <2>1, <2>2
  <1>8. Tail(q) = r
    <2>1. Tail(q) \in Seq(Handler \X MaybeHandler) /\ Len(Tail(q)) = n
      BY <1>1, <1>3, <1>6
    <2>2. \A k \in 1..n : Tail(q)[k] = q[k + 1]
      BY <1>1, <1>3, <1>6
    <2>. QED
      BY <1>4, <1>5, <2>1, <2>2
  <1>. QED
    BY <1>6, <1>7, <1>8 DEF q, r, ts

(* Handlers that are scheduled without error handlers come before the pairs,*)
(* where they do not move them apart.                                       *)
LEMMA PairedScheduled ==
  ASSUME NEW ns \in Seq(Handler), NEW hs \in Seq(Handler), NEW es \in Seq(Handler),
         ns = <<>> \/ es = <<>>
  PROVE  Paired(ns \o hs, es) = Paired(ns, <<>>) \o Paired(hs, es)
  <1>. DEFINE P == Handler \X MaybeHandler
  <1>1. <<>> \in Seq(Handler) /\ ns \o hs \in Seq(Handler)
    OBVIOUS
  <1>2. CASE ns = <<>>
    <2>1. ns \o hs = hs
      BY <1>2, ConcatEmptySeq
    <2>2. Paired(ns, <<>>) \in Seq(P) /\ Len(Paired(ns, <<>>)) = 0 /\ Paired(hs, es) \in Seq(P)
      BY <1>1, <1>2, PairedType
    <2>3. Paired(ns, <<>>) = <<>>
      BY <2>2
    <2>. QED
      BY <2>1, <2>2, <2>3, ConcatEmptySeq
  <1>3. CASE es = <<>>
    <2>. DEFINE a == Len(ns)
                b == Len(hs)
                q == Paired(ns \o hs, <<>>)
                first == Paired(ns, <<>>)
                last == Paired(hs, <<>>)
                r == first \o last
    <2>1. /\ a \in Nat /\ b \in Nat /\ Len(ns \o hs) = a + b
          /\ \A k \in 1..(a + b) : (ns \o hs)[k] = IF k <= a THEN ns[k] ELSE hs[k - a]
      BY ConcatProperties
    <2>2. /\ q \in Seq(P) /\ Len(q) = a + b
          /\ \A k \in 1..(a + b) : q[k] = <<(ns \o hs)[k], None>>
      <3>1. /\ q \in Seq(P) /\ Len(q) = Len(ns \o hs)
            /\ \A k \in 1..Len(ns \o hs) : q[k] = <<(ns \o hs)[k], Mate(<<>>, k)>>
        BY <1>1, PairedType
      <3>2. \A k \in Nat \ {0} : Mate(<<>>, k) = None
        BY <1>1, MateFacts
      <3>. QED
        BY <2>1, <3>1, <3>2
    <2>3. /\ first \in Seq(P) /\ Len(first) = a
          /\ \A k \in 1..a : first[k] = <<ns[k], None>>
      <3>1. \A k \in 1..a : Mate(<<>>, k) = None
        BY <1>1, MateFacts
      <3>2. /\ first \in Seq(P) /\ Len(first) = a
            /\ \A k \in 1..a : first[k] = <<ns[k], Mate(<<>>, k)>>
        BY <1>1, PairedType, Zenon
      <3>. HIDE DEF P, a, first
      <3>. QED
        BY <3>1, <3>2
    <2>4. /\ last \in Seq(P) /\ Len(last) = b
          /\ \A k \in 1..b : last[k] = <<hs[k], None>>
      <3>1. \A k \in 1..b : Mate(<<>>, k) = None
        BY <1>1, MateFacts
      <3>2. /\ last \in Seq(P) /\ Len(last) = b
            /\ \A k \in 1..b : last[k] = <<hs[k], Mate(<<>>, k)>>
        BY <1>1, PairedType, Zenon
      <3>. HIDE DEF P, b, last
      <3>. QED
        BY <3>1, <3>2
    <2>. HIDE DEF P, a, b, q, first, last
    <2>5. /\ r \in Seq(P) /\ Len(r) = a + b
          /\ \A k \in 1..(a + b) : r[k] = IF k <= a THEN first[k] ELSE last[k - a]
      BY <2>3, <2>4, ConcatProperties
    <2>. HIDE DEF r
    <2>6. ASSUME NEW k \in 1..(a + b)
          PROVE  q[k] = r[k]
      <3>1. CASE k <= a
        <4>1. k \in 1..a
          BY <2>1, <3>1
        <4>. QED
          BY <2>1, <2>2, <2>3, <2>5, <3>1, <4>1
      <3>2. CASE ~(k <= a)
        <4>1. k - a \in 1..b
          BY <2>1, <3>2
        <4>. QED
          BY <2>1, <2>2, <2>4, <2>5, <3>2, <4>1
      <3>. QED
        BY <3>1, <3>2
    <2>7. q = r
      BY <2>2, <2>5, <2>6, SeqEqual
    <2>. QED
      BY <1>3, <2>7 DEF q, r, first, last
  <1>. QED
    BY <1>2, <1>3

-----------------------------------------------------------------------------
(* Every action that runs a handler, in process() or in a thread, leaves    *)
(* what Ran says.                                                           *)
LEMMA RunsHandler ==
  ASSUME ErrorHandlersAnswer, IInv, ThreadLast, RunHandler \/ RunErrorHandler \/ Resume
  PROVE  /\ msg.pair # NoPair /\ Current(msg) \in Handler
         /\ \E e \in Effects[Current(msg)] : Ran(msg, msg', e)
  <1>1. /\ Sound(msg) /\ msg \in Message /\ None \notin Handler
        /\ msg.gotException \in BOOLEAN
    BY HandlerAssumption DEF IInv, Sound, Message
  <1>2. Current(msg) \in Handler => msg.pair # NoPair
    BY <1>1 DEF Current, NoPair
  <1>3. ASSUME NEW m, Sound(m), NEW h \in Handler, NEW e \in Effects[h]
        PROVE  /\ Executed(m, e).handlers = e.next \o m.handlers
               /\ Executed(m, e).errorHandlers = e.nextErrors \o m.errorHandlers
               /\ Executed(m, e).gotException = (e.out = "raise")
               /\ Executed(m, e).pair = m.pair
               /\ Executed(m, e).lastInPair = m.lastInPair
               /\ Touched(m, e).handlers = e.next \o m.handlers
               /\ Touched(m, e).errorHandlers = e.nextErrors \o m.errorHandlers
    BY <1>3 DEF Executed, Touched, SetNextHandler, Sound, Message
  <1>4. ASSUME NEW m, Sound(m)
        PROVE  /\ EndPair(m).handlers = m.handlers
               /\ EndPair(m).errorHandlers = m.errorHandlers
               /\ EndPair(m).gotException = m.gotException
               /\ EndPair(m).pair = IF m.lastInPair THEN NoPair ELSE m.pair
    BY <1>4 DEF EndPair, Sound, Message
  <1>5. ASSUME NEW m, Sound(m), NEW b \in BOOLEAN
        PROVE  /\ [m EXCEPT !.lastInPair = b].handlers = m.handlers
               /\ [m EXCEPT !.lastInPair = b].errorHandlers = m.errorHandlers
               /\ [m EXCEPT !.lastInPair = b].pair = m.pair
               /\ [m EXCEPT !.lastInPair = b].gotException = m.gotException
               /\ [m EXCEPT !.lastInPair = b].lastInPair = b
    BY <1>5 DEF Sound, Message
  <1>6. CASE RunHandler
    <2>. DEFINE m == [msg EXCEPT !.lastInPair = FALSE]
    <2>1. PICK e \in Effects[msg.pair[1]] : msg' = AfterHandler(msg, e)
      BY <1>6 DEF RunHandler
    <2>2. ~msg.gotException /\ msg.pair # NoPair /\ msg.pair[1] \in Handler
      BY <1>1, <1>6 DEF RunHandler, AtLink, Message
    <2>3. Current(msg) = msg.pair[1]
      BY <2>2 DEF Current
    <2>4. /\ Sound(m) /\ m.handlers = msg.handlers /\ m.errorHandlers = msg.errorHandlers
          /\ m.pair = msg.pair /\ ~m.gotException
      BY <1>1, <1>5, <2>2, LastInPairSound
    <2>. HIDE DEF m
    <2>. DEFINE x == Executed(m, e)
                y == [x EXCEPT !.lastInPair = TRUE]
    <2>5. /\ x.handlers = e.next \o m.handlers
          /\ x.errorHandlers = e.nextErrors \o m.errorHandlers
          /\ x.gotException = (e.out = "raise") /\ x.pair = m.pair
      BY <1>3, <2>2, <2>4
    <2>6. Sound(x)
      BY <2>2, <2>4, ExecutedSound
    <2>7. msg' = IF x.gotException THEN x ELSE EndPair(y)
      BY <2>1 DEF AfterHandler, m
    <2>. HIDE DEF x
    <2>8. /\ Sound(y) /\ y.handlers = x.handlers /\ y.errorHandlers = x.errorHandlers
          /\ y.pair = x.pair /\ y.gotException = x.gotException /\ y.lastInPair = TRUE
      BY <1>5, <2>6, LastInPairSound
    <2>. HIDE DEF y
    <2>9. /\ EndPair(y).handlers = x.handlers /\ EndPair(y).errorHandlers = x.errorHandlers
          /\ EndPair(y).gotException = x.gotException /\ EndPair(y).pair = NoPair
      BY <1>4, <2>8
    <2>10. CASE e.out = "raise"
      BY <2>2, <2>3, <2>4, <2>5, <2>7, <2>10 DEF Ran
    <2>11. CASE e.out # "raise"
      <3>1. msg' = EndPair(y) /\ x.gotException = FALSE
        BY <2>5, <2>7, <2>11
      <3>2. Ran(msg, msg', e)
        BY <2>4, <2>5, <2>9, <2>11, <3>1 DEF Ran
      <3>. QED
        BY <2>2, <2>3, <3>2
    <2>. QED
      BY <2>10, <2>11
  <1>7. CASE RunErrorHandler
    <2>. DEFINE m == [msg EXCEPT !.lastInPair = TRUE]
    <2>1. PICK e \in Effects[msg.pair[2]] : msg' = AfterErrorHandler(msg, e)
      BY <1>7 DEF RunErrorHandler
    <2>2. /\ msg.gotException = TRUE /\ msg.pair[2] \in Handler
          /\ msg.pair[2] \in ErrorHandler
      BY <1>1, <1>7 DEF RunErrorHandler, Sound
    <2>3. Current(msg) = msg.pair[2] /\ e.out # "none"
      BY <2>2 DEF Current, ErrorHandlersAnswer
    <2>4. /\ Sound(m) /\ m.handlers = msg.handlers /\ m.errorHandlers = msg.errorHandlers
          /\ m.pair = msg.pair /\ m.lastInPair = TRUE
      BY <1>1, <1>5, LastInPairSound
    <2>. HIDE DEF m
    <2>. DEFINE x == Executed(m, e)
    <2>5. /\ x.handlers = e.next \o m.handlers
          /\ x.errorHandlers = e.nextErrors \o m.errorHandlers
          /\ x.gotException = (e.out = "raise") /\ x.lastInPair = TRUE
      BY <1>3, <2>2, <2>4
    <2>6. Sound(x)
      BY <2>2, <2>3, <2>4, ExecutedSound
    <2>7. msg' = EndPair(x)
      BY <2>1 DEF AfterErrorHandler, m
    <2>. HIDE DEF x
    <2>8. /\ msg'.handlers = x.handlers /\ msg'.errorHandlers = x.errorHandlers
          /\ msg'.gotException = x.gotException /\ msg'.pair = NoPair
      BY <1>4, <2>5, <2>6, <2>7
    <2>9. Ran(msg, msg', e)
      BY <2>2, <2>4, <2>5, <2>8 DEF Ran
    <2>. QED
      BY <1>2, <2>2, <2>3, <2>9
  <1>8. CASE Resume
    <2>1. /\ Current(msg) \in Handler /\ msg.lastInPair = msg.gotException
          /\ msg.gotException => Current(msg) \in ErrorHandler
      BY <1>1, <1>8, HandlerAssumption DEF Resume, IInv, ThreadLast, Current, Sound
    <2>2. PICK e \in Effects[Current(msg)] : msg' = Resumed(Touched(msg, e), e.out)
      BY <1>8 DEF Resume
    <2>. DEFINE m == Touched(msg, e)
                v == ReturnValue(m, e.out)
                x == [m EXCEPT !.retVal = v, !.gotException = (v = "exception"),
                               !.lastInPair = @ \/ v # "exception"]
    <2>3. /\ Sound(m) /\ m.gotException = msg.gotException /\ m.pair = msg.pair
          /\ m.lastInPair = msg.lastInPair /\ m.handlers = e.next \o msg.handlers
          /\ m.errorHandlers = e.nextErrors \o msg.errorHandlers /\ e.out \in Outcome
      <3>1. e.out \in Outcome
        BY <2>1, HandlerAssumption DEF Effect
      <3>2. m.handlers = e.next \o msg.handlers /\ m.errorHandlers = e.nextErrors \o msg.errorHandlers
        BY <1>1, <1>3, <2>1
      <3>3. /\ Sound(m) /\ m.pair = msg.pair /\ m.gotException = msg.gotException
            /\ m.lastInPair = msg.lastInPair
        BY <1>1, <2>1, TouchedSound
      <3>. QED
        BY <3>1, <3>2, <3>3
    <2>4. e.out = "none" => ~msg.gotException
      BY <2>1 DEF ErrorHandlersAnswer
    <2>5. /\ v \in {"none", "value", "exception"}
          /\ v = "exception" <=> e.out = "raise"
      BY <2>3, <2>4, ReturnValueSound
    <2>6. msg' = EndPair(x)
      BY <2>2 DEF Resumed
    <2>. HIDE DEF v, m
    <2>7. /\ Sound(x) /\ x.handlers = m.handlers /\ x.errorHandlers = m.errorHandlers
          /\ x.gotException = (e.out = "raise") /\ x.pair = m.pair
          /\ x.lastInPair = (msg.gotException \/ e.out # "raise")
      BY <2>1, <2>3, <2>5 DEF Sound, Message
    <2>. HIDE DEF x
    <2>8. /\ msg'.handlers = x.handlers /\ msg'.errorHandlers = x.errorHandlers
          /\ msg'.gotException = x.gotException
          /\ msg'.pair = IF x.lastInPair THEN NoPair ELSE x.pair
      BY <1>4, <2>6, <2>7
    <2>9. Ran(msg, msg', e)
      BY <1>1, <2>3, <2>7, <2>8 DEF Ran
    <2>. QED
      BY <1>2, <2>1, <2>9
  <1>. QED
    BY <1>6, <1>7, <1>8

(* What a handler schedules comes before what is left, as pairs of its own. *)
LEMMA RanPairs ==
  ASSUME ListsStayPaired, IInv, Aligned, msg.pair # NoPair, Current(msg) \in Handler,
         NEW e \in Effects[Current(msg)], Ran(msg, msg', e)
  PROVE  /\ Paired(msg'.handlers, msg'.errorHandlers)
              = Paired(e.next, e.nextErrors) \o Paired(msg.handlers, msg.errorHandlers)
         /\ msg.errorHandlers # <<>> => msg'.handlers = msg.handlers
         /\ msg'.errorHandlers = msg.errorHandlers
  <1>1. /\ msg.handlers \in Seq(Handler) /\ msg.errorHandlers \in Seq(Handler)
        /\ msg.pair \in {NoPair} \cup (Handler \X MaybeHandler) /\ None \notin Handler
    BY HandlerAssumption DEF IInv, Sound, Message
  <1>2. e.next \in Seq(Handler) /\ e.nextErrors = <<>>
    BY HandlerAssumption DEF Effect, ListsStayPaired
  <1>3. msg'.handlers = e.next \o msg.handlers /\ msg'.errorHandlers = msg.errorHandlers
    BY <1>1, <1>2, ConcatEmptySeq DEF Ran
  <1>4. msg.errorHandlers # <<>> => e.next = <<>>
    BY <1>1 DEF Aligned, Plain, SchedulesNothing, Current
  <1>5. Paired(e.next \o msg.handlers, msg.errorHandlers)
          = Paired(e.next, <<>>) \o Paired(msg.handlers, msg.errorHandlers)
    BY <1>1, <1>2, <1>4, PairedScheduled
  <1>6. e.next = <<>> => e.next \o msg.handlers = msg.handlers
    BY <1>1, ConcatEmptySeq
  <1>. QED
    BY <1>2, <1>3, <1>4, <1>5, <1>6

LEMMA AlignedStep ==
  ASSUME ErrorHandlersAnswer, ListsStayPaired, IInv, ThreadLast, Aligned, [Next]_vars
  PROVE  Aligned' /\ ThreadLast'
  <1>1. /\ msg \in Message /\ msg.handlers \in Seq(Handler) /\ msg.errorHandlers \in Seq(Handler)
        /\ msg.gotException \in BOOLEAN
    BY DEF IInv, Sound, Message
  <1>2. CASE Take
    <2>1. /\ msg.handlers # <<>> /\ msg' = Taken(msg) /\ where' = "main"
      BY <1>2 DEF Take, MustTake, AtEnd
    <2>2. ASSUME msg'.errorHandlers # <<>>
          PROVE  /\ msg'.handlers \in Seq(Plain) /\ msg'.errorHandlers \in Seq(Plain)
                 /\ msg'.pair \in Plain \X (Plain \cup {None})
      <3>1. msg.errorHandlers # <<>>
        BY <1>1, <2>1, <2>2 DEF Taken, Message
      <3>2. /\ msg'.pair = <<Head(msg.handlers), Head(msg.errorHandlers)>>
            /\ msg'.handlers = Tail(msg.handlers)
            /\ msg'.errorHandlers = Tail(msg.errorHandlers)
        BY <1>1, <2>1, <3>1 DEF Taken, Message
      <3>3. msg.handlers \in Seq(Plain) /\ msg.errorHandlers \in Seq(Plain)
        BY <3>1 DEF Aligned
      <3>. QED
        BY <2>1, <3>1, <3>2, <3>3
    <2>. QED
      BY <2>1, <2>2 DEF Aligned, ThreadLast
  <1>3. CASE RunHandler \/ RunErrorHandler \/ Resume
    <2>1. PICK e \in Effects[Current(msg)] : Ran(msg, msg', e)
      BY <1>3, RunsHandler
    <2>2. /\ msg.errorHandlers # <<>> => msg'.handlers = msg.handlers
          /\ msg'.errorHandlers = msg.errorHandlers
      BY <1>3, <2>1, RunsHandler, RanPairs
    <2>3. msg'.pair = msg.pair \/ msg'.pair = NoPair
      BY <2>1 DEF Ran
    <2>4. where' = "main"
      BY <1>3 DEF RunHandler, RunErrorHandler, Resume, AtLink
    <2>. QED
      BY <2>2, <2>3, <2>4 DEF Aligned, ThreadLast
  <1>4. CASE SkipErrorHandler
    <2>1. /\ msg'.handlers = msg.handlers /\ msg'.errorHandlers = msg.errorHandlers
          /\ msg'.pair = NoPair /\ where' = "main"
      BY <1>1, <1>4 DEF SkipErrorHandler, AtLink, WithoutErrorHandler, EndPair, Message
    <2>. QED
      BY <2>1 DEF Aligned, ThreadLast
  <1>5. CASE StartThread
    <2>1. /\ msg'.handlers = msg.handlers /\ msg'.errorHandlers = msg.errorHandlers
          /\ msg'.pair = msg.pair /\ msg'.lastInPair = msg'.gotException
      BY <1>1, <1>5 DEF StartThread, Started, Message
    <2>. QED
      BY <2>1 DEF Aligned, ThreadLast
  <1>6. CASE Finish
    BY <1>6 DEF Finish, Aligned, ThreadLast
  <1>7. CASE UNCHANGED vars
    BY <1>7 DEF vars, Aligned, ThreadLast
  <1>. QED
    BY <1>2, <1>3, <1>4, <1>5, <1>6, <1>7 DEF Next

(* Every step of the loop is a step of the design, or none.                 *)
LEMMA StepRefines ==
  ASSUME ErrorHandlersAnswer, ListsStayPaired, IInv, ThreadLast, Aligned, [Next]_vars
  PROVE  [Design!Next]_(Design!vars)
  <1>1. /\ msg \in Message /\ msg.handlers \in Seq(Handler) /\ msg.errorHandlers \in Seq(Handler)
        /\ msg.gotException \in BOOLEAN /\ None \notin Handler
        /\ msg.pair \in {NoPair} \cup (Handler \X MaybeHandler)
    BY HandlerAssumption DEF IInv, Sound, Message
  <1>2. CASE Take
    <2>1. /\ msg.handlers # <<>> /\ msg.pair = NoPair /\ msg' = Taken(msg)
      BY <1>2 DEF Take, MustTake, AtEnd
    <2>2. /\ msg'.handlers = Tail(msg.handlers)
          /\ msg'.errorHandlers = IF msg.errorHandlers # <<>> THEN Tail(msg.errorHandlers)
                                  ELSE msg.errorHandlers
          /\ msg'.pair = <<Head(msg.handlers), IF msg.errorHandlers # <<>>
                                               THEN Head(msg.errorHandlers) ELSE None>>
          /\ msg'.gotException = msg.gotException
      BY <1>1, <2>1 DEF Taken, Message
    <2>3. /\ Paired(msg.handlers, msg.errorHandlers) # <<>>
          /\ Head(Paired(msg.handlers, msg.errorHandlers)) = msg'.pair
          /\ Tail(Paired(msg.handlers, msg.errorHandlers))
               = Paired(msg'.handlers, msg'.errorHandlers)
      <3>1. Paired(msg'.handlers, msg'.errorHandlers)
              = Paired(Tail(msg.handlers), IF msg.errorHandlers # <<>>
                                           THEN Tail(msg.errorHandlers)
                                           ELSE msg.errorHandlers)
        BY <2>2
      <3>2. /\ Paired(msg.handlers, msg.errorHandlers) # <<>>
            /\ Head(Paired(msg.handlers, msg.errorHandlers))
                 = <<Head(msg.handlers), IF msg.errorHandlers # <<>>
                                         THEN Head(msg.errorHandlers) ELSE None>>
            /\ Tail(Paired(msg.handlers, msg.errorHandlers))
                 = Paired(Tail(msg.handlers), IF msg.errorHandlers # <<>>
                                              THEN Tail(msg.errorHandlers)
                                              ELSE msg.errorHandlers)
        BY <1>1, <2>1, PairedTail, Zenon
      <3>3. Head(Paired(msg.handlers, msg.errorHandlers)) = msg'.pair
        BY <2>2, <3>2, Zenon
      <3>. QED
        BY <3>1, <3>2, <3>3, Zenon
    <2>. QED
      BY <2>1, <2>2, <2>3 DEF Design!Next, Design!Take
  <1>3. CASE RunHandler \/ RunErrorHandler \/ Resume
    <2>1. /\ msg.pair # NoPair /\ Current(msg) \in Handler
          /\ \E e \in Effects[Current(msg)] : Ran(msg, msg', e)
      BY <1>3, RunsHandler
    <2>2. PICK e \in Effects[Current(msg)] : Ran(msg, msg', e)
      BY <2>1
    <2>. DEFINE new == Paired(e.next, e.nextErrors)
                all == {Paired(f.next, f.nextErrors) :
                          f \in UNION {Effects[h] : h \in Handler}}
    <2>3. Paired(msg'.handlers, msg'.errorHandlers)
            = new \o Paired(msg.handlers, msg.errorHandlers)
      BY <2>1, <2>2, RanPairs
    <2>4. new \in all /\ (e.out = "raise") \in BOOLEAN
      BY <2>1
    <2>. HIDE DEF new
    <2>5. CASE msg.gotException
      <3>1. msg.pair \in Handler \X Handler
        BY <1>1, <2>1, <2>5 DEF Current, MaybeHandler, NoPair
      <3>2. msg'.pair = NoPair /\ msg'.gotException = (e.out = "raise")
        BY <2>2, <2>5 DEF Ran
      <3>3. Design!HandleError
        BY <2>1, <2>3, <2>4, <2>5, <3>1, <3>2 DEF Design!HandleError
      <3>. QED
        BY <3>3 DEF Design!Next
    <2>6. CASE ~msg.gotException
      <3>1. /\ msg'.pair = IF e.out = "raise" THEN msg.pair ELSE NoPair
            /\ msg'.gotException = (e.out = "raise")
        BY <2>2, <2>6 DEF Ran
      <3>2. Design!Handle
        BY <2>1, <2>3, <2>4, <2>6, <3>1 DEF Design!Handle
      <3>. QED
        BY <3>2 DEF Design!Next
    <2>. QED
      BY <2>5, <2>6
  <1>4. CASE SkipErrorHandler
    <2>1. /\ msg.pair # NoPair /\ msg.gotException /\ msg.pair[2] = None
      BY <1>4 DEF SkipErrorHandler, AtLink
    <2>2. /\ msg'.handlers = msg.handlers /\ msg'.errorHandlers = msg.errorHandlers
          /\ msg'.pair = NoPair /\ msg'.gotException = msg.gotException
      BY <1>1, <1>4 DEF SkipErrorHandler, WithoutErrorHandler, EndPair, Message
    <2>3. msg.pair \notin Handler \X Handler
      BY <1>1, <2>1
    <2>. QED
      BY <2>1, <2>2, <2>3 DEF Design!Next, Design!Skip
  <1>5. CASE StartThread
    <2>1. /\ msg'.handlers = msg.handlers /\ msg'.errorHandlers = msg.errorHandlers
          /\ msg'.pair = msg.pair /\ msg'.gotException = msg.gotException
      BY <1>1, <1>5 DEF StartThread, Started, Message
    <2>. QED
      BY <2>1 DEF Design!vars
  <1>6. CASE Finish
    BY <1>6 DEF Finish, Design!vars
  <1>7. CASE UNCHANGED vars
    BY <1>7 DEF vars, Design!vars
  <1>. QED
    BY <1>2, <1>3, <1>4, <1>5, <1>6, <1>7 DEF Next

LEMMA StartsAligned ==
  ASSUME ListsStayPaired, Init
  PROVE  Aligned /\ ThreadLast /\ Design!Init
  <1>1. PICK p \in Phases : msg = NewMessage(p.handlers, p.errorHandlers)
    BY DEF Init
  <1>2. p.handlers \in Seq(Handler) /\ p.errorHandlers \in Seq(Handler)
    BY MessageChainAssumption
  <1>3. /\ msg.handlers = p.handlers /\ msg.errorHandlers = p.errorHandlers
        /\ msg.pair = NoPair /\ msg.gotException = FALSE
    BY <1>1 DEF NewMessage
  <1>4. ASSUME p.errorHandlers # <<>>
        PROVE  p.handlers \in Seq(Plain) /\ p.errorHandlers \in Seq(Plain)
    <2>1. /\ \A k \in DOMAIN p.handlers : p.handlers[k] \in Plain
          /\ \A k \in DOMAIN p.errorHandlers : p.errorHandlers[k] \in Plain
      BY <1>2, <1>4 DEF ListsStayPaired, Plain
    <2>. QED
      BY <1>2, <2>1
  <1>5. Design!Init
    BY <1>3 DEF Design!Init
  <1>. QED
    BY <1>3, <1>4, <1>5 DEF Aligned, ThreadLast, Init

(* The loop of process() and its threads implement "Chained Handlers" of    *)
(* docs/design.md, for every set of handlers whose two lists stay paired and*)
(* whose error handlers return a value or raise.                            *)
THEOREM Refinement ==
  ASSUME ErrorHandlersAnswer, ListsStayPaired
  PROVE  Spec => ImplementsDesign
  <1>1. Init => Design!Init /\ Aligned /\ ThreadLast
    BY StartsAligned
  <1>2. IInv /\ Aligned /\ ThreadLast /\ [Next]_vars => Aligned' /\ ThreadLast'
    BY AlignedStep
  <1>3. IInv /\ Aligned /\ ThreadLast /\ [Next]_vars => [Design!Next]_(Design!vars)
    BY StepRefines
  <1>4. Safety => []IInv
    BY Invariant
  <1>. QED
    BY <1>1, <1>2, <1>3, <1>4, PTL DEF Spec, Safety, ImplementsDesign, Design!Spec
=============================================================================
