------------------------------ MODULE Session -------------------------------
(***************************************************************************)
(* Connections of clients from the accept to the clean-up: the stream, the  *)
(* authentication (handlers/auth.py, auth_mechanisms.py), the binding of a  *)
(* resource (handlers/iq.py) and the two ways a stream ends.  The input of  *)
(* a connection goes through its Parser.                                    *)
(*                                                                          *)
(* The main loop reads, parses and runs the in-process handlers; workers    *)
(* run the threaded ones.  The messages of a connection are handled one at  *)
(* a time and in order, which is module Engine.  iq-auth binds a resource   *)
(* in a worker and iq-bind in the main loop, with the same function, so that*)
(* function is cut at each access to the tables both use.                   *)
(***************************************************************************)
EXTENDS Naturals, Sequences, SequencesExt, FiniteSets, Functions

CONSTANTS
  Conn,         \* connections
  User, UserOf, \* UserOf[c]: the account the client of c authenticates as
  Kinds,        \* Kinds[c]: what the client of c may send
  Restarting,   \* clients that send a new <stream> after SASL, as they should
  Failing,      \* connections whose socket may fail while it is read
  MaxStanzas,   \* bound: MaxStanzas[c] stanzas come from the client of c
  MaxEnds,      \* bound: queued ends per connection (one is added per poll)
  None          \* no resource, no message

(* Requests, by what a handler makes of them; "answer-..." are responses to *)
(* a SASL challenge; "early" and "rebind" are binds out of turn.            *)
SaslKind   == {"plain-good", "plain-bad", "digest", "answer-good", "answer-bad",
               "answer-empty"}
IqAuthKind == {"iqauth-good", "iqauth-bad"}
BindKind   == {"bind", "early", "rebind"}
Kind       == SaslKind \cup IqAuthKind \cup BindKind \cup {"ask", "presence"}

ASSUME SessionAssumption ==
  /\ UserOf \in [Conn -> User]
  /\ Kinds \in [Conn -> SUBSET Kind]
  /\ Restarting \subseteq Conn /\ Failing \subseteq Conn
  /\ MaxStanzas \in [Conn -> Nat] /\ MaxEnds \in Nat \ {0}
  /\ None \notin Nat

(* A stanza, numbered as its client sends it.                               *)
Stanza == [kind : Kind, no : Nat \ {0}]

INSTANCE Parser WITH NoStanza <- None

VARIABLES
  client,     \* client[c]: what the client has sent, and how it has left
  net,        \* net[c]: symbols on their way to the server
  socket,     \* socket[c]: the server's end
  parser,     \* parser[c]
  queue,      \* queue[c]: messages waiting for those before them
  job,        \* job[c]: the message being processed
  data,       \* data[c]: conn.data
  conns,      \* conns[c]: the JID in server.conns, or "absent"
  resources,  \* data['resources']: per user with an entry, resource -> connection
  generated,  \* resource names made up so far
  offered,    \* history: the features the client was offered last
  handled,    \* history: the stanzas dispatched, by number
  split,      \* history: a first tag after a reset arrived in two chunks
  halted,     \* history: connections whose last presence raised
  raced       \* history: users who were binding on two connections at once

tables == <<conns, resources, generated>>
history == <<offered, handled, split, halted>>
vars == <<client, net, socket, parser, queue, job, data, tables, history, raced>>

(* The resource all clients ask for is 0; made-up names are numbered.       *)
Name == Nat

MessageKind == Kind \cup {"init", "reinit", "end"}

(* A bind has a name; seen are the names a last presence goes through.      *)
Idle == [at |-> "idle", kind |-> "ask", name |-> 0, seen |-> {}]

NoSasl == [mech |-> "none", progress |-> FALSE, complete |-> FALSE, state |-> 0, failures |-> 0]

(* The types of the state: a digest exchange is in one of three states and  *)
(* has at most two failures (auth_mechanisms.py:121-127).                   *)
TypeOK ==
  /\ client \in [Conn -> [headers : 0..2, sent : Nat,
                          end : {"no", "close", "eof", "reset"}]]
  /\ \A c \in Conn :
       /\ net[c] \in Seq(Symbol) /\ parser[c] \in Parser
       /\ queue[c] \in Seq([kind : MessageKind])
       /\ handled[c] \in Seq(Nat)
  /\ socket \in [Conn -> {"none", "open", "closed"}]
  /\ job \in [Conn -> [at : {"idle", "act", "check", "look", "create", "put", "last", "listing"},
                       kind : MessageKind, name : Name, seen : SUBSET Name]]
  /\ data \in [Conn -> [jid : BOOLEAN, resource : Name \cup {None}, closing : BOOLEAN,
                        active : BOOLEAN,
                        sasl : [mech : {"none", "plain", "digest"}, progress : BOOLEAN,
                                complete : BOOLEAN, state : 0..2, failures : 0..2]]]
  /\ conns \in [Conn -> {"absent", "unnamed", "named"}]
  /\ DOMAIN resources \subseteq User
  /\ \A u \in DOMAIN resources :
       /\ DOMAIN resources[u] \subseteq Name
       /\ \A n \in DOMAIN resources[u] : resources[u][n] \in Conn
  /\ generated \in Name
  /\ offered \in [Conn -> {"none", "auth", "bind"}]
  /\ split \in [Conn -> BOOLEAN]
  /\ halted \subseteq Conn
  /\ raced \subseteq User

Init ==
  /\ client = [c \in Conn |-> [headers |-> 0, sent |-> 0, end |-> "no"]]
  /\ net = [c \in Conn |-> <<>>]
  /\ socket = [c \in Conn |-> "none"]
  /\ parser = [c \in Conn |-> NewParser]
  /\ queue = [c \in Conn |-> <<>>]
  /\ job = [c \in Conn |-> Idle]
  /\ data = [c \in Conn |-> [jid |-> FALSE, resource |-> None, closing |-> FALSE,
                             active |-> FALSE, sasl |-> NoSasl]]
  /\ conns = [c \in Conn |-> "absent"]
  /\ resources = <<>>
  /\ generated = 0
  /\ offered = [c \in Conn |-> "none"]
  /\ handled = [c \in Conn |-> <<>>]
  /\ split = [c \in Conn |-> FALSE]
  /\ halted = {}
  /\ raced = {}

-----------------------------------------------------------------------------
(* The client.  Until its resource is bound it waits for each answer, as the*)
(* protocol has it; then it sends without waiting.  It leaves when it likes.*)

Answered(c) ==
  /\ net[c] = <<>> /\ queue[c] = <<>> /\ job[c].at = "idle"
  /\ Len(handled[c]) = client[c].sent

HeaderDue(c) ==
  \/ client[c].headers = 0
  \/ c \in Restarting /\ client[c].headers = 1 /\ data[c].sasl.complete

OwnResource(c) == data[c].jid /\ data[c].resource # None

(* c is inside of bindResource(), past its first look at the tables.        *)
Binding(c) == job[c].at \in {"look", "create", "put"}

(* When a client may send a stanza of kind k.                               *)
InTurn(c, k) ==
  CASE k \in {"ask", "presence"} -> OwnResource(c) /\ ~Binding(c)
    [] k = "bind" -> Answered(c) /\ data[c].jid /\ ~OwnResource(c)
    [] k = "rebind" -> Answered(c) /\ OwnResource(c)
    [] k \in {"answer-good", "answer-bad", "answer-empty"} ->
         Answered(c) /\ ~data[c].jid /\ data[c].sasl.mech = "digest"
    [] OTHER -> Answered(c) /\ ~data[c].jid

Connected(c) == socket[c] = "open" /\ client[c].end = "no"

Accept(c) ==
  /\ socket[c] = "none"
  /\ socket' = [socket EXCEPT ![c] = "open"]
  /\ conns' = [conns EXCEPT ![c] = "unnamed"]
  /\ UNCHANGED <<client, net, parser, queue, job, data, resources, generated, history, raced>>

SendHeader(c) ==
  /\ Connected(c) /\ Answered(c) /\ HeaderDue(c)
  /\ client' = [client EXCEPT ![c].headers = @ + 1]
  /\ net' = [net EXCEPT ![c] = @ \o OpenTag]
  /\ UNCHANGED <<socket, parser, queue, job, data, tables, history, raced>>

SendStanza(c) ==
  /\ Connected(c) /\ ~HeaderDue(c)
  /\ client[c].sent < MaxStanzas[c]
  /\ \E k \in Kinds[c] :
       /\ InTurn(c, k)
       /\ net' = [net EXCEPT ![c] = @ \o Text([kind |-> k, no |-> client[c].sent + 1])]
  /\ client' = [client EXCEPT ![c].sent = @ + 1]
  /\ UNCHANGED <<socket, parser, queue, job, data, tables, history, raced>>

SendClose(c) ==
  /\ Connected(c) /\ client[c].headers > 0
  /\ client' = [client EXCEPT ![c].end = "close"]
  /\ net' = [net EXCEPT ![c] = @ \o CloseTag]
  /\ UNCHANGED <<socket, parser, queue, job, data, tables, history, raced>>

Leave(c) ==
  /\ socket[c] = "open" /\ client[c].end \in {"no", "close"}
  /\ client' = [client EXCEPT ![c].end = "eof"]
  /\ UNCHANGED <<net, socket, parser, queue, job, data, tables, history, raced>>

(* The network fails: what is under way is lost.                            *)
Fail(c) ==
  /\ c \in Failing
  /\ socket[c] = "open" /\ client[c].end \in {"no", "close"}
  /\ client' = [client EXCEPT ![c].end = "reset"]
  /\ net' = [net EXCEPT ![c] = <<>>]
  /\ UNCHANGED <<socket, parser, queue, job, data, tables, history, raced>>

-----------------------------------------------------------------------------
(* The main loop reads.                                                     *)

(* It is inside of iq-bind.                                                 *)
MainBusy == \E c \in Conn : job[c].kind \in BindKind /\ (job[c].at = "check" \/ Binding(c))

(* The numbers of the stanzas among the events.                             *)
Numbers(events) ==
  FlattenSeq([i \in DOMAIN events |->
                IF events[i].kind = "stanza" THEN <<events[i].stanza.no>> ELSE <<>>])

(* handle_read(): recv() returns what has come of the input, and the events *)
(* of the parser are dispatched.                                            *)
Read(c) ==
  /\ ~MainBusy /\ socket[c] = "open"
  /\ \E n \in 1..Len(net[c]) :
       LET q == Fed(parser[c], SubSeq(net[c], 1, n))
       IN /\ net' = [net EXCEPT ![c] = SubSeq(@, n + 1, Len(@))]
          /\ parser' = [parser EXCEPT ![c] = [q EXCEPT !.events = <<>>]]
          /\ queue' = [queue EXCEPT ![c] = @ \o
               [i \in DOMAIN q.events |->
                  [kind |-> IF q.events[i].kind = "stanza" THEN q.events[i].stanza.kind
                            ELSE q.events[i].kind]]]
          /\ handled' = [handled EXCEPT ![c] = @ \o Numbers(q.events)]
          /\ split' = [split EXCEPT ![c] = @ \/ (q.cut /\ q.root = "none")]
  /\ UNCHANGED <<client, socket, job, data, tables, offered, halted, raced>>

(* recv() returns nothing, and handle_close() dispatches the end of the     *)
(* stream, at every poll until it is handled.                               *)
ReadEnd(c) ==
  /\ ~MainBusy /\ socket[c] = "open"
  /\ client[c].end = "eof" /\ net[c] = <<>>
  /\ ~data[c].closing
  /\ Len(SelectSeq(queue[c], LAMBDA m : m.kind = "end")) < MaxEnds
  /\ queue' = [queue EXCEPT ![c] = Append(@, [kind |-> "end"])]
  /\ UNCHANGED <<client, net, socket, parser, job, data, tables, history, raced>>

(* recv() raises, and handle_error() closes the socket.                     *)
ReadError(c) ==
  /\ ~MainBusy /\ socket[c] = "open"
  /\ client[c].end = "reset"
  /\ socket' = [socket EXCEPT ![c] = "closed"]
  /\ UNCHANGED <<client, net, parser, queue, job, data, tables, history, raced>>

-----------------------------------------------------------------------------
(* The main loop takes the next message of a connection, and runs it if its *)
(* handler is an in-process one.                                            *)

Takes(c, kinds) ==
  /\ ~MainBusy /\ job[c].at = "idle"
  /\ queue[c] # <<>> /\ Head(queue[c]).kind \in kinds
  /\ queue' = [queue EXCEPT ![c] = Tail(@)]

InStreamInit(c) ==
  /\ Takes(c, {"init"})
  /\ offered' = [offered EXCEPT ![c] = "auth"]
  /\ UNCHANGED <<client, net, socket, parser, job, data, tables, handled, split, halted, raced>>

InStreamReInit(c) ==
  /\ Takes(c, {"reinit"})
  /\ offered' = [offered EXCEPT ![c] = IF data[c].sasl.complete THEN "bind" ELSE @]
  /\ UNCHANGED <<client, net, socket, parser, job, data, tables, handled, split, halted, raced>>

(* iq-session, iq-auth-get and others that only answer.                     *)
Answer(c) ==
  /\ Takes(c, {"ask"})
  /\ UNCHANGED <<client, net, socket, parser, job, data, tables, history, raced>>

(* Threaded handlers go to a worker, iq-bind begins.                        *)
StartHandler(c) ==
  /\ Takes(c, Kind \ {"ask"})
  /\ job' = [job EXCEPT ![c] = [Idle EXCEPT
       !.at = IF Head(queue[c]).kind \in BindKind THEN "check" ELSE "act",
       !.kind = Head(queue[c]).kind]]
  /\ UNCHANGED <<client, net, socket, parser, data, tables, history, raced>>

-----------------------------------------------------------------------------
(* Workers: authentication.                                                 *)

(* Mutant of Failure: failures are not counted from zero again.             *)
FailureCounted(sasl) ==
  IF sasl.failures = 2 THEN [sasl EXCEPT !.failures = @ + 1, !.state = 0]
  ELSE [sasl EXCEPT !.failures = @ + 1]

(* _handleFailure(): the third failure starts the exchange again.           *)
Failure(sasl) ==
  IF sasl.failures = 2 THEN [sasl EXCEPT !.failures = 0, !.state = 0]
  ELSE [sasl EXCEPT !.failures = @ + 1]

(* SASLPlain.handle(): the password is right, or it is not.                 *)
SASLPlain(good) == [NoSasl EXCEPT !.mech = "plain", !.complete = good, !.progress = ~good]

NewDigest == [NoSasl EXCEPT !.mech = "digest", !.progress = TRUE]

(* SASLDigestMD5.handle(): a challenge, a second one that shows the server  *)
(* knows the password as well, and the success; or a failure.               *)
SASLDigestMD5(sasl, kind) ==
  CASE sasl.state = 0                           -> [sasl EXCEPT !.state = 1]
    [] sasl.state = 1 /\ kind = "answer-good"   -> [sasl EXCEPT !.state = 2]
    [] sasl.state = 2 /\ kind = "answer-empty"  ->
         [sasl EXCEPT !.state = 0, !.complete = TRUE, !.progress = FALSE]
    [] OTHER                                    -> Failure(sasl)

(* What all mechanisms end with: "record the JID for local delivery".       *)
Authenticated(c) ==
  /\ conns' = [conns EXCEPT ![c] = "named"]
  /\ parser' = [parser EXCEPT ![c] = ResetParser(@)]

(* The outcome of a step of SASL.                                           *)
Exchanged(c, sasl) ==
  /\ data' = [data EXCEPT ![c].sasl = sasl, ![c].jid = @ \/ sasl.complete]
  /\ IF sasl.complete THEN Authenticated(c) ELSE UNCHANGED <<conns, parser>>

InWorker(c, kinds) == job[c].at = "act" /\ job[c].kind \in kinds

(* SASLAuthHandler begins an exchange,                                      *)
SASLAuth(c) ==
  /\ InWorker(c, {"plain-good", "plain-bad", "digest"})
  /\ job' = [job EXCEPT ![c] = Idle]
  /\ Exchanged(c, IF job[c].kind = "digest" THEN SASLDigestMD5(NewDigest, "digest")
                  ELSE SASLPlain(job[c].kind = "plain-good"))
  /\ UNCHANGED <<client, net, socket, queue, resources, generated, history, raced>>

(* and SASLResponseHandler continues it.                                    *)
SASLResponse(c) ==
  /\ InWorker(c, {"answer-good", "answer-bad", "answer-empty"})
  /\ job' = [job EXCEPT ![c] = Idle]
  /\ Exchanged(c, IF data[c].sasl.mech = "digest" THEN SASLDigestMD5(data[c].sasl, job[c].kind)
                  ELSE data[c].sasl)
  /\ UNCHANGED <<client, net, socket, queue, resources, generated, history, raced>>

(* checkPolicyViolation(): SASL is being or has been attempted.             *)
PolicyViolation(c) ==
  data[c].sasl.progress \/ data[c].sasl.complete \/ data[c].sasl.mech # "none"

(* IQAuthSetHandler.  A violation is answered; the handler it asks for last,*)
(* close-stream, does not exist.                                            *)
IQAuthSet(c) ==
  /\ InWorker(c, IqAuthKind)
  /\ IF PolicyViolation(c) \/ job[c].kind = "iqauth-bad"
     THEN /\ job' = [job EXCEPT ![c] = Idle]
          /\ UNCHANGED <<data, conns, parser>>
     ELSE /\ data' = [data EXCEPT ![c].jid = TRUE]
          /\ Authenticated(c)
          /\ job' = [job EXCEPT ![c].at = "check"]
  /\ UNCHANGED <<client, net, socket, queue, resources, generated, history, raced>>

(* c2s-presence makes the resource active; the rest is module Presence.     *)
PresenceAct(c) ==
  /\ InWorker(c, {"presence"})
  /\ job' = [job EXCEPT ![c] = Idle]
  /\ data' = [data EXCEPT ![c].active = TRUE]
  /\ UNCHANGED <<client, net, socket, parser, queue, tables, history, raced>>

-----------------------------------------------------------------------------
(* bindResource(), for iq-bind and iq-auth.                                 *)

BareJid(c) == IF data[c].jid THEN {UserOf[c]} ELSE {}

(* Mutant of Taken: a resource of the same name is not looked for.          *)
NeverTaken(c) == FALSE

(* "check if we have this resource already".                                *)
Taken(c) == \E u \in BareJid(c) \cap DOMAIN resources : 0 \in DOMAIN resources[u]

Rivals(c) == {d \in Conn \ {c} : UserOf[d] = UserOf[c] /\ Binding(d)}

(* The name is chosen and recorded, which raises if nobody has logged in.   *)
BindCheck(c) ==
  /\ job[c].at = "check"
  /\ LET name == IF Taken(c) THEN generated + 1 ELSE 0
     IN /\ data' = [data EXCEPT ![c].resource = name]
        /\ generated' = IF Taken(c) THEN name ELSE generated
        /\ job' = [job EXCEPT ![c] =
             IF conns[c] = "named" THEN [@ EXCEPT !.at = "look", !.name = name] ELSE Idle]
  /\ raced' = IF Rivals(c) = {} THEN raced ELSE raced \cup {UserOf[c]}
  /\ UNCHANGED <<client, net, socket, parser, queue, conns, resources, history>>

BindLook(c) ==
  /\ job[c].at = "look"
  /\ job' = [job EXCEPT ![c].at = IF UserOf[c] \in DOMAIN resources THEN "put" ELSE "create"]
  /\ UNCHANGED <<client, net, socket, parser, queue, data, tables, history, raced>>

BindCreate(c) ==
  /\ job[c].at = "create"
  /\ resources' = [u \in DOMAIN resources \cup {UserOf[c]} |->
                     IF u = UserOf[c] THEN <<>> ELSE resources[u]]
  /\ job' = [job EXCEPT ![c].at = "put"]
  /\ UNCHANGED <<client, net, socket, parser, queue, data, conns, generated, history, raced>>

BindPut(c) ==
  /\ job[c].at = "put"
  /\ resources' = [resources EXCEPT ![UserOf[c]] =
       [n \in DOMAIN @ \cup {job[c].name} |-> IF n = job[c].name THEN c ELSE @[n]]]
  /\ job' = [job EXCEPT ![c] = Idle]
  /\ UNCHANGED <<client, net, socket, parser, queue, data, conns, generated, history, raced>>

-----------------------------------------------------------------------------
(* The end of a stream: stream-end, c2s-presence for an active resource,    *)
(* and cleanup-conn.                                                        *)

(* Mutant of CleanedUp: "closed before binding" is not thought of.          *)
CleanedUpIfBound(c) ==
  IF ~OwnResource(c) THEN UNCHANGED <<resources, conns, socket, parser>>
  ELSE /\ resources' = [resources EXCEPT ![UserOf[c]] =
            Restrict(@, DOMAIN @ \ {data[c].resource})]
       /\ conns' = [conns EXCEPT ![c] = "absent"]
       /\ socket' = [socket EXCEPT ![c] = "closed"]
       /\ parser' = [parser EXCEPT ![c] = Dies(ResetStream(@))]

(* CleanUpConnHandler: if the resource is not in the table it raises, and   *)
(* all that comes after is left out.                                        *)
CleanedUp(c) ==
  LET entry == OwnResource(c) => /\ UserOf[c] \in DOMAIN resources
                                 /\ data[c].resource \in DOMAIN resources[UserOf[c]]
  IN IF ~entry THEN UNCHANGED <<resources, conns, socket, parser>>
     ELSE /\ resources' = IF OwnResource(c)
               THEN [resources EXCEPT ![UserOf[c]] =
                       Restrict(@, DOMAIN @ \ {data[c].resource})]
               ELSE resources
          /\ conns' = [conns EXCEPT ![c] = "absent"]
          /\ socket' = [socket EXCEPT ![c] = "closed"]
          /\ parser' = [parser EXCEPT ![c] = Dies(ResetStream(@))]

(* StreamEndHandler.                                                        *)
StreamEnd(c) ==
  /\ Takes(c, {"end"})
  /\ data' = [data EXCEPT ![c].closing = TRUE]
  /\ CASE data[c].closing ->
            UNCHANGED <<resources, conns, socket, parser, job>>
       [] ~data[c].closing /\ data[c].active ->
            /\ job' = [job EXCEPT ![c] = [Idle EXCEPT !.at = "last", !.kind = "end"]]
            /\ UNCHANGED <<resources, conns, socket, parser>>
       [] OTHER -> CleanedUp(c) /\ UNCHANGED job
  /\ UNCHANGED <<client, net, generated, history, raced>>

(* A handler raises.  No error handlers are asked for: the rest of the chain*)
(* is left out.                                                             *)
Halts(c) ==
  /\ job' = [job EXCEPT ![c] = Idle]
  /\ halted' = halted \cup {c}

(* In a worker, c2s-presence goes through the resources of the account.     *)
LastPresence(c) ==
  /\ job[c].at = "last"
  /\ IF UserOf[c] \notin DOMAIN resources THEN Halts(c)
     ELSE /\ job' = [job EXCEPT ![c].at = "listing", ![c].seen = DOMAIN resources[UserOf[c]]]
          /\ UNCHANGED halted
  /\ UNCHANGED <<client, net, socket, parser, queue, data, tables, offered, handled, split, raced>>

(* It raises if their number changes before it is through.                  *)
LastPresenceRaises(c) ==
  /\ job[c].at = "listing"
  /\ Cardinality(DOMAIN resources[UserOf[c]]) # Cardinality(job[c].seen)
  /\ Halts(c)
  /\ UNCHANGED <<client, net, socket, parser, queue, data, tables, offered, handled, split, raced>>

(* The worker is through, and the chain goes on: a route-server for each of *)
(* the other resources, of which the second raises as there is but one item *)
(* (broadcastToOtherResources), and cleanup-conn.                           *)
CleanUp(c) ==
  /\ ~MainBusy /\ job[c].at = "listing"
  /\ IF Cardinality(job[c].seen \ {data[c].resource}) > 1
     THEN Halts(c) /\ UNCHANGED <<resources, conns, socket, parser>>
     ELSE /\ job' = [job EXCEPT ![c] = Idle]
          /\ CleanedUp(c)
          /\ UNCHANGED halted
  /\ UNCHANGED <<client, net, queue, data, generated, offered, handled, split, raced>>

-----------------------------------------------------------------------------
Client(c) == Accept(c) \/ SendHeader(c) \/ SendStanza(c) \/ SendClose(c) \/ Leave(c) \/ Fail(c)

Main(c) ==
  \/ Read(c) \/ ReadEnd(c) \/ ReadError(c)
  \/ InStreamInit(c) \/ InStreamReInit(c) \/ Answer(c) \/ StartHandler(c)
  \/ StreamEnd(c) \/ CleanUp(c)

Handler(c) ==
  \/ SASLAuth(c) \/ SASLResponse(c) \/ IQAuthSet(c) \/ PresenceAct(c)
  \/ BindCheck(c) \/ BindLook(c) \/ BindCreate(c) \/ BindPut(c)
  \/ LastPresence(c) \/ LastPresenceRaises(c)

MainLoop == \E c \in Conn : Main(c)
Workers  == \E c \in Conn : Handler(c)

Next == MainLoop \/ Workers \/ \E c \in Conn : Client(c)

(* The main loop goes on polling and resuming, and workers finish what they *)
(* have begun.  Nothing is asked of clients.                                *)
Fairness == WF_vars(MainLoop) /\ WF_vars(Workers)

Safety == Init /\ [][Next]_vars
Spec == Safety /\ Fairness

-----------------------------------------------------------------------------
(* What comes in a stream is handled once each, in the order in which it was*)
(* sent, and nothing is left out, whatever the chunks recv() returns, across*)
(* the reset of the parser after authentication and the input that is parsed*)
(* again for a client that does not restart its stream (parsers.py feed()); *)
(* unless that client's first tag is torn, or the network fails.            *)
ParsedInOrder ==
  \A c \in Conn :
    /\ handled[c] = [i \in 1..Len(handled[c]) |-> i]
    /\ net[c] = <<>> /\ ~split[c] /\ client[c].end # "reset" => Len(handled[c]) = client[c].sent

(* The table of resources and the connections agree: an entry leads to a    *)
(* connection logged in as that user with that resource, and a connection   *)
(* with a resource is found under it until it is cleaned up, while others of*)
(* the same account log in, bind the same resource and leave (iq.py         *)
(* bindResource(), stream.py CleanUpConnHandler); unless two connections of *)
(* the account were inside of bindResource() at once.                       *)
EntryFits(u, n, c) ==
  UserOf[c] = u /\ data[c].jid /\ data[c].resource = n /\ conns[c] = "named"

IsEntered(c) ==
  LET u == UserOf[c]
  IN /\ u \in DOMAIN resources
     /\ data[c].resource \in DOMAIN resources[u]
     /\ resources[u][data[c].resource] = c

RegisteredOf(u) ==
  /\ u \in DOMAIN resources =>
       \A n \in DOMAIN resources[u] : EntryFits(u, n, resources[u][n])
  /\ \A c \in Conn : UserOf[c] = u /\ conns[c] = "named" /\ OwnResource(c) /\ ~Binding(c)
                     => IsEntered(c)

Registered == \A u \in User \ raced : RegisteredOf(u)

(* A client that has gone away is cleaned up after: when there is nothing   *)
(* left to do for it, its entries are removed and its socket is closed,     *)
(* whether it ended its stream or not, in the middle of whatever it had     *)
(* asked for (connection.py:100-112, stream.py:219-275).  Unnoticed are a   *)
(* stream ended after the parser has given up, and a network that fails.    *)
(* A connection whose last presence raised stays, for it is closing already *)
(* (stream.py:221-225): a connection of its account was bound or cleaned up *)
(* while the resources were gone through (presence.py:218-219), or two      *)
(* others were bound.                                                       *)
Settled(c) ==
  /\ net[c] = <<>> /\ queue[c] = <<>> /\ job[c].at = "idle"
  /\ client[c].end = "eof" /\ socket[c] = "open" => data[c].closing

Gone(c) == conns[c] = "absent" /\ socket[c] = "closed"

Unnoticed(c) == (client[c].end = "close" /\ parser[c].dead) \/ client[c].end = "reset"

EndsCleanedUp ==
  \A c \in Conn :
    Settled(c) /\ client[c].end # "no" =>
      Gone(c) \/ Unnoticed(c) \/ UserOf[c] \in raced \/ c \in halted

(* The same as what happens in the end: nothing keeps it from settling.     *)
EndsHandled ==
  \A c \in Conn :
    client[c].end \in {"close", "eof"} ~>
      Gone(c) \/ Unnoticed(c) \/ UserOf[c] \in raced \/ c \in halted

(* A client that starts its stream again after SASL is offered the binding  *)
(* of a resource, not authentication once more (stream.py:79-82), although  *)
(* its parser was replaced in between; unless the network fails before the  *)
(* new <stream> has come.                                                   *)
FeaturesFit ==
  \A c \in Conn :
    client[c].headers = 2 /\ Answered(c) /\ client[c].end # "reset" => offered[c] = "bind"

-----------------------------------------------------------------------------
(* What does not hold.                                                      *)

(* Registered with no exception for two connections of an account that bind *)
(* at once (iq.py:24-37 looks, then writes) or a connection that binds twice*)
(* or before it has logged in.                                              *)
RegisteredAnyhow == \A u \in User : RegisteredOf(u)

(* A client that logged in with SASL uses the resource it was told: the     *)
(* answer of iq-bind quotes the one it asked for (iq.py:53-59).             *)
BoundAsAnswered ==
  \A c \in Conn : data[c].sasl.complete /\ OwnResource(c) => data[c].resource = 0

(* Whatever the way it went, a client that has gone is cleaned up after.    *)
CleanedUpAnyhow == \A c \in Conn : Settled(c) /\ client[c].end \in {"eof", "reset"} => Gone(c)

(* All that was sent is handled, whatever the chunks.                       *)
ParsedAnyhow ==
  \A c \in Conn :
    net[c] = <<>> /\ client[c].end # "reset" => Len(handled[c]) = client[c].sent
=============================================================================
