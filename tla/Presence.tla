------------------------------ MODULE Presence ------------------------------
(***************************************************************************)
(* Presence of the clients of the server: c2s-presence, s2s-presence and    *)
(* s2s-probe (handlers/presence.py), and the end of a client's stream       *)
(* (handlers/stream.py), which sends a last presence on the client's behalf *)
(* and then forgets the connection.                                         *)
(*                                                                          *)
(* The body of c2s-presence runs in a worker thread, and looks at tables    *)
(* the main loop changes; what it schedules runs in the main loop.          *)
(***************************************************************************)
EXTENDS Naturals, Sequences, SequencesExt, FiniteSets

CONSTANTS
  Client,        \* connections of clients, each with a resource of its own
  User,
  UserOf,        \* UserOf[c]: the user who binds c
  Follows,       \* pairs <<u, v>>: at first u is subscribed to v's presence
  MaxPresence,   \* bound: presence stanzas the clients send
  MaxSessions    \* bound: resources bound

ASSUME PresenceAssumption ==
  /\ User \cap Client = {} /\ IsFiniteSet(User) /\ IsFiniteSet(Client)
  /\ UserOf \in [Client -> User]
  /\ Follows \subseteq User \X User
  /\ MaxPresence \in Nat /\ MaxSessions \in Nat

VARIABLES
  granted,    \* pairs <<u, v>>: the roster of v has u with "from" or "both"
  following,  \* pairs <<u, v>>: the roster of u has v with "to" or "both"
  bound,      \* the connections under data['resources']
  closing,    \* closing[c]: data['stream']['closing']
  active,     \* active[c]: data['user']['active']
  last,       \* last[c]: data['user']['lastPresence']
  job,        \* job[c]: c2s-presence on the connection c
  wire,       \* stanzas on the connection the server has to itself
  knows,      \* knows[c][d]: the last presence of d that was sent to c
  raised,     \* history: a handler has raised
  sent,       \* presence stanzas so far
  sessions    \* resources bound so far

tables == <<bound, closing, active, last>>
rosters == <<granted, following>>
counts == <<sent, sessions>>
vars == <<rosters, tables, job, wire, knows, raised, counts>>

Show == {"available", "away", "unavailable"}
Presence == Show \cup {"none"}

(* A stanza, with the address it is routed by besides the one it bears.     *)
Stanza == [kind : {"presence", "probe", "subscribed", "unsubscribe", "unsubscribed"},
           from : User \cup Client, show : Presence,
           to : User \cup Client, route : User \cup Client]

Idle == [at |-> "idle", show |-> "none", initial |-> FALSE, seen |-> 0,
         probed |-> <<>>, items |-> <<>>, handlers |-> 0]

Resources(u) == {c \in bound : UserOf[c] = u}
Subscribers(u) == SetToSeq({v \in User : <<v, u>> \in granted})
Subscriptions(u) == SetToSeq({v \in User : <<u, v>> \in following})

(* The types of the state; the items to route are never more than the       *)
(* route-server handlers scheduled for them.                                *)
TypeOK ==
  /\ granted \subseteq User \X User /\ following \subseteq User \X User
  /\ bound \subseteq Client
  /\ closing \in [Client -> BOOLEAN] /\ active \in [Client -> BOOLEAN]
  /\ last \in [Client -> Presence]
  /\ knows \in [Client -> [Client -> Presence]]
  /\ raised \in BOOLEAN
  /\ sent \in 0..MaxPresence /\ sessions \in 0..MaxSessions
  /\ \A c \in Client :
       /\ job[c].at \in {"idle", "act", "loop", "list", "listing", "remove", "route"}
       /\ job[c].show \in Presence
       /\ job[c].initial \in BOOLEAN
       /\ job[c].probed \in Seq(User)
       /\ job[c].seen \in 0..Cardinality(Client)
       /\ \A i \in DOMAIN job[c].items : job[c].items[i] \in Stanza
       /\ Len(job[c].items) <= job[c].handlers
  /\ \A i \in DOMAIN wire : wire[i] \in Stanza

Init ==
  /\ granted = Follows /\ following = Follows
  /\ bound = {}
  /\ closing = [c \in Client |-> FALSE]
  /\ active = [c \in Client |-> FALSE]
  /\ last = [c \in Client |-> "none"]
  /\ job = [c \in Client |-> Idle]
  /\ wire = <<>>
  /\ knows = [c \in Client |-> [d \in Client |-> "none"]]
  /\ raised = FALSE
  /\ sent = 0
  /\ sessions = 0

-----------------------------------------------------------------------------
(* A connection, from the binding of its resource to its end.               *)

Bind(c) ==
  /\ c \notin bound
  /\ sessions < MaxSessions
  /\ sessions' = sessions + 1
  /\ bound' = bound \cup {c}
  /\ closing' = [closing EXCEPT ![c] = FALSE]
  /\ active' = [active EXCEPT ![c] = FALSE]
  /\ last' = [last EXCEPT ![c] = "none"]
  /\ knows' = [knows EXCEPT ![c] = [d \in Client |-> "none"]]
  /\ UNCHANGED <<rosters, job, wire, raised, sent>>

(* "presence" without an address, of any type that is not a subscription's. *)
SendPresence(c, show) ==
  /\ c \in bound /\ ~closing[c]
  /\ job[c].at = "idle"
  /\ sent < MaxPresence
  /\ sent' = sent + 1
  /\ job' = [job EXCEPT ![c] = [Idle EXCEPT !.at = "act", !.show = show]]
  /\ UNCHANGED <<rosters, tables, wire, knows, raised, sessions>>

(* cleanup-conn.                                                            *)
CleanUp(c) == bound' = bound \ {c}

(* Mutant of StreamEnd: no last presence.                                   *)
StreamEndQuietly(c) ==
  /\ c \in bound /\ ~closing[c]
  /\ job[c].at = "idle"
  /\ closing' = [closing EXCEPT ![c] = TRUE]
  /\ CleanUp(c)
  /\ UNCHANGED <<rosters, active, last, job, wire, knows, raised, counts>>

(* stream-end, when the client ends its stream or the socket is closed.     *)
StreamEnd(c) ==
  /\ c \in bound /\ ~closing[c]
  /\ job[c].at = "idle"
  /\ closing' = [closing EXCEPT ![c] = TRUE]
  /\ IF active[c]
     THEN /\ job' = [job EXCEPT ![c] = [Idle EXCEPT !.at = "act", !.show = "unavailable"]]
          /\ UNCHANGED bound
     ELSE /\ CleanUp(c)
          /\ UNCHANGED job
  /\ UNCHANGED <<rosters, active, last, wire, knows, raised, counts>>

-----------------------------------------------------------------------------
(* c2s-presence.  Whatever an inactive resource sends is its initial        *)
(* presence; only that and "unavailable" go to the user's other resources.  *)

Broadcasts(j) == j.initial \/ j.show = "unavailable"

Act(c) ==
  LET initial == ~active[c]
  IN /\ job[c].at = "act"
     /\ active' = [active EXCEPT ![c] = initial \/ (@ /\ job[c].show # "unavailable")]
     /\ job' = [job EXCEPT ![c].at = "loop", ![c].initial = initial,
                           ![c].probed = IF initial THEN Subscriptions(UserOf[c]) ELSE <<>>,
                           ![c].seen = Cardinality(Resources(UserOf[c]))]
     /\ UNCHANGED <<rosters, bound, closing, last, wire, knows, raised, counts>>

(* broadcastToOtherResources: each item starts the list anew, so the last is*)
(* the one that stays, though each has scheduled a handler.  The items share*)
(* one stanza with the loop over the subscribers, which overwrites its "to".*)
BroadcastItems(c, others, o, subscribers) ==
  IF others = {} THEN <<>>
  ELSE <<[kind |-> "presence", from |-> c, show |-> job[c].show, route |-> o,
          to |-> IF subscribers = <<>> THEN o ELSE Last(subscribers)]>>

PresenceItems(c, subscribers) ==
  [i \in DOMAIN subscribers |->
     [kind |-> "presence", from |-> c, show |-> job[c].show,
      to |-> subscribers[i], route |-> subscribers[i]]]

ProbeItems(c, subscriptions) ==
  [i \in DOMAIN subscriptions |->
     [kind |-> "probe", from |-> c, show |-> "none",
      to |-> subscriptions[i], route |-> subscriptions[i]]]

(* The resources are iterated over while the main loop binds and cleans up: *)
(* if their number has changed the loop raises, and with it the handler.    *)
Raises(c) ==
  Broadcasts(job[c]) /\ Cardinality(Resources(UserOf[c])) # job[c].seen

(* A handler that raises takes the rest of its chain with it.               *)
Raise(c) ==
  /\ job[c].at = "loop" /\ Raises(c)
  /\ job' = [job EXCEPT ![c] = Idle]
  /\ raised' = TRUE
  /\ UNCHANGED <<rosters, tables, wire, knows, counts>>

(* Mutant of Record: only the initial presence is recorded.                 *)
RecordInitial(c) ==
  LET u == UserOf[c]
      others == IF Broadcasts(job[c]) THEN Resources(u) \ {c} ELSE {}
      subscribers == Subscribers(u)
      probed == job[c].probed
  IN /\ job[c].at = "loop" /\ ~Raises(c)
     /\ last' = [last EXCEPT ![c] = IF job[c].initial THEN job[c].show ELSE @]
     /\ \E o \in IF others = {} THEN {c} ELSE others :
          job' = [job EXCEPT ![c].at = "route",
                    ![c].items = BroadcastItems(c, others, o, subscribers)
                                 \o PresenceItems(c, subscribers) \o ProbeItems(c, probed),
                    ![c].handlers = Cardinality(others) + Len(subscribers) + Len(probed)]
     /\ UNCHANGED <<rosters, bound, closing, active, wire, knows, raised, counts>>

Record(c) ==
  LET u == UserOf[c]
      others == IF Broadcasts(job[c]) THEN Resources(u) \ {c} ELSE {}
      subscribers == Subscribers(u)
      probed == job[c].probed
  IN /\ job[c].at = "loop" /\ ~Raises(c)
     /\ last' = [last EXCEPT ![c] = job[c].show]
     /\ \E o \in IF others = {} THEN {c} ELSE others :
          job' = [job EXCEPT ![c].at = "route",
                    ![c].items = BroadcastItems(c, others, o, subscribers)
                                 \o PresenceItems(c, subscribers) \o ProbeItems(c, probed),
                    ![c].handlers = Cardinality(others) + Len(subscribers) + Len(probed)]
     /\ UNCHANGED <<rosters, bound, closing, active, wire, knows, raised, counts>>

(* Mutant of RouteOut: the chain ends without cleanup-conn.                 *)
RouteOutOnly(c) ==
  /\ job[c].at = "route"
  /\ wire' = wire \o Reverse(job[c].items)
  /\ job' = [job EXCEPT ![c] = Idle]
  /\ raised' = (raised \/ job[c].handlers > Len(job[c].items))
  /\ UNCHANGED <<rosters, tables, knows, counts>>

(* The route-server handlers take the items from the end of the list; one   *)
(* that finds it empty raises.  Then, for a stream that ends, cleanup-conn. *)
RouteOut(c) ==
  LET raises == job[c].handlers > Len(job[c].items)
  IN /\ job[c].at = "route"
     /\ wire' = wire \o Reverse(job[c].items)
     /\ job' = [job EXCEPT ![c] = Idle]
     /\ raised' = (raised \/ raises)
     /\ IF closing[c] /\ ~raises THEN CleanUp(c) ELSE UNCHANGED bound
     /\ UNCHANGED <<rosters, closing, active, last, knows, counts>>

-----------------------------------------------------------------------------
(* The next stanza of the S2S connection.                                   *)

(* s2s-presence: to the resource it is for, or to all of the user's.        *)
DeliverPresence ==
  LET m == Head(wire)
  IN /\ wire # <<>> /\ m.kind = "presence"
     /\ wire' = Tail(wire)
     /\ knows' = [c \in Client |->
          IF c \in bound /\ m.to \in {c, UserOf[c]}
          THEN [knows[c] EXCEPT ![m.from] = m.show] ELSE knows[c]]
     /\ UNCHANGED <<rosters, tables, job, raised, counts>>

(* Mutant of DeliverProbe: nothing is answered.                             *)
IgnoreProbe ==
  /\ wire # <<>> /\ Head(wire).kind = "probe"
  /\ wire' = Tail(wire)
  /\ UNCHANGED <<rosters, tables, job, knows, raised, counts>>

(* s2s-probe: the last presence of each of the user's resources.            *)
DeliverProbe ==
  LET m == Head(wire)
      answers == SetToSeq({d \in Resources(m.to) : last[d] # "none"})
  IN /\ wire # <<>> /\ m.kind = "probe"
     /\ wire' = Tail(wire) \o
          [i \in DOMAIN answers |->
             [kind |-> "presence", from |-> answers[i], show |-> last[answers[i]],
              to |-> m.from, route |-> m.from]]
     /\ UNCHANGED <<rosters, tables, job, knows, raised, counts>>

Work(c) == Act(c) \/ Raise(c) \/ Record(c) \/ RouteOut(c)
Deliver == DeliverPresence \/ DeliverProbe

Next ==
  \/ Deliver
  \/ \E c \in Client : Bind(c) \/ StreamEnd(c) \/ Work(c)
  \/ \E c \in Client, show \in Show : SendPresence(c, show)

Safety == Init /\ [][Next]_vars

(* The handlers run as the engine runs them: fairly.                        *)
Spec == Safety /\ WF_vars(Deliver) /\ \A c \in Client : WF_vars(Work(c))

Quiet == wire = <<>> /\ \A c \in Client : job[c].at = "idle"

-----------------------------------------------------------------------------
(* Correctness.                                                             *)

(* Once all is quiet, what a client was told last of a resource of another  *)
(* user is what the server has recorded last, whichever handlers raised: no *)
(* answer to a probe arrives late and undoes a newer presence.              *)
NoneOutdated ==
  Quiet => \A c, d \in bound :
             UserOf[c] # UserOf[d] /\ last[d] # "none" /\ knows[c][d] # "none"
             => knows[c][d] = last[d]

(* Once all is quiet, and unless a handler has raised, no client shows as   *)
(* online a resource that is gone: its last presence went out before it was *)
(* forgotten.                                                               *)
GoneIsOffline ==
  Quiet /\ ~raised => \A c \in bound, d \in Client \ bound :
    UserOf[c] # UserOf[d] => knows[c][d] \in {"none", "unavailable"}

(* And an active client knows the latest presence of every resource of the  *)
(* users it follows: the probes of the one, the presence of the other and   *)
(* the end of either leave no gap between them.                             *)
FollowersInformed ==
  Quiet /\ ~raised => \A c, d \in bound :
    /\ active[c] /\ ~closing[c] /\ ~closing[d]
    /\ <<UserOf[c], UserOf[d]>> \in Follows
    /\ last[d] # "none"
    => knows[c][d] = last[d]

(* A stream that ends is cleaned up, unless a handler raises.               *)
EndsCleanedUp == \A c \in Client : closing[c] ~> (c \notin bound \/ raised)

(* "This cleans up all connection data and closes the connection"           *)
(* (stream.py:251): a stream that ended leaves nothing behind once its      *)
(* handlers are through, whatever happened to them.                         *)
CleanedUp == \A c \in bound : closing[c] => job[c].at # "idle"

(* "tree to modify with the 'to' address and send out" (presence.py:211):   *)
(* a stanza bears the address it is routed to.                              *)
RoutedAsAddressed == \A i \in DOMAIN wire : wire[i].to = wire[i].route

(* Every route-server that c2s-presence schedules finds an item to route    *)
(* (presence.py:213-227 starts the list anew for each resource).            *)
EachHandlerHasItem ==
  \A c \in Client : job[c].at = "route" => job[c].handlers = Len(job[c].items)

(* "active resource is an available resource" (connection.py:92): one whose *)
(* latest presence was not "unavailable".                                   *)
ActiveIsAvailable ==
  \A c \in bound : job[c].at = "idle" /\ active[c] => last[c] # "unavailable"
=============================================================================
