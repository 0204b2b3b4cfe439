---------------------------- MODULE Subscriptions ----------------------------
(***************************************************************************)
(* Presence subscriptions between two users of the server: the handlers     *)
(* c2s-subscription and s2s-subscription (handlers/presence.py), the removal*)
(* of a contact and the roster push (handlers/iq.py), over the rosters in   *)
(* the database (roster.py).                                                *)
(*                                                                          *)
(* Each user has a roster row for the other.  A handler reads the row in one*)
(* transaction and writes it in another, in a worker thread; then its       *)
(* message runs the handlers it scheduled, in the main loop.  Messages of   *)
(* different clients, and of the one connection the server has to itself,   *)
(* interleave at each of these points; those of one connection do not.      *)
(***************************************************************************)
EXTENDS Naturals, Sequences

CONSTANTS
  User,          \* two local users
  Peer,          \* Peer[u]: the other one
  Client,        \* client connections
  UserOf,        \* UserOf[c]: the user who logs in on c
  Id,            \* Id[u]: the key of u in the table jids
  MaxRequests,   \* bound: stanzas the clients send one at a time
  MaxRacing,     \* bound: stanzas, once they have been sent at the same time
  MaxRestarts    \* bound: restarts of the server

ASSUME SubscriptionsAssumption ==
  /\ Peer \in [User -> User]
  /\ \A u \in User : Peer[u] # u /\ Peer[Peer[u]] = u
  /\ UserOf \in [Client -> User]
  /\ Id \in [User -> 1..8]      \* only 2 matters: see Overwritten
  /\ MaxRequests \in Nat /\ MaxRestarts \in Nat /\ MaxRacing \in 0..MaxRequests

VARIABLES
  sub,        \* sub[u]: the subscription of u's roster row, "absent" without one
  online,     \* the clients that are connected and have asked for the roster
  known,      \* the users that have a key in the server's data['resources']
  job,        \* job[c]: the handler that runs for client c
  link,       \* the handler that runs for the server's own S2S connection
  wire,       \* stanzas on that connection
  view,       \* view[c]: the subscription c was last told
  asked,      \* history: the users that have sent a subscribe
  approved,   \* history: the users that have sent a subscribed
  calm,       \* history: every request waited for the last to be handled
  last,       \* history: the last request since the server started
  requests,   \* stanzas sent by the clients
  restarts

counts == <<asked, approved, calm, last, requests, restarts>>
vars == <<sub, online, known, job, link, wire, view, counts>>

-----------------------------------------------------------------------------
(* The subscription states (roster.py), and what each stanza does to one.   *)

State == {"NONE", "NPO", "NPI", "NPIO", "TO", "TPI", "FROM", "FPO", "BOTH"}
Row == State \cup {"absent"}
Type == {"subscribe", "subscribed", "unsubscribe", "unsubscribed"}

(* Mutant of Primary: the state itself is shown.                            *)
PrimaryState(s) == s

Primary(s) ==
  CASE s \in {"TO", "TPI"}   -> "to"
    [] s \in {"FROM", "FPO"} -> "from"
    [] s = "BOTH"            -> "both"
    [] OTHER                 -> "none"

(* Sent by the client of the row's user.                                    *)
C2SMove ==
  [subscribe    |-> [NONE |-> "NPO", NPI |-> "NPIO", FROM |-> "FPO"],
   subscribed   |-> [NPI |-> "FROM", NPIO |-> "FPO", TPI |-> "BOTH"],
   unsubscribe  |-> [NPO |-> "NONE", TO |-> "NONE", NPIO |-> "NPI", TPI |-> "NPI",
                     BOTH |-> "FROM"],
   unsubscribed |-> [NPI |-> "NONE", FROM |-> "NONE", NPIO |-> "NPO", FPO |-> "NPO",
                     TPI |-> "TO", BOTH |-> "TO"]]

(* Received from the server of the contact.                                 *)
S2SMove ==
  [subscribe    |-> [NONE |-> "NPI", NPO |-> "NPIO", TO |-> "TPI"],
   subscribed   |-> [NPO |-> "TO", NPIO |-> "TPI", FPO |-> "BOTH"],
   unsubscribe  |-> [NPI |-> "NONE", FROM |-> "NONE", NPIO |-> "NPO", FPO |-> "NPO",
                     TPI |-> "TO", BOTH |-> "TO"],
   unsubscribed |-> [NPO |-> "NONE", TO |-> "NONE", NPIO |-> "NPI", TPI |-> "NPI",
                     FPO |-> "FROM", BOTH |-> "FROM"]]

Moves(table, type, s) == s \in DOMAIN table[type]
After(table, type, s) == IF Moves(table, type, s) THEN table[type][s] ELSE s

-----------------------------------------------------------------------------
(* A handler: where it is, the stanza it handles, whose roster it works on, *)
(* what it read there, and the stanza its message will route at the end.    *)
JobState == [at : {"idle", "result", "add", "reread", "write", "push", "route"},
             type : Type \cup {"remove", "get"}, user : User, seen : Row]

Stanza == [type : Type, to : User]

(* The types of the state: a client is told a primary state only, never     *)
(* "Pending" (roster.py:239-255).                                           *)
TypeOK ==
  /\ sub \in [User -> Row]
  /\ online \subseteq Client
  /\ known \subseteq User
  /\ job \in [Client -> JobState]
  /\ link \in JobState
  /\ wire \in Seq(Stanza)
  /\ view \in [Client -> {"none", "to", "from", "both"}]
  /\ asked \subseteq User /\ approved \subseteq User
  /\ calm \in BOOLEAN
  /\ last \in [user : User, type : Type \cup {"remove", "get"}]
  /\ requests \in 0..MaxRequests
  /\ restarts \in 0..MaxRestarts

Idle(u) == [at |-> "idle", type |-> "get", user |-> u, seen |-> "absent"]

Init ==
  /\ sub = [u \in User |-> "absent"]
  /\ online = {} /\ known = {}
  /\ job = [c \in Client |-> Idle(UserOf[c])]
  /\ link \in {Idle(u) : u \in User}
  /\ wire = <<>>
  /\ view = [c \in Client |-> "none"]
  /\ asked = {} /\ approved = {}
  /\ calm = TRUE
  /\ last \in {[user |-> u, type |-> "get"] : u \in User}
  /\ requests = 0 /\ restarts = 0

(* Nothing is under way.                                                    *)
Quiet == wire = <<>> /\ link.at = "idle" /\ \A c \in Client : job[c].at = "idle"

(* UPDATE of a row: none is affected when it is absent.                     *)
Updated(u, s) == IF sub[u] = "absent" THEN sub ELSE [sub EXCEPT ![u] = s]

(* The INSERT of updateContact, for a contact that was not there.           *)
Inserted(u, s) == IF sub[u] = "absent" THEN [sub EXCEPT ![u] = s] ELSE sub

(* Its UPDATE, for a contact that is there after all: it takes the state it *)
(* is to store (NPI, which is 2) for the key of the contact, whoever's row  *)
(* that is, and stores the key of the contact.                              *)
Numbered == <<"NPO", "NPI", "NPIO", "TO", "TPI", "FROM", "FPO", "BOTH">>
Overwritten(u) ==
  [v \in User |-> IF sub[v] # "absent" /\ Id[Peer[v]] = 2 THEN Numbered[Id[Peer[u]]]
                  ELSE sub[v]]

(* roster-push: every connected client of u that has asked for the roster.  *)
Pushed(u, s) ==
  [c \in Client |-> IF c \in online /\ UserOf[c] = u THEN Primary(s) ELSE view[c]]

-----------------------------------------------------------------------------
(* Clients come and go.  The connection of a client is closed by a message  *)
(* of its own, after those that were there before it.                       *)

Login(c) ==
  LET u == UserOf[c]
  IN /\ c \notin online
     /\ online' = online \cup {c}
     /\ known' = known \cup {u}
     /\ job' = [job EXCEPT ![c] = [at |-> "result", type |-> "get", user |-> u,
                                   seen |-> sub[u]]]
     /\ calm' = (calm /\ Quiet)
     /\ UNCHANGED <<sub, link, wire, view, asked, approved, last, requests, restarts>>

RosterResult(c) ==
  /\ job[c].at = "result"
  /\ view' = [view EXCEPT ![c] = Primary(job[c].seen)]
  /\ job' = [job EXCEPT ![c] = Idle(UserOf[c])]
  /\ UNCHANGED <<sub, online, known, link, wire, counts>>

Logout(c) ==
  /\ c \in online
  /\ job[c].at = "idle"
  /\ online' = online \ {c}
  /\ view' = [view EXCEPT ![c] = "none"]
  /\ UNCHANGED <<sub, known, job, link, wire, counts>>

-----------------------------------------------------------------------------
(* A stanza of a client: c2s-subscription, or iq-roster-update with remove. *)

Request(c, t) ==
  LET u == UserOf[c]
  IN /\ c \in online
     /\ job[c].at = "idle"
     /\ calm' = (calm /\ Quiet)
     /\ requests < (IF calm' THEN MaxRequests ELSE MaxRacing)
     /\ requests' = requests + 1
     /\ last' = [user |-> u, type |-> t]
     /\ asked' = IF t = "subscribe" THEN asked \cup {u} ELSE asked
     /\ approved' = IF t = "subscribed" THEN approved \cup {u} ELSE approved
     /\ job' = [job EXCEPT ![c] =
          [at |-> IF t = "subscribe" /\ sub[u] = "absent" THEN "add" ELSE "write",
           type |-> t, user |-> u, seen |-> sub[u]]]
     /\ UNCHANGED <<sub, online, known, link, wire, view, restarts>>

AddContact(c) ==
  /\ job[c].at = "add"
  /\ sub' = Inserted(UserOf[c], "NONE")
  /\ job' = [job EXCEPT ![c].at = "reread"]
  /\ UNCHANGED <<online, known, link, wire, view, counts>>

(* Without a row, cinfo is False and the handler raises.                    *)
RereadContact(c) ==
  LET s == sub[UserOf[c]]
  IN /\ job[c].at = "reread"
     /\ job' = [job EXCEPT ![c] = IF s = "absent" THEN Idle(UserOf[c])
                                  ELSE [@ EXCEPT !.at = "write", !.seen = s]]
     /\ UNCHANGED <<sub, online, known, link, wire, view, counts>>

(* subscribe and unsubscribe are always routed; the approvals only where    *)
(* they change something.                                                   *)
WriteContact(c) ==
  LET j == job[c]
      u == UserOf[c]
      next == CASE j.type = "remove" -> "route"
                [] j.type = "unsubscribe" /\ j.seen = "absent" -> "route"
                [] j.type \in {"subscribed", "unsubscribed"}
                     /\ ~Moves(C2SMove, j.type, j.seen) -> "idle"
                [] OTHER -> "push"
  IN /\ j.at = "write"
     /\ sub' = CASE j.type = "remove" -> [sub EXCEPT ![u] = "absent"]
                 [] j.type \in Type /\ Moves(C2SMove, j.type, j.seen) ->
                      Updated(u, After(C2SMove, j.type, j.seen))
                 [] OTHER -> sub
     /\ job' = [job EXCEPT ![c] = IF next = "idle" THEN Idle(u) ELSE [@ EXCEPT !.at = next]]
     /\ UNCHANGED <<online, known, link, wire, view, counts>>

(* Mutant of PushContact: it pushes the state that was read.                *)
PushSeen(c) ==
  LET j == job[c]
      u == UserOf[c]
  IN /\ j.at = "push"
     /\ view' = Pushed(u, IF j.type = "remove" THEN "absent" ELSE j.seen)
     /\ job' = [job EXCEPT ![c] = IF j.type = "remove" THEN Idle(u)
                                  ELSE [@ EXCEPT !.at = "route"]]
     /\ UNCHANGED <<sub, online, known, link, wire, counts>>

PushContact(c) ==
  LET j == job[c]
      u == UserOf[c]
  IN /\ j.at = "push"
     /\ view' = Pushed(u, IF j.type = "remove" THEN "absent"
                          ELSE After(C2SMove, j.type, j.seen))
     /\ job' = [job EXCEPT ![c] = IF j.type = "remove" THEN Idle(u)
                                  ELSE [@ EXCEPT !.at = "route"]]
     /\ UNCHANGED <<sub, online, known, link, wire, counts>>

(* Mutant of RouteContact: a removal does not tell "unsubscribed".          *)
RouteUnsubscribeOnly(c) ==
  LET j == job[c]
      u == UserOf[c]
      type == IF j.type = "remove" THEN "unsubscribe" ELSE j.type
  IN /\ j.at = "route"
     /\ wire' = Append(wire, [type |-> type, to |-> Peer[u]])
     /\ job' = [job EXCEPT ![c] = IF j.type = "remove" THEN [@ EXCEPT !.at = "push"]
                                  ELSE Idle(u)]
     /\ UNCHANGED <<sub, online, known, link, view, counts>>

RouteContact(c) ==
  LET j == job[c]
      u == UserOf[c]
      sent(t) == [type |-> t, to |-> Peer[u]]
  IN /\ j.at = "route"
     /\ IF j.type = "remove"
        THEN /\ wire' = wire \o <<sent("unsubscribe"), sent("unsubscribed")>>
             /\ job' = [job EXCEPT ![c].at = "push"]
        ELSE /\ wire' = Append(wire, sent(j.type))
             /\ job' = [job EXCEPT ![c] = Idle(u)]
     /\ UNCHANGED <<sub, online, known, link, view, counts>>

ClientStep(c) ==
  \/ RosterResult(c) \/ AddContact(c) \/ RereadContact(c)
  \/ WriteContact(c) \/ PushContact(c) \/ RouteContact(c)

-----------------------------------------------------------------------------
(* A stanza of the S2S connection: s2s-subscription.                        *)

Receive ==
  LET m == Head(wire)
      s == sub[m.to]
  IN /\ link.at = "idle"
     /\ wire # <<>>
     /\ wire' = Tail(wire)
     /\ link' = [at |-> IF m.type = "subscribe" /\ s = "absent" THEN "add" ELSE "write",
                 type |-> m.type, user |-> m.to, seen |-> s]
     /\ UNCHANGED <<sub, online, known, job, view, counts>>

AddPeer ==
  /\ link.at = "add"
  /\ sub' = IF sub[link.user] = "absent" THEN Inserted(link.user, "NPI")
            ELSE Overwritten(link.user)
  /\ link' = [link EXCEPT !.at = "reread"]
  /\ UNCHANGED <<online, known, job, wire, view, counts>>

RereadPeer ==
  LET s == sub[link.user]
  IN /\ link.at = "reread"
     /\ link' = IF s = "absent" THEN Idle(link.user)
                ELSE [link EXCEPT !.at = "write", !.seen = s]
     /\ UNCHANGED <<sub, online, known, job, wire, view, counts>>

(* Mutant of Reply: every subscribe is approved.                            *)
ReplyAlways(type, s) ==
  CASE type = "subscribe" -> "subscribed"
    [] type = "unsubscribe" /\ Moves(S2SMove, type, s) -> "unsubscribed"
    [] OTHER -> "none"

(* Mutant of Reply: a subscribe is answered in kind.                        *)
ReplyInKind(type, s) ==
  CASE type = "subscribe" /\ s \in {"FROM", "FPO", "BOTH"} -> "subscribe"
    [] type = "unsubscribe" /\ Moves(S2SMove, type, s) -> "unsubscribed"
    [] OTHER -> "none"

(* The stanza the server answers with on behalf of the user, if any.        *)
Reply(type, s) ==
  CASE type = "subscribe" /\ s \in {"FROM", "FPO", "BOTH"} -> "subscribed"
    [] type = "unsubscribe" /\ Moves(S2SMove, type, s) -> "unsubscribed"
    [] OTHER -> "none"

(* A subscribe changes the row but not what is shown of it: it is not pushed.*)
WritePeer ==
  LET type == link.type
      s == link.seen
      u == link.user
  IN /\ link.at = "write"
     /\ sub' = IF Moves(S2SMove, type, s) THEN Updated(u, After(S2SMove, type, s)) ELSE sub
     /\ link' = CASE type = "subscribe" /\ Reply(type, s) # "none" ->
                       [link EXCEPT !.at = "route"]
                  [] type # "subscribe" /\ Moves(S2SMove, type, s) ->
                       [link EXCEPT !.at = "push"]
                  [] OTHER -> Idle(u)
     /\ UNCHANGED <<online, known, job, wire, view, counts>>

(* For a user that has not been connected since the server started there is *)
(* no routing data, the push looks for the user of the S2S connection and   *)
(* raises, and the handlers scheduled after it are skipped.                 *)
PushPeer ==
  LET u == link.user
  IN /\ link.at = "push"
     /\ IF u \in known
        THEN /\ view' = Pushed(u, After(S2SMove, link.type, link.seen))
             /\ link' = IF Reply(link.type, link.seen) = "none" THEN Idle(u)
                        ELSE [link EXCEPT !.at = "route"]
        ELSE /\ link' = Idle(u)
             /\ UNCHANGED view
     /\ UNCHANGED <<sub, online, known, job, wire, counts>>

RoutePeer ==
  LET u == link.user
  IN /\ link.at = "route"
     /\ wire' = Append(wire, [type |-> Reply(link.type, link.seen), to |-> Peer[u]])
     /\ link' = Idle(u)
     /\ UNCHANGED <<sub, online, known, job, view, counts>>

LinkStep == Receive \/ AddPeer \/ RereadPeer \/ WritePeer \/ PushPeer \/ RoutePeer

-----------------------------------------------------------------------------
(* The process is restarted: the database is all that is left.              *)
Restart ==
  /\ restarts < MaxRestarts
  /\ restarts' = restarts + 1
  /\ last' = [last EXCEPT !.type = "get"]
  /\ online' = {} /\ known' = {}
  /\ job' = [c \in Client |-> Idle(UserOf[c])]
  /\ link' = Idle(link.user)
  /\ wire' = <<>>
  /\ view' = [c \in Client |-> "none"]
  /\ UNCHANGED <<sub, asked, approved, calm, requests>>

Handlers == LinkStep \/ \E c \in Client : ClientStep(c)

Next ==
  \/ Handlers
  \/ Restart
  \/ \E c \in Client : Login(c) \/ Logout(c)
  \/ \E c \in Client, t \in Type \cup {"remove"} : Request(c, t)

Safety == Init /\ [][Next]_vars

(* Handlers run as the engine runs them: fairly.                            *)
Spec == Safety /\ WF_vars(LinkStep) /\ \A c \in Client : WF_vars(ClientStep(c))

-----------------------------------------------------------------------------
(* Correctness.  A state says where a user stands in either direction.      *)

Out(s) ==
  CASE s \in {"NPO", "NPIO", "FPO"} -> "pending"
    [] s \in {"TO", "TPI", "BOTH"}  -> "yes"
    [] OTHER                        -> "no"

In(s) ==
  CASE s \in {"NPI", "NPIO", "TPI"}  -> "pending"
    [] s \in {"FROM", "FPO", "BOTH"} -> "yes"
    [] OTHER                         -> "no"

(* However the handlers interleave, and whatever a restart loses, nobody is *)
(* subscribed to a user who has never approved anyone, and no request is    *)
(* pending that was never made: neither an answer the server gives itself   *)
(* nor a write based on an old read makes one up.                           *)
GrantedOnly ==
  \A u \in User :
    /\ In(sub[u]) = "yes" => u \in approved
    /\ Out(sub[u]) = "yes" => Peer[u] \in approved
    /\ In(sub[u]) = "pending" => Peer[u] \in asked
    /\ Out(sub[u]) = "pending" => u \in asked

(* "Adds or updates a contact in this user's roster" (roster.py:86): what a *)
(* handler does for one user leaves the roster of the other alone.          *)
OwnRosterOnly ==
  [][\A u \in User : sub'[u] # sub[u] =>
       \/ link.user = u /\ link'.at # link.at
       \/ \E c \in Client : UserOf[c] = u /\ job'[c].at # job[c].at]_vars

(* Clients that waited for what they sent to be handled at both ends, and no*)
(* restart since.                                                           *)
Undisturbed == calm /\ restarts = 0

(* Once all is quiet the two rosters agree: what one user has asked for or  *)
(* been given is what the other has been asked for or has given.            *)
Agreement ==
  Quiet /\ Undisturbed => \A u \in User : Out(sub[u]) = In(sub[Peer[u]])

(* And a client shows what the roster of its user says.                     *)
ViewCurrent ==
  Quiet /\ Undisturbed => \A c \in online : view[c] = Primary(sub[UserOf[c]])

(* The servers do not answer each other's answers for ever.                 *)
Settles == <>[](wire = <<>> /\ link.at = "idle")

(* "We must always route the unsubscribe presence so as to allow the other  *)
(* servers to resynchronize their sub lists" (presence.py:726-728): once an *)
(* unsubscribe has been handled at both ends, nothing is left of the        *)
(* subscription at either, whatever a restart did to the rosters before.    *)
Resynchronized ==
  Quiet /\ calm /\ last.type = "unsubscribe" =>
    Out(sub[last.user]) = "no" /\ In(sub[Peer[last.user]]) = "no"
=============================================================================
