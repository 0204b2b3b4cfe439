----------------------------- MODULE RosterStore -----------------------------
(***************************************************************************)
(* The rosters in the database and what the clients are shown of them:      *)
(* iq-roster-get, iq-roster-update and roster-push (handlers/iq.py) over    *)
(* loadRoster, updateContact and removeContact (roster.py).                 *)
(*                                                                          *)
(* The handlers run in worker threads.  A SELECT before the first write is  *)
(* outside of the transaction that the writes make up, so each is a step of *)
(* its own.  The subscription of a row is module Subscriptions.             *)
(***************************************************************************)
EXTENDS FiniteSets, Naturals

CONSTANTS
  User,
  Client,        \* connections of clients
  UserOf,        \* UserOf[c]: the user of c
  Contact,       \* JIDs that can be in a roster
  Name,          \* names a client can give a contact
  Group,         \* names of groups
  Absent,        \* no row, or no item
  MaxRequests    \* bound: requests of the clients

ASSUME RosterStoreAssumption ==
  /\ UserOf \in [Client -> User]
  /\ Contact # {} /\ Absent \notin Name
  /\ MaxRequests \in Nat

VARIABLES
  roster,        \* roster[u][k]: the name in the row of u for k, or Absent
  groupItems,    \* groupItems[u][k]: the groups of u that have k as an item
  job,           \* job[c]: the roster request of c that is being handled
  requested,     \* the clients with requestedRoster set
  view,          \* view[c][k]: the item of k that was sent to c last, or Absent
  requests,      \* requests so far
  disturbed      \* history: the users with requests at the same time, or whose
                 \* rows a request of another user has changed

vars == <<roster, groupItems, job, requested, view, requests, disturbed>>

Row == Name \cup {Absent}
Item == [name : Name, groups : SUBSET Group]

(* Mutant of ItemOf: a row that is not there is an item like another.       *)
ItemOfAny(name, groups) == [name |-> name, groups |-> groups]

(* What is shown of a row, or of a contact without one.                     *)
ItemOf(name, groups) ==
  IF name = Absent THEN Absent ELSE [name |-> name, groups |-> groups]

Idle == [at |-> "idle", contact |-> CHOOSE k \in Contact : TRUE, name |-> Absent,
         groups |-> {}, found |-> FALSE, rows |-> [k \in Contact |-> Absent],
         items |-> [k \in Contact |-> {}]]

(* The types of the state: a client is sent items and removals.             *)
TypeOK ==
  /\ roster \in [User -> [Contact -> Row]]
  /\ groupItems \in [User -> [Contact -> SUBSET Group]]
  /\ job \in [Client ->
       [at : {"idle", "look", "write", "push", "rows", "groups", "result"},
        contact : Contact, name : Row, groups : SUBSET Group, found : BOOLEAN,
        rows : [Contact -> Row], items : [Contact -> SUBSET Group]]]
  /\ requested \subseteq Client
  /\ view \in [Client -> [Contact -> Item \cup {Absent}]]
  /\ requests \in 0..MaxRequests
  /\ disturbed \subseteq User

Init ==
  /\ roster = [u \in User |-> [k \in Contact |-> Absent]]
  /\ groupItems = [u \in User |-> [k \in Contact |-> {}]]
  /\ job = [c \in Client |-> Idle]
  /\ requested = {}
  /\ view = [c \in Client |-> [k \in Contact |-> Absent]]
  /\ requests = 0
  /\ disturbed = {}

Quiet(u) == \A c \in Client : UserOf[c] = u => job[c].at = "idle"

(* A request of a user that has another one under way.                      *)
Overlaps(u) == disturbed' = IF Quiet(u) THEN disturbed ELSE disturbed \cup {u}

-----------------------------------------------------------------------------
(* iq-roster-get: the client is sent pushes from now on; the rows are read, *)
(* then the groups of the contacts among them, then the result is written.  *)

Get(c) ==
  /\ job[c].at = "idle"
  /\ c \notin requested
  /\ requested' = requested \cup {c}
  /\ job' = [job EXCEPT ![c] = [Idle EXCEPT !.at = "rows"]]
  /\ Overlaps(UserOf[c])
  /\ UNCHANGED <<roster, groupItems, view, requests>>

LoadRows(c) ==
  /\ job[c].at = "rows"
  /\ job' = [job EXCEPT ![c].at = "groups", ![c].rows = roster[UserOf[c]]]
  /\ UNCHANGED <<roster, groupItems, requested, view, requests, disturbed>>

LoadGroups(c) ==
  /\ job[c].at = "groups"
  /\ job' = [job EXCEPT ![c].at = "result", ![c].items = groupItems[UserOf[c]]]
  /\ UNCHANGED <<roster, groupItems, requested, view, requests, disturbed>>

SendResult(c) ==
  /\ job[c].at = "result"
  /\ view' = [view EXCEPT ![c] = [k \in Contact |-> ItemOf(job[c].rows[k], job[c].items[k])]]
  /\ job' = [job EXCEPT ![c] = Idle]
  /\ UNCHANGED <<roster, groupItems, requested, requests, disturbed>>

-----------------------------------------------------------------------------
(* iq-roster-update: an item with a name and groups, or one to remove, which*)
(* has no name here.                                                        *)

Set(c, k, n, g) ==
  /\ c \in requested
  /\ job[c].at = "idle"
  /\ n = Absent => g = {}
  /\ requests < MaxRequests
  /\ requests' = requests + 1
  /\ job' = [job EXCEPT ![c] =
               [Idle EXCEPT !.at = "look", !.contact = k, !.name = n, !.groups = g]]
  /\ Overlaps(UserOf[c])
  /\ UNCHANGED <<roster, groupItems, requested, view>>

(* Is the contact in the roster of the user?                                *)
Look(c) ==
  LET j == job[c]
  IN /\ j.at = "look"
     /\ job' = [job EXCEPT ![c].at = "write",
                           ![c].found = (roster[UserOf[c]][j.contact] # Absent)]
     /\ UNCHANGED <<roster, groupItems, requested, view, requests, disturbed>>

(* updateContact of a contact that was found: the UPDATE is not limited to  *)
(* the rows of the user.  The groups are deleted and inserted again.        *)
Update(c) ==
  LET j == job[c]
      k == j.contact
  IN /\ j.at = "write" /\ j.name # Absent /\ j.found
     /\ roster' = [u \in User |-> IF roster[u][k] = Absent THEN roster[u]
                                  ELSE [roster[u] EXCEPT ![k] = j.name]]
     /\ groupItems' = [groupItems EXCEPT ![UserOf[c]][k] = j.groups]
     /\ job' = [job EXCEPT ![c].at = "push"]
     /\ disturbed' = disturbed \cup
          {u \in User \ {UserOf[c]} : roster'[u] # roster[u]}
     /\ UNCHANGED <<requested, view, requests>>

Insert(c) ==
  LET j == job[c]
      u == UserOf[c]
  IN /\ j.at = "write" /\ j.name # Absent /\ ~j.found
     /\ roster[u][j.contact] = Absent
     /\ roster' = [roster EXCEPT ![u][j.contact] = j.name]
     /\ groupItems' = [groupItems EXCEPT ![u][j.contact] = j.groups]
     /\ job' = [job EXCEPT ![c].at = "push"]
     /\ UNCHANGED <<requested, view, requests, disturbed>>

(* The row has come to be since it was looked for: the INSERT raises, the   *)
(* transaction is abandoned, and roster-push was not scheduled yet.         *)
InsertRaises(c) ==
  LET j == job[c]
  IN /\ j.at = "write" /\ j.name # Absent /\ ~j.found
     /\ roster[UserOf[c]][j.contact] # Absent
     /\ job' = [job EXCEPT ![c] = Idle]
     /\ UNCHANGED <<roster, groupItems, requested, view, requests, disturbed>>

(* Mutant of RemoveItem: the DELETE of the groups is not limited to the user. *)
RemoveForAll(c) ==
  LET j == job[c]
      u == UserOf[c]
  IN /\ j.at = "write" /\ j.name = Absent
     /\ IF j.found
        THEN /\ roster' = [roster EXCEPT ![u][j.contact] = Absent]
             /\ groupItems' = [v \in User |-> [groupItems[v] EXCEPT ![j.contact] = {}]]
        ELSE UNCHANGED <<roster, groupItems>>
     /\ job' = [job EXCEPT ![c].at = "push"]
     /\ UNCHANGED <<requested, view, requests, disturbed>>

(* removeContact; the push is scheduled whether or not there is a row.      *)
RemoveItem(c) ==
  LET j == job[c]
      u == UserOf[c]
  IN /\ j.at = "write" /\ j.name = Absent
     /\ IF j.found
        THEN /\ roster' = [roster EXCEPT ![u][j.contact] = Absent]
             /\ groupItems' = [groupItems EXCEPT ![u][j.contact] = {}]
        ELSE UNCHANGED <<roster, groupItems>>
     /\ job' = [job EXCEPT ![c].at = "push"]
     /\ UNCHANGED <<requested, view, requests, disturbed>>

(* Mutant of Push: to the client that asked alone.                          *)
PushBack(c) ==
  LET j == job[c]
  IN /\ j.at = "push"
     /\ view' = [view EXCEPT ![c][j.contact] = ItemOf(j.name, j.groups)]
     /\ job' = [job EXCEPT ![c] = Idle]
     /\ UNCHANGED <<roster, groupItems, requested, requests, disturbed>>

(* roster-push, of what the client asked for, to every connected client of  *)
(* the user that has requested the roster.                                  *)
Push(c) ==
  LET j == job[c]
      item == ItemOf(j.name, j.groups)
  IN /\ j.at = "push"
     /\ view' = [d \in Client |-> IF d \in requested /\ UserOf[d] = UserOf[c]
                                  THEN [view[d] EXCEPT ![j.contact] = item] ELSE view[d]]
     /\ job' = [job EXCEPT ![c] = Idle]
     /\ UNCHANGED <<roster, groupItems, requested, requests, disturbed>>

Work(c) ==
  \/ LoadRows(c) \/ LoadGroups(c) \/ SendResult(c)
  \/ Look(c) \/ Update(c) \/ Insert(c) \/ InsertRaises(c) \/ RemoveItem(c) \/ Push(c)

Ask(c) ==
  \/ Get(c)
  \/ \E k \in Contact, n \in Row, g \in SUBSET Group : Set(c, k, n, g)

Next == \E c \in Client : Work(c) \/ Ask(c)

Safety == Init /\ [][Next]_vars

-----------------------------------------------------------------------------
(* Correctness.                                                             *)

(* The groups of one user are apart from those of another, which may have   *)
(* the same names and the same contacts: a handler changes only the groups  *)
(* of its user, and what it removes keeps none behind (roster.py:139-169,   *)
(* 196-208).                                                                *)
GroupsApart ==
  [][\A u \in User : groupItems'[u] # groupItems[u] =>
       \E c \in Client :
         /\ UserOf[c] = u /\ job[c].at = "write"
         /\ \A k \in Contact : groupItems'[u][k] # groupItems[u][k] =>
              k = job[c].contact /\ groupItems'[u][k] = job[c].groups]_vars

(* Clients of one user that wait for each other show what is stored.        *)
ViewCurrent ==
  \A c \in requested : Quiet(UserOf[c]) /\ UserOf[c] \notin disturbed =>
    \A k \in Contact :
      view[c][k] = ItemOf(roster[UserOf[c]][k], groupItems[UserOf[c]][k])

(* "Adds or updates a contact in this user's roster" (roster.py:86): and    *)
(* leaves the roster of every other user alone.                             *)
OwnRoster ==
  [][\A u \in User : roster'[u] # roster[u] =>
       \E c \in Client : UserOf[c] = u /\ job[c].at = "write"]_vars
=============================================================================
