--------------------------- MODULE OfflineMessages ---------------------------
(***************************************************************************)
(* What becomes of the messages to one user: s2s-message (handlers/message  *)
(* .py), which routes a message to the clients of the user or stores it, and*)
(* the initial presence of a client (handlers/presence.py), which sends what*)
(* is stored.  Both look and act in separate steps, in worker threads of two*)
(* pools, while clients bind their resource, and leave, in the main loop.   *)
(***************************************************************************)
EXTENDS Naturals, Sequences, SequencesExt, FiniteSets

CONSTANTS
  Resource,      \* connections on which the user may log in
  Bare,          \* an address without a resource
  MaxMessages,   \* bound: messages sent to the user
  MaxSessions,   \* bound: sessions of the user
  Storage        \* whether the INSERT works, a subset of BOOLEAN

ASSUME OfflineAssumption ==
  /\ Bare \notin Resource
  /\ MaxMessages \in Nat /\ MaxSessions \in Nat
  /\ Storage \subseteq BOOLEAN /\ Storage # {}

VARIABLES
  arrived,     \* messages that have come in on the S2S connection (numbers them)
  handler,     \* where s2s-message is with the last of them
  to,          \* its address: the client whose resource it names, or Bare
  offline,     \* the rows of the offline table for the user, oldest first
  bound,       \* the clients under data['resources'][jid]
  presence,    \* presence[c]: where the initial presence of c is
  fetched,     \* fetched[c]: the rows it has read, as route-client will pop them
  received,    \* received[c]: the messages sent on c's connection
  refused,     \* messages answered with service-unavailable
  sessions     \* sessions so far

offlineVars ==
  <<arrived, handler, to, offline, bound, presence, fetched, received, refused, sessions>>

Message == 1..MaxMessages

(* The types of the state of the two handlers and the table.                *)
OfflineTypeOK ==
  /\ arrived \in 0..MaxMessages
  /\ handler \in {"idle", "look", "store", "route", "refuse"}
  /\ to \in Resource \cup {Bare}
  /\ offline \in Seq(Message)
  /\ bound \subseteq Resource
  /\ presence \in [Resource -> {"none", "bound", "select", "delete", "route", "active"}]
  /\ fetched \in [Resource -> Seq(Message)]
  /\ received \in [Resource -> Seq(Message)]
  /\ refused \subseteq Message
  /\ sessions \in 0..MaxSessions

OfflineInit ==
  /\ arrived = 0
  /\ handler = "idle" /\ to = Bare
  /\ offline = <<>>
  /\ bound = {}
  /\ presence = [c \in Resource |-> "none"]
  /\ fetched = [c \in Resource |-> <<>>]
  /\ received = [c \in Resource |-> <<>>]
  /\ refused = {}
  /\ sessions = 0

-----------------------------------------------------------------------------
(* s2s-message, one message at a time: all of them come in on the one S2S   *)
(* connection.                                                              *)

Arrive ==
  /\ handler = "idle"
  /\ arrived < MaxMessages
  /\ arrived' = arrived + 1
  /\ handler' = "look"
  /\ to' \in Resource \cup {Bare}
  /\ UNCHANGED <<offline, bound, presence, fetched, received, refused, sessions>>

(* "the user has one or more resources available"; the one that is named may*)
(* not be, then the message is for all of them.                             *)
LookForResources ==
  /\ handler = "look"
  /\ handler' = IF bound # {} THEN "route" ELSE "store"
  /\ to' = IF to \in bound THEN to ELSE Bare
  /\ UNCHANGED <<arrived, offline, bound, presence, fetched, received, refused, sessions>>

(* The INSERT works, or the sender is told that the service is unavailable. *)
Store ==
  /\ handler = "store"
  /\ \E works \in Storage :
       /\ handler' = IF works THEN "idle" ELSE "refuse"
       /\ offline' = IF works THEN Append(offline, arrived) ELSE offline
  /\ UNCHANGED <<arrived, to, bound, presence, fetched, received, refused, sessions>>

Refuse ==
  /\ handler = "refuse"
  /\ handler' = "idle"
  /\ refused' = refused \cup {arrived}
  /\ UNCHANGED <<arrived, to, offline, bound, presence, fetched, received, sessions>>

(* Mutant of RouteToClients: a bare JID is nobody's.                        *)
RouteToResource ==
  /\ handler = "route"
  /\ handler' = "idle"
  /\ received' = [c \in Resource |-> IF c \in bound /\ to = c
                                     THEN Append(received[c], arrived)
                                     ELSE received[c]]
  /\ UNCHANGED <<arrived, to, offline, bound, presence, fetched, refused, sessions>>

(* route-client: the connection of the resource, or for a bare JID every one*)
(* of the user, if any is left.                                             *)
RouteToClients ==
  /\ handler = "route"
  /\ handler' = "idle"
  /\ received' = [c \in Resource |-> IF c \in bound /\ to \in {c, Bare}
                                     THEN Append(received[c], arrived)
                                     ELSE received[c]]
  /\ UNCHANGED <<arrived, to, offline, bound, presence, fetched, refused, sessions>>

-----------------------------------------------------------------------------
(* A session: bind, the initial presence, and the end of the connection,    *)
(* which waits for the presence to be handled.                              *)

Bind(c) ==
  /\ presence[c] = "none"
  /\ sessions < MaxSessions
  /\ sessions' = sessions + 1
  /\ bound' = bound \cup {c}
  /\ presence' = [presence EXCEPT ![c] = "bound"]
  /\ UNCHANGED <<arrived, handler, to, offline, fetched, received, refused>>

InitialPresence(c) ==
  /\ presence[c] = "bound"
  /\ presence' = [presence EXCEPT ![c] = "select"]
  /\ UNCHANGED <<arrived, handler, to, offline, bound, fetched, received, refused, sessions>>

(* Mutant of SelectRows: the oldest first.                                  *)
SelectRowsAscending(c) ==
  /\ presence[c] = "select"
  /\ fetched' = [fetched EXCEPT ![c] = offline]
  /\ presence' = [presence EXCEPT ![c] = "delete"]
  /\ UNCHANGED <<arrived, handler, to, offline, bound, received, refused, sessions>>

(* ORDER BY time DESC: the newest first.                                    *)
SelectRows(c) ==
  /\ presence[c] = "select"
  /\ fetched' = [fetched EXCEPT ![c] = Reverse(offline)]
  /\ presence' = [presence EXCEPT ![c] = "delete"]
  /\ UNCHANGED <<arrived, handler, to, offline, bound, received, refused, sessions>>

(* Mutant of DeleteRows: the transaction is not committed.                  *)
DeleteNothing(c) ==
  /\ presence[c] = "delete"
  /\ presence' = [presence EXCEPT ![c] = "route"]
  /\ UNCHANGED <<arrived, handler, to, offline, bound, fetched, received, refused,
                 sessions>>

(* Mutant of DeleteRows: only the oldest row goes.                          *)
DeleteOldest(c) ==
  /\ presence[c] = "delete"
  /\ offline' = SubSeq(offline, 2, Len(offline))
  /\ presence' = [presence EXCEPT ![c] = "route"]
  /\ UNCHANGED <<arrived, handler, to, bound, fetched, received, refused, sessions>>

DeleteRows(c) ==
  /\ presence[c] = "delete"
  /\ offline' = <<>>
  /\ presence' = [presence EXCEPT ![c] = "route"]
  /\ UNCHANGED <<arrived, handler, to, bound, fetched, received, refused, sessions>>

(* The route-client handlers take the messages from the end of the list.    *)
RouteRows(c) ==
  /\ presence[c] = "route"
  /\ received' = [received EXCEPT ![c] = @ \o Reverse(fetched[c])]
  /\ fetched' = [fetched EXCEPT ![c] = <<>>]
  /\ presence' = [presence EXCEPT ![c] = "active"]
  /\ UNCHANGED <<arrived, handler, to, offline, bound, refused, sessions>>

Leave(c) ==
  /\ presence[c] \in {"bound", "active"}
  /\ bound' = bound \ {c}
  /\ presence' = [presence EXCEPT ![c] = "none"]
  /\ UNCHANGED <<arrived, handler, to, offline, fetched, received, refused, sessions>>

Handle == LookForResources \/ Store \/ Refuse \/ RouteToClients
Session(c) == SelectRows(c) \/ DeleteRows(c) \/ RouteRows(c)

OfflineNext ==
  \/ Arrive \/ Handle
  \/ \E c \in Resource : Bind(c) \/ InitialPresence(c) \/ Session(c) \/ Leave(c)

OfflineSafety == OfflineInit /\ [][OfflineNext]_offlineVars

(* The handlers run; a client that has bound sends its presence, or leaves. *)
OfflineSpec ==
  /\ OfflineSafety
  /\ WF_offlineVars(Handle)
  /\ \A c \in Resource : WF_offlineVars(Session(c)) /\ WF_offlineVars(InitialPresence(c))

-----------------------------------------------------------------------------
(* Correctness.                                                             *)

Got(m) == \E c \in Resource : m \in ToSet(received[c])

(* No client is sent a message twice, however storing, fetching and routing *)
(* interleave over its sessions.                                            *)
NoDuplicates == \A c \in Resource : IsInjective(received[c])

(* A row of the table has not been sent to anyone: a message is not handed  *)
(* out again by a later session.                                            *)
NotYetSent == \A m \in ToSet(offline) : ~Got(m)

(* What a session fetched is sent in the order it was stored in (the SELECT *)
(* reverses it, and the chain of handlers reverses it again).               *)
StoredInOrder ==
  [][\A c \in Resource : presence[c] = "route" /\ presence'[c] = "active" =>
       \A j, k \in DOMAIN received'[c] :
         Len(received[c]) < j /\ j < k => received'[c][j] < received'[c][k]]_offlineVars

(* A message for the user, or for a client that is there, that finds clients*)
(* of the user is sent to one of them, unless one leaves first.             *)
SentToClients ==
  \A m \in Message, there \in SUBSET Resource \ {{}} :
    (handler = "look" /\ arrived = m /\ bound = there /\ to \in there \cup {Bare})
      ~> (Got(m) \/ ~(there \subseteq bound))

(* "user is unavailable, so save offline messages" (message.py:131): what   *)
(* has been saved stays in the table until a session has it to send.        *)
SavedUntilFetched ==
  [][\A m \in ToSet(offline) \ ToSet(offline') :
       \E c \in Resource : m \in ToSet(fetched[c])]_offlineVars
=============================================================================
