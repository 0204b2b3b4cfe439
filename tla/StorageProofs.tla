---------------------------- MODULE StorageProofs ----------------------------
(***************************************************************************)
(* Proofs about the two components that keep their state in the database:   *)
(* OfflineMessages, for every set of clients and every number of messages   *)
(* and of sessions, and RosterStore, for every set of users, clients,       *)
(* contacts, names and groups, and every number of requests.                *)
(***************************************************************************)
EXTENDS OfflineMessages, RosterStore, SequenceLemmas

-----------------------------------------------------------------------------
(* OfflineMessages: the inductive invariant.                                *)

(* The messages that s2s-message is done with: one has come in before it is *)
(* handled, and while it is, it is nowhere yet.                             *)
Done == IF handler = "idle" THEN arrived ELSE arrived - 1

Handled ==
  /\ handler # "idle" => arrived > 0
  /\ \A m \in ToSet(offline) : m <= Done
  /\ \A c \in Resource : \A m \in ToSet(fetched[c]) \cup ToSet(received[c]) : m <= Done

(* The table is in the order of arrival, what was read of it in the reverse.*)
Ascending(s) == \A j, k \in 1..Len(s) : j < k => s[j] < s[k]
Descending(s) == \A j, k \in 1..Len(s) : j < k => s[k] < s[j]

Ordered == Ascending(offline) /\ \A c \in Resource : Descending(fetched[c])

(* A session has rows only between the SELECT and the chain that sends them,*)
(* rows that its client has not been sent, and after its DELETE the table   *)
(* has none of them: it is this that another session relies on.             *)
FetchedApart ==
  \A c \in Resource :
    /\ presence[c] \notin {"delete", "route"} => fetched[c] = <<>>
    /\ ToSet(fetched[c]) \cap ToSet(received[c]) = {}
    /\ presence[c] = "route" => ToSet(fetched[c]) \cap ToSet(offline) = {}

OfflineInv ==
  /\ OfflineTypeOK
  /\ Handled
  /\ Ordered
  /\ FetchedApart
  /\ NoDuplicates
  /\ NotYetSent

-----------------------------------------------------------------------------
(* A row is a message that has come in, and one that is being handled is    *)
(* nowhere: not in the table, not with a session, not with a client.        *)
LEMMA BeingHandled ==
  ASSUME OfflineInv, handler # "idle"
  PROVE  /\ arrived \in Message
         /\ arrived \notin ToSet(offline)
         /\ \A c \in Resource : arrived \notin ToSet(fetched[c]) \cup ToSet(received[c])
  BY OfflineAssumption DEF OfflineInv, OfflineTypeOK, Handled, Done, Message

LEMMA RowsTyped ==
  ASSUME OfflineTypeOK
  PROVE  /\ offline \in Seq(Message) /\ offline \in Seq(Nat)
         /\ ToSet(offline) \subseteq Nat
         /\ \A c \in Resource : /\ fetched[c] \in Seq(Message) /\ fetched[c] \in Seq(Nat)
                              /\ received[c] \in Seq(Message)
                              /\ ToSet(fetched[c]) \subseteq Nat
                              /\ ToSet(received[c]) \subseteq Nat
  <1>1. Message \subseteq Nat
    BY OfflineAssumption DEF Message
  <1>2. offline \in Seq(Message) /\ ToSet(offline) \subseteq Message
    BY ToSetTyped DEF OfflineTypeOK
  <1>3. ASSUME NEW c \in Resource
        PROVE  /\ fetched[c] \in Seq(Message) /\ received[c] \in Seq(Message)
               /\ ToSet(fetched[c]) \subseteq Message /\ ToSet(received[c]) \subseteq Message
    <2>1. fetched[c] \in Seq(Message) /\ received[c] \in Seq(Message)
      BY DEF OfflineTypeOK
    <2>. QED
      BY <2>1, ToSetTyped
  <1>4. \A s \in Seq(Message) : s \in Seq(Nat)
    BY <1>1, SeqMonotonic
  <1>. QED
    BY <1>1, <1>2, <1>3, <1>4

LEMMA InitOfflineInv == OfflineInit => OfflineInv
  <1>. SUFFICES ASSUME OfflineInit PROVE OfflineInv
    OBVIOUS
  <1>1. OfflineTypeOK
    BY OfflineAssumption DEF OfflineInit, OfflineTypeOK
  <1>2. ToSet(<<>>) = {} /\ IsInjective(<<>>)
    BY DEF ToSet, IsInjective
  <1>3. Handled /\ FetchedApart /\ NoDuplicates /\ NotYetSent
    BY <1>2 DEF OfflineInit, Handled, FetchedApart, NoDuplicates, NotYetSent
  <1>4. Ordered
    BY DEF OfflineInit, Ordered, Ascending, Descending
  <1>. QED
    BY <1>1, <1>3, <1>4 DEF OfflineInv

(* A step that leaves the table and what is sent and fetched alone.         *)
LEMMA RowsUnchanged ==
  ASSUME OfflineInv, OfflineTypeOK', UNCHANGED <<offline, fetched, received>>,
         handler' # "idle" => arrived' > 0, Done' >= Done,
         \A c \in Resource : presence'[c] = presence[c]
                           \/ (fetched[c] = <<>> /\ presence'[c] # "route")
  PROVE  OfflineInv'
  <1>1. Handled'
    <2>1. Done \in Int /\ Done' \in Int
      BY DEF OfflineInv, OfflineTypeOK, Done
    <2>2. \A m \in Nat : m <= Done => m <= Done'
      BY <2>1
    <2>3. \A m \in ToSet(offline') : m <= Done'
      BY <2>2, RowsTyped DEF OfflineInv, Handled
    <2>4. ASSUME NEW c \in Resource, NEW m \in ToSet(fetched'[c]) \cup ToSet(received'[c])
          PROVE  m <= Done'
      BY <2>2, RowsTyped DEF OfflineInv, Handled
    <2>. QED
      BY <2>3, <2>4 DEF Handled
  <1>2. Ordered' /\ NoDuplicates' /\ NotYetSent'
    BY DEF OfflineInv, Ordered, Ascending, Descending, NoDuplicates, NotYetSent, Got
  <1>3. FetchedApart'
    BY DEF OfflineInv, FetchedApart
  <1>. QED
    BY <1>1, <1>2, <1>3 DEF OfflineInv

LEMMA AscendingAppend ==
  ASSUME NEW s \in Seq(Nat), Ascending(s), NEW x \in Nat, \A y \in ToSet(s) : y < x
  PROVE  Ascending(Append(s, x))
  <1>1. \A k \in 1..Len(s) : s[k] < x
    BY ItemInToSet
  <1>. QED
    BY <1>1 DEF Ascending

LEMMA OrderedInjective ==
  ASSUME NEW s \in Seq(Nat), Ascending(s) \/ Descending(s)
  PROVE  IsInjective(s)
  <1>1. ASSUME NEW j \in 1..Len(s), NEW k \in 1..Len(s), j # k
        PROVE  s[j] # s[k]
    <2>1. j < k \/ k < j
      BY <1>1
    <2>2. s[j] \in Nat /\ s[k] \in Nat
      OBVIOUS
    <2>. QED
      BY <2>1, <2>2 DEF Ascending, Descending
  <1>. QED
    BY <1>1 DEF IsInjective

LEMMA ReverseDescending ==
  ASSUME NEW s \in Seq(Nat), Ascending(s)
  PROVE  Descending(Reverse(s)) /\ IsInjective(Reverse(s))
  <1>1. ASSUME NEW j \in 1..Len(s), NEW k \in 1..Len(s), j < k
        PROVE  Reverse(s)[k] < Reverse(s)[j]
    <2>1. Len(s) - k + 1 < Len(s) - j + 1
      BY <1>1
    <2>. QED
      BY <2>1, ReverseFacts DEF Ascending
  <1>2. Descending(Reverse(s))
    BY <1>1, ReverseFacts DEF Descending
  <1>. QED
    BY <1>2, ReverseFacts, OrderedInjective

LEMMA ReverseAscending ==
  ASSUME NEW s \in Seq(Nat), Descending(s)
  PROVE  Ascending(Reverse(s)) /\ IsInjective(Reverse(s))
  <1>1. ASSUME NEW j \in 1..Len(s), NEW k \in 1..Len(s), j < k
        PROVE  Reverse(s)[j] < Reverse(s)[k]
    <2>1. Len(s) - k + 1 < Len(s) - j + 1
      BY <1>1
    <2>. QED
      BY <2>1, ReverseFacts DEF Descending
  <1>2. Ascending(Reverse(s))
    BY <1>1, ReverseFacts DEF Ascending
  <1>. QED
    BY <1>2, ReverseFacts, OrderedInjective

-----------------------------------------------------------------------------
(* Types: what is routed, stored or fetched is a message.                   *)
LEMMA TypeStep ==
  ASSUME OfflineInv, [OfflineNext]_offlineVars
  PROVE  OfflineTypeOK'
  <1>. USE DEF OfflineTypeOK
  <1>0. OfflineTypeOK /\ Message = 1..MaxMessages
    BY DEF OfflineInv, Message
  <1>1. CASE Arrive
    BY <1>0, <1>1, OfflineAssumption DEF Arrive
  <1>2. CASE LookForResources
    BY <1>0, <1>2 DEF LookForResources
  <1>3. CASE Store
    <2>1. Append(offline, arrived) \in Seq(Message)
      BY <1>0, <1>3, BeingHandled DEF Store
    <2>. QED
      BY <1>0, <1>3, <2>1 DEF Store
  <1>4. CASE Refuse
    BY <1>0, <1>4, BeingHandled DEF Refuse
  <1>5. CASE RouteToClients
    <2>1. \A c \in Resource : Append(received[c], arrived) \in Seq(Message)
      BY <1>0, <1>5, BeingHandled DEF RouteToClients
    <2>2. received' \in [Resource -> Seq(Message)]
      BY <1>0, <1>5, <2>1 DEF RouteToClients
    <2>. QED
      BY <1>0, <1>5, <2>2 DEF RouteToClients
  <1>6. ASSUME NEW c \in Resource, Bind(c) \/ InitialPresence(c) \/ Leave(c)
        PROVE  OfflineTypeOK'
    <2>1. CASE Bind(c)
      BY <1>0, <2>1, OfflineAssumption DEF Bind
    <2>2. CASE InitialPresence(c)
      BY <1>0, <2>2 DEF InitialPresence
    <2>3. CASE Leave(c)
      BY <1>0, <2>3 DEF Leave
    <2>. QED
      BY <1>6, <2>1, <2>2, <2>3
  <1>7. ASSUME NEW c \in Resource, SelectRows(c)
        PROVE  OfflineTypeOK'
    <2>1. Reverse(offline) \in Seq(Message)
      BY <1>0, ReverseFacts
    <2>. QED
      BY <1>0, <1>7, <2>1 DEF SelectRows
  <1>8. ASSUME NEW c \in Resource, DeleteRows(c)
        PROVE  OfflineTypeOK'
    BY <1>0, <1>8 DEF DeleteRows
  <1>9. ASSUME NEW c \in Resource, RouteRows(c)
        PROVE  OfflineTypeOK'
    <2>1. Reverse(fetched[c]) \in Seq(Message)
      BY <1>0, ReverseFacts
    <2>2. received[c] \o Reverse(fetched[c]) \in Seq(Message) /\ <<>> \in Seq(Message)
      BY <1>0, <2>1
    <2>. QED
      BY <1>0, <1>9, <2>2 DEF RouteRows
  <1>10. CASE UNCHANGED offlineVars
    BY <1>0, <1>10 DEF offlineVars
  <1>11. CASE Handle
    BY <1>2, <1>3, <1>4, <1>5, <1>11 DEF Handle
  <1>12. ASSUME NEW c \in Resource, Session(c)
         PROVE  OfflineTypeOK'
    BY <1>7, <1>8, <1>9, <1>12 DEF Session
  <1>. HIDE DEF OfflineTypeOK
  <1>. QED
    BY <1>1, <1>6, <1>10, <1>11, <1>12 DEF OfflineNext

-----------------------------------------------------------------------------
(* The actions that move rows.                                              *)

(* The INSERT: the row is newer than every one in the table, and nobody's.  *)
LEMMA StoreStep ==
  ASSUME OfflineInv, OfflineTypeOK', Store
  PROVE  OfflineInv'
  <1>1. PICK works \in Storage :
          /\ handler' = IF works THEN "idle" ELSE "refuse"
          /\ offline' = IF works THEN Append(offline, arrived) ELSE offline
    BY DEF Store
  <1>2. CASE ~works
    <2>1. arrived > 0 /\ arrived \in Nat
      BY DEF OfflineInv, OfflineTypeOK, Handled, Store
    <2>. QED
      BY <1>1, <1>2, <2>1, RowsUnchanged DEF Store, Done
  <1>3. CASE works
    <2>0. /\ handler = "store" /\ handler' = "idle" /\ offline' = Append(offline, arrived)
          /\ UNCHANGED <<arrived, presence, fetched, received>>
      BY <1>1, <1>3 DEF Store
    <2>1. /\ arrived \in Message /\ arrived \in Nat /\ Done = arrived - 1 /\ Done' = arrived
          /\ arrived \notin ToSet(offline)
          /\ \A c \in Resource : arrived \notin ToSet(fetched[c]) \cup ToSet(received[c])
      BY <2>0, BeingHandled DEF Done, OfflineInv, OfflineTypeOK
    <2>2. ToSet(offline') = ToSet(offline) \cup {arrived}
      BY <2>0, <2>1, RowsTyped, AppendFacts DEF OfflineInv
    <2>3. \A m \in Nat : m <= Done => m <= Done'
      BY <2>1
    <2>4. Handled'
      <3>1. \A m \in ToSet(offline') : m <= Done'
        BY <2>1, <2>2, <2>3, RowsTyped DEF OfflineInv, Handled
      <3>2. ASSUME NEW c \in Resource, NEW m \in ToSet(fetched'[c]) \cup ToSet(received'[c])
            PROVE  m <= Done'
        BY <2>0, <2>3, RowsTyped DEF OfflineInv, Handled
      <3>. QED
        BY <2>0, <3>1, <3>2 DEF Handled
    <2>5. Ordered'
      <3>1. offline \in Seq(Nat) /\ \A m \in ToSet(offline) : m < arrived
        <4>1. offline \in Seq(Nat)
          BY RowsTyped DEF OfflineInv
        <4>2. \A m \in ToSet(offline) : m \in Nat /\ m <= Done
          BY RowsTyped DEF OfflineInv, Handled
        <4>. QED
          BY <2>1, <4>1, <4>2
      <3>2. Ascending(offline')
        BY <2>0, <2>1, <3>1, AscendingAppend DEF OfflineInv, Ordered
      <3>. QED
        BY <2>0, <3>2 DEF OfflineInv, Ordered
    <2>6. FetchedApart'
      BY <2>0, <2>1, <2>2 DEF OfflineInv, FetchedApart
    <2>7. NotYetSent' /\ NoDuplicates'
      BY <2>0, <2>1, <2>2 DEF OfflineInv, NotYetSent, NoDuplicates, Got
    <2>. QED
      BY <2>4, <2>5, <2>6, <2>7 DEF OfflineInv
  <1>. QED
    BY <1>2, <1>3

(* A message is sent to the clients of the user once, when it is handled.   *)
LEMMA RouteToClientsStep ==
  ASSUME OfflineInv, OfflineTypeOK', RouteToClients
  PROVE  OfflineInv'
  <1>0. /\ handler = "route" /\ handler' = "idle"
        /\ UNCHANGED <<arrived, offline, presence, fetched>>
    BY DEF RouteToClients
  <1>1. /\ arrived \in Message /\ arrived \in Nat /\ Done = arrived - 1 /\ Done' = arrived
        /\ arrived \notin ToSet(offline)
        /\ \A c \in Resource : arrived \notin ToSet(fetched[c]) \cup ToSet(received[c])
    BY <1>0, BeingHandled DEF Done, OfflineInv, OfflineTypeOK
  <1>2. ASSUME NEW c \in Resource
        PROVE  \/ received'[c] = received[c]
               \/ /\ ToSet(received'[c]) = ToSet(received[c]) \cup {arrived}
                  /\ IsInjective(received'[c])
    <2>1. received'[c] \in {received[c], Append(received[c], arrived)}
      BY DEF RouteToClients
    <2>2. /\ ToSet(Append(received[c], arrived)) = ToSet(received[c]) \cup {arrived}
          /\ IsInjective(Append(received[c], arrived))
      <3>1. /\ received[c] \in Seq(Message) /\ IsInjective(received[c])
             /\ arrived \notin ToSet(received[c])
        BY <1>1, RowsTyped DEF OfflineInv, NoDuplicates
      <3>. QED
        BY <1>1, <3>1, AppendFacts
    <2>. QED
      BY <2>1, <2>2
  <1>3. \A m \in Nat : m <= Done => m <= Done'
    BY <1>1
  <1>4. Handled'
    <2>1. \A m \in ToSet(offline') : m <= Done'
      BY <1>0, <1>3, RowsTyped DEF OfflineInv, Handled
    <2>2. ASSUME NEW c \in Resource, NEW m \in ToSet(fetched'[c]) \cup ToSet(received'[c])
          PROVE  m <= Done'
      <3>1. m = arrived \/ m \in ToSet(fetched[c]) \cup ToSet(received[c])
        BY <1>0, <1>2, <2>2
      <3>. QED
        <4>1. CASE m = arrived
          BY <1>1, <4>1
        <4>2. CASE m \in ToSet(fetched[c]) \cup ToSet(received[c])
          <5>1. m \in Nat /\ m <= Done
            BY <4>2, RowsTyped DEF OfflineInv, Handled
          <5>. QED
            BY <1>3, <5>1
        <4>. QED
          BY <3>1, <4>1, <4>2
    <2>. QED
      BY <1>0, <2>1, <2>2 DEF Handled
  <1>5. Ordered'
    BY <1>0 DEF OfflineInv, Ordered
  <1>6. FetchedApart'
    BY <1>0, <1>1, <1>2 DEF OfflineInv, FetchedApart
  <1>7. NoDuplicates'
    BY <1>2 DEF OfflineInv, NoDuplicates
  <1>8. NotYetSent'
    BY <1>0, <1>1, <1>2 DEF OfflineInv, NotYetSent, Got
  <1>. QED
    BY <1>4, <1>5, <1>6, <1>7, <1>8 DEF OfflineInv

(* The SELECT reads rows that nobody has been sent.                         *)
LEMMA SelectRowsStep ==
  ASSUME OfflineInv, OfflineTypeOK', NEW c \in Resource, SelectRows(c)
  PROVE  OfflineInv'
  <1>0. /\ presence[c] = "select" /\ presence' = [presence EXCEPT ![c] = "delete"]
        /\ fetched' = [fetched EXCEPT ![c] = Reverse(offline)]
        /\ UNCHANGED <<arrived, handler, offline, received>>
    BY DEF SelectRows
  <1>1. /\ offline \in Seq(Message) /\ offline \in Seq(Nat) /\ OfflineTypeOK
    BY RowsTyped DEF OfflineInv
  <1>2. /\ fetched'[c] = Reverse(offline)
        /\ ToSet(fetched'[c]) = ToSet(offline)
        /\ \A d \in Resource \ {c} : fetched'[d] = fetched[d] /\ presence'[d] = presence[d]
        /\ presence'[c] = "delete"
    BY <1>0, <1>1, ReverseFacts DEF OfflineTypeOK
  <1>3. Done' = Done
    BY <1>0 DEF Done
  <1>4. Handled'
    BY <1>0, <1>2, <1>3 DEF OfflineInv, Handled
  <1>5. Ordered'
    BY <1>0, <1>1, <1>2, ReverseDescending DEF OfflineInv, Ordered
  <1>6. FetchedApart'
    BY <1>0, <1>2 DEF OfflineInv, FetchedApart, NotYetSent, Got
  <1>7. NoDuplicates' /\ NotYetSent'
    BY <1>0 DEF OfflineInv, NoDuplicates, NotYetSent, Got
  <1>. QED
    BY <1>4, <1>5, <1>6, <1>7 DEF OfflineInv

(* The DELETE empties the table, whoever is about to send its rows.         *)
LEMMA DeleteRowsStep ==
  ASSUME OfflineInv, OfflineTypeOK', NEW c \in Resource, DeleteRows(c)
  PROVE  OfflineInv'
  <1>0. /\ presence[c] = "delete" /\ presence' = [presence EXCEPT ![c] = "route"]
        /\ offline' = <<>>
        /\ UNCHANGED <<arrived, handler, fetched, received>>
    BY DEF DeleteRows
  <1>1. ToSet(offline') = {}
    BY <1>0 DEF ToSet
  <1>2. Handled'
    BY <1>0, <1>1 DEF OfflineInv, Handled, Done
  <1>3. Ordered'
    BY <1>0 DEF OfflineInv, Ordered, Ascending
  <1>4. FetchedApart'
    BY <1>0, <1>1 DEF OfflineInv, OfflineTypeOK, FetchedApart
  <1>5. NoDuplicates' /\ NotYetSent'
    BY <1>0, <1>1 DEF OfflineInv, NoDuplicates, NotYetSent
  <1>. QED
    BY <1>2, <1>3, <1>4, <1>5 DEF OfflineInv

(* What a session fetched and deleted is sent to its client, once.          *)
LEMMA RouteRowsStep ==
  ASSUME OfflineInv, OfflineTypeOK', NEW c \in Resource, RouteRows(c)
  PROVE  OfflineInv'
  <1>0. /\ presence[c] = "route" /\ presence' = [presence EXCEPT ![c] = "active"]
        /\ received' = [received EXCEPT ![c] = @ \o Reverse(fetched[c])]
        /\ fetched' = [fetched EXCEPT ![c] = <<>>]
        /\ UNCHANGED <<arrived, handler, offline>>
    BY DEF RouteRows
  <1>1. /\ OfflineTypeOK /\ fetched[c] \in Seq(Nat) /\ fetched[c] \in Seq(Message)
        /\ received[c] \in Seq(Message)
    BY RowsTyped DEF OfflineInv
  <1>2. /\ received'[c] = received[c] \o Reverse(fetched[c])
        /\ fetched'[c] = <<>> /\ ToSet(fetched'[c]) = {} /\ presence'[c] = "active"
        /\ \A d \in Resource \ {c} : /\ received'[d] = received[d] /\ fetched'[d] = fetched[d]
                                   /\ presence'[d] = presence[d]
    BY <1>0, <1>1 DEF OfflineTypeOK, ToSet
  <1>3. /\ Reverse(fetched[c]) \in Seq(Message)
        /\ ToSet(Reverse(fetched[c])) = ToSet(fetched[c])
        /\ IsInjective(Reverse(fetched[c]))
    BY <1>1, ReverseFacts, ReverseAscending DEF OfflineInv, Ordered
  <1>4. /\ ToSet(received'[c]) = ToSet(received[c]) \cup ToSet(fetched[c])
        /\ IsInjective(received'[c])
    <2>1. IsInjective(received[c]) /\ ToSet(received[c]) \cap ToSet(Reverse(fetched[c])) = {}
      BY <1>3 DEF OfflineInv, NoDuplicates, FetchedApart
    <2>. QED
      BY <1>1, <1>2, <1>3, <2>1, ConcatFacts
  <1>5. Handled'
    BY <1>0, <1>2, <1>4 DEF OfflineInv, Handled, Done
  <1>6. Ordered'
    BY <1>0, <1>2 DEF OfflineInv, Ordered, Descending
  <1>7. FetchedApart'
    BY <1>0, <1>2 DEF OfflineInv, FetchedApart
  <1>8. NoDuplicates'
    BY <1>2, <1>4 DEF OfflineInv, NoDuplicates
  <1>9. NotYetSent'
    BY <1>0, <1>2, <1>4 DEF OfflineInv, NotYetSent, Got, FetchedApart
  <1>. QED
    BY <1>5, <1>6, <1>7, <1>8, <1>9 DEF OfflineInv

-----------------------------------------------------------------------------
LEMMA NextOfflineInv ==
  ASSUME OfflineInv, [OfflineNext]_offlineVars
  PROVE  OfflineInv'
  <1>0. OfflineTypeOK /\ OfflineTypeOK' /\ arrived \in Nat /\ (handler # "idle" => arrived > 0)
    BY TypeStep DEF OfflineInv, OfflineTypeOK, Handled
  <1>1. CASE Arrive
    BY <1>0, <1>1, RowsUnchanged DEF Arrive, Done
  <1>2. CASE LookForResources
    BY <1>0, <1>2, RowsUnchanged DEF LookForResources, Done
  <1>3. CASE Refuse
    BY <1>0, <1>3, RowsUnchanged DEF Refuse, Done
  <1>4. ASSUME NEW c \in Resource, Bind(c) \/ InitialPresence(c) \/ Leave(c)
        PROVE  OfflineInv'
    <2>1. /\ UNCHANGED <<arrived, handler, offline, fetched, received>>
          /\ presence[c] \notin {"delete", "route"} /\ presence'[c] # "route"
          /\ \A d \in Resource \ {c} : presence'[d] = presence[d]
      BY <1>0, <1>4 DEF Bind, InitialPresence, Leave, OfflineTypeOK
    <2>2. fetched[c] = <<>>
      BY <2>1 DEF OfflineInv, FetchedApart
    <2>3. Done' = Done /\ Done \in Int
      BY <1>0, <2>1 DEF Done
    <2>. QED
      BY <1>0, <2>1, <2>2, <2>3, RowsUnchanged
  <1>5. CASE UNCHANGED offlineVars
    BY <1>0, <1>5, RowsUnchanged DEF offlineVars, Done
  <1>. QED
    BY <1>0, <1>1, <1>2, <1>3, <1>4, <1>5, StoreStep, RouteToClientsStep, SelectRowsStep,
       DeleteRowsStep, RouteRowsStep DEF OfflineNext, Handle, Session

(* The invariant holds in every state of every execution, with or without   *)
(* the fairness of the pools.                                               *)
THEOREM OfflineInvariant == OfflineSafety => []OfflineInv
  BY InitOfflineInv, NextOfflineInv, PTL DEF OfflineSafety

-----------------------------------------------------------------------------
(* The state of s2s-message (message.py:60) and of the initial presence has *)
(* its types.                                                               *)
THEOREM OfflineTypeCorrect == OfflineSafety => []OfflineTypeOK
  BY OfflineInvariant, PTL DEF OfflineInv

(* No client is sent a message twice, for any number of clients, sessions   *)
(* and messages: s2s-message and the initial presence of every client look, *)
(* store, fetch, delete and send in any order.                              *)
THEOREM SentOnce == OfflineSafety => []NoDuplicates
  BY OfflineInvariant, PTL DEF OfflineInv

(* What the table offline holds has been sent to nobody, so that the next   *)
(* session to fetch it (presence.py:183) repeats nothing.                   *)
THEOREM TableUnsent == OfflineSafety => []NotYetSent
  BY OfflineInvariant, PTL DEF OfflineInv

(* What a session fetched reaches its client in the order it was stored in, *)
(* whatever has been sent to the client before.                             *)
THEOREM InStoredOrder == OfflineSafety => StoredInOrder
  <1>. DEFINE InOrder ==
         \A c \in Resource : presence[c] = "route" /\ presence'[c] = "active" =>
           \A j, k \in DOMAIN received'[c] :
             Len(received[c]) < j /\ j < k => received'[c][j] < received'[c][k]
  <1>1. ASSUME OfflineInv, [OfflineNext]_offlineVars, NEW c \in Resource,
               presence[c] = "route", presence'[c] = "active",
               NEW j \in DOMAIN received'[c], NEW k \in DOMAIN received'[c],
               Len(received[c]) < j, j < k
        PROVE  received'[c][j] < received'[c][k]
    <2>1. RouteRows(c)
      <3>1. \A d \in Resource : d # c /\ (Bind(d) \/ InitialPresence(d) \/ Session(d) \/ Leave(d))
                              => presence'[c] = presence[c]
        <4>1. presence \in [Resource -> {"none", "bound", "select", "delete", "route", "active"}]
          BY <1>1 DEF OfflineInv, OfflineTypeOK
        <4>. QED
          BY <4>1 DEF Bind, InitialPresence, Session, SelectRows, DeleteRows, RouteRows, Leave
      <3>2. ~(Bind(c) \/ InitialPresence(c) \/ SelectRows(c) \/ DeleteRows(c) \/ Leave(c))
        BY <1>1 DEF Bind, InitialPresence, SelectRows, DeleteRows, Leave
      <3>3. ~(Arrive \/ Handle \/ UNCHANGED offlineVars)
        BY <1>1 DEF Arrive, Handle, LookForResources, Store, Refuse, RouteToClients, offlineVars
      <3>. QED
        BY <1>1, <3>1, <3>2, <3>3 DEF OfflineNext, Session
    <2>. DEFINE r == Reverse(fetched[c])
    <2>2. /\ received[c] \in Seq(Message) /\ fetched[c] \in Seq(Message)
          /\ fetched[c] \in Seq(Nat)
      BY <1>1, RowsTyped DEF OfflineInv
    <2>3. r \in Seq(Message) /\ Ascending(r)
      BY <1>1, <2>2, ReverseFacts, ReverseAscending DEF OfflineInv, Ordered
    <2>4. received'[c] = received[c] \o r
      BY <1>1, <2>1 DEF RouteRows, OfflineInv, OfflineTypeOK
    <2>. HIDE DEF r
    <2>5. /\ j - Len(received[c]) \in 1..Len(r) /\ received'[c][j] = r[j - Len(received[c])]
          /\ k - Len(received[c]) \in 1..Len(r) /\ received'[c][k] = r[k - Len(received[c])]
          /\ j - Len(received[c]) < k - Len(received[c])
      BY <1>1, <2>2, <2>3, <2>4
    <2>. QED
      BY <2>3, <2>5 DEF Ascending
  <1>2. OfflineInv /\ [OfflineNext]_offlineVars => [InOrder]_offlineVars
    BY <1>1
  <1>. QED
    BY <1>2, OfflineInvariant, PTL DEF OfflineSafety, StoredInOrder

-----------------------------------------------------------------------------
(* RosterStore: the inductive invariant.                                    *)

(* The requests that are handled.                                           *)
JobState ==
  [at : {"idle", "look", "write", "push", "rows", "groups", "result"},
   contact : Contact, name : Row, groups : SUBSET Group, found : BOOLEAN,
   rows : [Contact -> Row], items : [Contact -> SUBSET Group]]

(* An item to remove comes without groups.                                  *)
BareRemovals == \A c \in Client : job[c].name = Absent => job[c].groups = {}

(* What is stored of contact k of u, as a client is shown it.               *)
Stored(u, k) == ItemOf(roster[u][k], groupItems[u][k])

(* No two clients of u are served at the same time.                         *)
OneAtATime(u) ==
  \A c, d \in Client :
    UserOf[c] = u /\ UserOf[d] = u /\ job[c].at # "idle" /\ job[d].at # "idle" => c = d

(* What the request of c has read, or written, is what is stored.           *)
UpToDate(c) ==
  LET j == job[c]
      u == UserOf[c]
  IN /\ j.at = "write" => (j.found <=> roster[u][j.contact] # Absent)
     /\ j.at = "push" => Stored(u, j.contact) = ItemOf(j.name, j.groups)
     /\ j.at \in {"groups", "result"} => j.rows = roster[u]
     /\ j.at = "result" => j.items = groupItems[u]

(* c shows what is stored but for the roster it is just being sent, and the *)
(* contact that is just being pushed.                                       *)
Loading(c) == job[c].at \in {"rows", "groups", "result"}
Pushing(u, k) ==
  \E d \in Client : UserOf[d] = u /\ job[d].at = "push" /\ job[d].contact = k
ShowsStored(c) ==
  \A k \in Contact :
    Loading(c) \/ Pushing(UserOf[c], k) \/ view[c][k] = Stored(UserOf[c], k)

(* All of this for the users whose clients waited for each other.           *)
OrderlyFor(u) ==
  /\ OneAtATime(u)
  /\ \A c \in Client : UserOf[c] = u => UpToDate(c) /\ (c \in requested => ShowsStored(c))

Orderly == \A u \in User \ disturbed : OrderlyFor(u)

TInv == TypeOK /\ BareRemovals
IInv == TInv /\ Orderly

-----------------------------------------------------------------------------
(* Types.                                                                   *)

LEMMA IdleTyped == Idle \in JobState /\ Idle.at = "idle" /\ Idle.name = Absent /\ Idle.groups = {}
  <1>1. (CHOOSE k \in Contact : TRUE) \in Contact
    BY RosterStoreAssumption
  <1>. QED
    BY <1>1 DEF Idle, JobState, Row

LEMMA ItemTyped ==
  ASSUME NEW n \in Row, NEW g \in SUBSET Group
  PROVE  ItemOf(n, g) \in Item \cup {Absent}
  BY DEF ItemOf, Item, Row

LEMMA JobTyped ==
  ASSUME TypeOK
  PROVE  job \in [Client -> JobState]
  BY DEF TypeOK, JobState

LEMMA InitTInv == Init => TInv
  BY IdleTyped, RosterStoreAssumption DEF Init, TInv, TypeOK, BareRemovals, Row, JobState

LEMMA StepTInv ==
  ASSUME TInv, NEW c \in Client, Work(c) \/ Ask(c)
  PROVE  TInv'
  <1>. DEFINE j == job[c]
              u == UserOf[c]
  <1>0. /\ TypeOK /\ BareRemovals /\ u \in User /\ j \in JobState
        /\ job \in [Client -> JobState]
        /\ j.contact \in Contact /\ j.name \in Row /\ j.groups \in SUBSET Group
    BY JobTyped, RosterStoreAssumption DEF TInv, JobState
  <1>1. CASE Get(c)
    <2>1. /\ [Idle EXCEPT !.at = "rows"] \in JobState
          /\ [Idle EXCEPT !.at = "rows"].groups = {}
      BY IdleTyped DEF JobState
    <2>2. disturbed' \subseteq User
      BY <1>0, <1>1 DEF Get, Overlaps, TypeOK
    <2>. QED
      BY <1>0, <1>1, <2>1, <2>2 DEF Get, TInv, TypeOK, BareRemovals, JobState
  <1>2. ASSUME NEW k \in Contact, NEW n \in Row, NEW g \in SUBSET Group, Set(c, k, n, g)
        PROVE  TInv'
    <2>. DEFINE x == [Idle EXCEPT !.at = "look", !.contact = k, !.name = n, !.groups = g]
    <2>1. x \in JobState /\ x.name = n /\ x.groups = g
      BY IdleTyped DEF JobState
    <2>2. disturbed' \subseteq User /\ requests' \in 0..MaxRequests
      BY <1>0, <1>2, RosterStoreAssumption DEF Set, Overlaps, TypeOK
    <2>3. job' = [job EXCEPT ![c] = x] /\ (n = Absent => g = {})
          /\ UNCHANGED <<roster, groupItems, requested, view>>
      BY <1>2 DEF Set
    <2>. HIDE DEF x
    <2>. QED
      BY <1>0, <2>1, <2>2, <2>3 DEF TInv, TypeOK, BareRemovals, JobState
  <1>3. CASE LoadRows(c)
    <2>1. [j EXCEPT !.at = "groups", !.rows = roster[u]] \in JobState
      BY <1>0 DEF JobState, TypeOK
    <2>. QED
      BY <1>0, <1>3, <2>1 DEF LoadRows, TInv, TypeOK, BareRemovals, JobState
  <1>4. CASE LoadGroups(c)
    <2>1. [j EXCEPT !.at = "result", !.items = groupItems[u]] \in JobState
      BY <1>0 DEF JobState, TypeOK
    <2>. QED
      BY <1>0, <1>4, <2>1 DEF LoadGroups, TInv, TypeOK, BareRemovals, JobState
  <1>5. CASE SendResult(c)
    <2>1. \A k \in Contact : ItemOf(j.rows[k], j.items[k]) \in Item \cup {Absent}
      BY <1>0, ItemTyped DEF JobState
    <2>. QED
      BY <1>0, <1>5, <2>1, IdleTyped DEF SendResult, TInv, TypeOK, BareRemovals, JobState
  <1>6. CASE Look(c)
    <2>1. [j EXCEPT !.at = "write", !.found = (roster[u][j.contact] # Absent)] \in JobState
      BY <1>0 DEF JobState, TypeOK
    <2>. QED
      BY <1>0, <1>6, <2>1 DEF Look, TInv, TypeOK, BareRemovals, JobState
  <1>7. [j EXCEPT !.at = "push"] \in JobState
    BY <1>0 DEF JobState
  <1>8. CASE Update(c)
    <2>1. roster' \in [User -> [Contact -> Row]]
      BY <1>0, <1>8 DEF Update, TypeOK
    <2>2. groupItems' \in [User -> [Contact -> SUBSET Group]]
      BY <1>0, <1>8 DEF Update, TypeOK
    <2>3. disturbed' \subseteq User
      BY <1>0, <1>8 DEF Update, TypeOK
    <2>. QED
      BY <1>0, <1>7, <1>8, <2>1, <2>2, <2>3 DEF Update, TInv, TypeOK, BareRemovals, JobState
  <1>9. CASE Insert(c)
    <2>1. roster' \in [User -> [Contact -> Row]]
      BY <1>0, <1>9 DEF Insert, TypeOK
    <2>2. groupItems' \in [User -> [Contact -> SUBSET Group]]
      BY <1>0, <1>9 DEF Insert, TypeOK
    <2>. QED
      BY <1>0, <1>7, <1>9, <2>1, <2>2 DEF Insert, TInv, TypeOK, BareRemovals, JobState
  <1>10. CASE InsertRaises(c)
    BY <1>0, <1>10, IdleTyped DEF InsertRaises, TInv, TypeOK, BareRemovals, JobState
  <1>11. CASE RemoveItem(c)
    <2>1. /\ [roster EXCEPT ![u][j.contact] = Absent] \in [User -> [Contact -> Row]]
          /\ [groupItems EXCEPT ![u][j.contact] = {}] \in [User -> [Contact -> SUBSET Group]]
      BY <1>0 DEF TypeOK, Row
    <2>2. /\ roster' \in [User -> [Contact -> Row]]
          /\ groupItems' \in [User -> [Contact -> SUBSET Group]]
      BY <1>0, <1>11, <2>1 DEF RemoveItem, TypeOK
    <2>. QED
      BY <1>0, <1>7, <1>11, <2>1, <2>2 DEF RemoveItem, TInv, TypeOK, BareRemovals, JobState
  <1>12. CASE Push(c)
    <2>1. ItemOf(j.name, j.groups) \in Item \cup {Absent}
      BY <1>0, ItemTyped
    <2>2. view' \in [Client -> [Contact -> Item \cup {Absent}]]
      BY <1>0, <1>12, <2>1 DEF Push, TypeOK
    <2>. QED
      BY <1>0, <1>12, <2>2, IdleTyped DEF Push, TInv, TypeOK, BareRemovals, JobState
  <1>. QED
    BY <1>1, <1>2, <1>3, <1>4, <1>5, <1>6, <1>8, <1>9, <1>10, <1>11, <1>12 DEF Work, Ask

LEMMA NextTInv ==
  ASSUME TInv, [Next]_vars
  PROVE  TInv'
  <1>1. CASE UNCHANGED vars
    BY <1>1 DEF vars, TInv, TypeOK, BareRemovals
  <1>. QED
    BY <1>1, StepTInv DEF Next

-----------------------------------------------------------------------------
(* What a client that is not served, and a user whose rows, clients and     *)
(* views a step leaves alone, see of it: nothing.                           *)
LEMMA OtherUser ==
  ASSUME NEW u \in User, OrderlyFor(u),
         roster'[u] = roster[u], groupItems'[u] = groupItems[u],
         \A d \in Client : UserOf[d] = u =>
           job'[d] = job[d] /\ view'[d] = view[d] /\ (d \in requested' <=> d \in requested)
  PROVE  OrderlyFor(u)'
  <1>1. OneAtATime(u)'
    BY DEF OrderlyFor, OneAtATime
  <1>2. \A k : Stored(u, k)' = Stored(u, k)
    BY DEF Stored
  <1>3. \A k : Pushing(u, k)' <=> Pushing(u, k)
    BY DEF Pushing
  <1>4. ASSUME NEW d \in Client, UserOf[d] = u
        PROVE  UpToDate(d)' /\ (d \in requested' => ShowsStored(d)')
    <2>1. UpToDate(d)'
      BY <1>2, <1>4 DEF OrderlyFor, UpToDate, Stored
    <2>2. Loading(d)' <=> Loading(d)
      BY <1>4 DEF Loading
    <2>. QED
      BY <1>2, <1>3, <1>4, <2>1, <2>2 DEF OrderlyFor, ShowsStored, Stored, Pushing
  <1>. QED
    BY <1>1, <1>4 DEF OrderlyFor

(* The user of the client that is served, while the others wait.            *)
LEMMA ServedUser ==
  ASSUME NEW c \in Client,
         \A d \in Client \ {c} : UserOf[d] = UserOf[c] => job'[d].at = "idle",
         UpToDate(c)',
         \A d \in Client, k \in Contact :
           UserOf[d] = UserOf[c] /\ d \in requested' =>
             \/ d = c /\ Loading(c)'
             \/ job'[c].at = "push" /\ job'[c].contact = k
             \/ view'[d][k] = Stored(UserOf[c], k)'
  PROVE  OrderlyFor(UserOf[c])'
  <1>1. OneAtATime(UserOf[c])'
    BY DEF OneAtATime
  <1>2. ASSUME NEW d \in Client \ {c}, UserOf[d] = UserOf[c]
        PROVE  UpToDate(d)'
    BY <1>2 DEF UpToDate
  <1>3. ASSUME NEW d \in Client, UserOf[d] = UserOf[c], d \in requested'
        PROVE  ShowsStored(d)'
    <2>1. ASSUME NEW k \in Contact
          PROVE  Loading(d)' \/ Pushing(UserOf[d], k)' \/ view'[d][k] = Stored(UserOf[d], k)'
      BY <1>3 DEF Pushing, Stored
    <2>. QED
      BY <2>1 DEF ShowsStored
  <1>. QED
    BY <1>1, <1>2, <1>3 DEF OrderlyFor

LEMMA StepOrderly ==
  ASSUME IInv, TInv', NEW c \in Client, Work(c) \/ Ask(c)
  PROVE  Orderly'
  <1>. DEFINE u == UserOf[c]
              j == job[c]
  <1>0. /\ TypeOK /\ TypeOK' /\ u \in User /\ job \in [Client -> JobState] /\ j \in JobState
        /\ Orderly /\ UserOf \in [Client -> User]
        /\ j.contact \in Contact /\ j.name \in Row /\ j.groups \in SUBSET Group
    BY JobTyped, RosterStoreAssumption DEF IInv, TInv, JobState
  (* Other users.                                                           *)
  <1>1. ASSUME NEW v \in User \ disturbed', v # u
        PROVE  OrderlyFor(v)'
    <2>1. v \notin disturbed
      BY <1>0, <1>1 DEF Work, Ask, Get, LoadRows, LoadGroups, SendResult, Set, Look, Update, Insert,
            InsertRaises, RemoveItem, Push, Overlaps
    <2>2. OrderlyFor(v)
      BY <1>0, <2>1 DEF Orderly
    <2>3. roster'[v] = roster[v] /\ groupItems'[v] = groupItems[v]
      <3>1. CASE Update(c)
        BY <1>0, <1>1, <3>1 DEF Update, TypeOK
      <3>2. CASE Insert(c)
        BY <1>0, <1>1, <3>2 DEF Insert, TypeOK
      <3>3. CASE RemoveItem(c)
        BY <1>0, <1>1, <3>3 DEF RemoveItem, TypeOK
      <3>4. CASE ~(Update(c) \/ Insert(c) \/ RemoveItem(c))
        BY <3>4 DEF Work, Ask, Get, LoadRows, LoadGroups, SendResult, Set, Look, InsertRaises, Push
      <3>. QED
        BY <3>1, <3>2, <3>3, <3>4
    <2>4. ASSUME NEW d \in Client, UserOf[d] = v
          PROVE  job'[d] = job[d] /\ view'[d] = view[d] /\ (d \in requested' <=> d \in requested)
      <3>1. d # c
        BY <1>1, <2>4
      <3>2. job'[d] = job[d]
        BY <1>0, <3>1 DEF Work, Ask, Get, LoadRows, LoadGroups, SendResult, Set, Look, Update,
              Insert, InsertRaises, RemoveItem, Push
      <3>3. view'[d] = view[d]
        BY <1>0, <1>1, <2>4, <3>1 DEF Work, Ask, Get, LoadRows, LoadGroups, SendResult, Set, Look,
              Update, Insert, InsertRaises, RemoveItem, Push, TypeOK
      <3>4. d \in requested' <=> d \in requested
        BY <3>1 DEF Work, Ask, Get, LoadRows, LoadGroups, SendResult, Set, Look, Update,
              Insert, InsertRaises, RemoveItem, Push
      <3>. QED
        BY <3>2, <3>3, <3>4
    <2>. QED
      BY <1>1, <2>2, <2>3, <2>4, OtherUser
  (* The user of c.                                                         *)
  <1>2. ASSUME u \notin disturbed'
        PROVE  OrderlyFor(u)'
    <2>1. u \notin disturbed
      BY <1>0, <1>2 DEF Work, Ask, Get, LoadRows, LoadGroups, SendResult, Set, Look, Update, Insert,
            InsertRaises, RemoveItem, Push, Overlaps
    <2>2. /\ OneAtATime(u) /\ UpToDate(c)
          /\ \A d \in Client : UserOf[d] = u /\ d \in requested => ShowsStored(d)
      BY <1>0, <2>1 DEF Orderly, OrderlyFor
    <2>3. \A d \in Client \ {c} : job'[d] = job[d]
      BY <1>0 DEF Work, Ask, Get, LoadRows, LoadGroups, SendResult, Set, Look, Update,
            Insert, InsertRaises, RemoveItem, Push
    <2>4. \A d \in Client \ {c} : UserOf[d] = u => job[d].at = "idle"
      <3>1. CASE Work(c)
        <4>1. j.at # "idle"
          BY <3>1 DEF Work, LoadRows, LoadGroups, SendResult, Look, Update, Insert,
                InsertRaises, RemoveItem, Push
        <4>. QED
          BY <2>2, <4>1 DEF OneAtATime
      <3>2. CASE Ask(c)
        <4>1. Overlaps(u)
          BY <3>2 DEF Ask, Get, Set
        <4>. QED
          BY <1>2, <4>1 DEF Overlaps, Quiet
      <3>. QED
        BY <3>1, <3>2
    <2>5. \A d \in Client \ {c} : UserOf[d] = u => job'[d].at = "idle"
      BY <2>3, <2>4
    (* What the clients of the user show before the step.                   *)
    <2>6. \A d \in Client, k \in Contact : UserOf[d] = u /\ d \in requested =>
            \/ d = c /\ Loading(c)
            \/ j.at = "push" /\ j.contact = k
            \/ view[d][k] = Stored(u, k)
      BY <2>2, <2>4 DEF ShowsStored, Loading, Pushing
    <2>. DEFINE Shown == \A d \in Client, k \in Contact :
           UserOf[d] = u /\ d \in requested' =>
             \/ d = c /\ Loading(c)'
             \/ job'[c].at = "push" /\ job'[c].contact = k
             \/ view'[d][k] = Stored(u, k)'
    <2>7. CASE Get(c)
      <3>1. job'[c].at = "rows" /\ UNCHANGED <<roster, groupItems, view>>
            /\ requested' = requested \cup {c} /\ j.at = "idle"
        BY <1>0, <2>7, IdleTyped DEF Get, JobState
      <3>2. UpToDate(c)'
        BY <3>1 DEF UpToDate
      <3>3. Shown
        BY <2>6, <3>1 DEF Loading, Stored
      <3>. QED
        BY <2>5, <3>2, <3>3, ServedUser
    <2>8. CASE \E k \in Contact, n \in Row, g \in SUBSET Group : Set(c, k, n, g)
      <3>1. job'[c].at = "look" /\ UNCHANGED <<roster, groupItems, view, requested>>
            /\ j.at = "idle"
        BY <1>0, <2>8, IdleTyped DEF Set, JobState
      <3>2. UpToDate(c)'
        BY <3>1 DEF UpToDate
      <3>3. Shown
        BY <2>6, <3>1 DEF Loading, Stored
      <3>. QED
        BY <2>5, <3>2, <3>3, ServedUser
    <2>9. CASE LoadRows(c)
      <3>1. job'[c].at = "groups" /\ job'[c].rows = roster[u] /\ j.at = "rows"
            /\ UNCHANGED <<roster, groupItems, view, requested>>
        BY <1>0, <2>9 DEF LoadRows, JobState
      <3>2. UpToDate(c)'
        BY <3>1 DEF UpToDate
      <3>3. Shown
        BY <2>6, <3>1 DEF Loading, Stored
      <3>. QED
        BY <2>5, <3>2, <3>3, ServedUser
    <2>10. CASE LoadGroups(c)
      <3>1. job'[c].at = "result" /\ job'[c].rows = j.rows /\ job'[c].items = groupItems[u]
            /\ j.at = "groups" /\ UNCHANGED <<roster, groupItems, view, requested>>
        BY <1>0, <2>10 DEF LoadGroups, JobState
      <3>2. UpToDate(c)'
        BY <2>2, <3>1 DEF UpToDate
      <3>3. Shown
        BY <2>6, <3>1 DEF Loading, Stored
      <3>. QED
        BY <2>5, <3>2, <3>3, ServedUser
    <2>11. CASE SendResult(c)
      <3>1. job'[c].at = "idle" /\ j.at = "result"
            /\ UNCHANGED <<roster, groupItems, requested>>
            /\ view' = [view EXCEPT ![c] = [k \in Contact |-> ItemOf(j.rows[k], j.items[k])]]
        BY <1>0, <2>11, IdleTyped DEF SendResult
      <3>2. UpToDate(c)'
        BY <3>1 DEF UpToDate
      <3>3. \A k \in Contact : view'[c][k] = Stored(u, k)
        BY <1>0, <2>2, <3>1 DEF UpToDate, Stored, TypeOK
      <3>4. \A d \in Client \ {c} : view'[d] = view[d]
        BY <1>0, <3>1 DEF TypeOK
      <3>5. Shown
        BY <2>6, <3>1, <3>3, <3>4 DEF Stored
      <3>. QED
        BY <2>5, <3>2, <3>5, ServedUser
    <2>12. CASE Look(c)
      <3>1. job'[c].at = "write" /\ job'[c].found = (roster[u][j.contact] # Absent)
            /\ job'[c].contact = j.contact
            /\ j.at = "look" /\ UNCHANGED <<roster, groupItems, view, requested>>
        BY <1>0, <2>12 DEF Look, JobState
      <3>2. UpToDate(c)'
        BY <3>1 DEF UpToDate
      <3>3. Shown
        BY <2>6, <3>1 DEF Loading, Stored
      <3>. QED
        BY <2>5, <3>2, <3>3, ServedUser
    (* The rows that are written are those that will be pushed.             *)
    <2>13. ASSUME j.at = "write", UNCHANGED <<view, requested>>,
                  job' = [job EXCEPT ![c].at = "push"],
                  Stored(u, j.contact)' = ItemOf(j.name, j.groups),
                  \A k \in Contact \ {j.contact} : Stored(u, k)' = Stored(u, k)
           PROVE  OrderlyFor(u)'
      <3>1. job'[c].at = "push" /\ job'[c].contact = j.contact
            /\ job'[c].name = j.name /\ job'[c].groups = j.groups
        BY <1>0, <2>13 DEF JobState
      <3>2. UpToDate(c)'
        BY <2>13, <3>1 DEF UpToDate, Stored
      <3>3. Shown
        BY <2>6, <2>13, <3>1 DEF Loading
      <3>. QED
        BY <2>5, <3>2, <3>3, ServedUser
    <2>14. CASE Update(c)
      <3>1. /\ roster[u][j.contact] # Absent /\ j.at = "write" /\ j.name # Absent
            /\ job' = [job EXCEPT ![c].at = "push"]
            /\ UNCHANGED <<view, requested>>
        BY <2>2, <2>14 DEF Update, UpToDate
      <3>2. /\ roster'[u] = [roster[u] EXCEPT ![j.contact] = j.name]
            /\ groupItems'[u] = [groupItems[u] EXCEPT ![j.contact] = j.groups]
        BY <1>0, <2>14, <3>1 DEF Update, TypeOK
      <3>3. /\ roster'[u][j.contact] = j.name /\ groupItems'[u][j.contact] = j.groups
            /\ \A k \in Contact \ {j.contact} :
                 roster'[u][k] = roster[u][k] /\ groupItems'[u][k] = groupItems[u][k]
        BY <1>0, <3>2 DEF TypeOK
      <3>. QED
        BY <2>13, <3>1, <3>3 DEF Stored
    <2>15. CASE Insert(c)
      <3>1. /\ j.at = "write"
            /\ job' = [job EXCEPT ![c].at = "push"]
            /\ UNCHANGED <<view, requested>>
        BY <2>15 DEF Insert
      <3>2. /\ roster'[u] = [roster[u] EXCEPT ![j.contact] = j.name]
            /\ groupItems'[u] = [groupItems[u] EXCEPT ![j.contact] = j.groups]
        BY <1>0, <2>15 DEF Insert, TypeOK
      <3>3. /\ roster'[u][j.contact] = j.name /\ groupItems'[u][j.contact] = j.groups
            /\ \A k \in Contact \ {j.contact} :
                 roster'[u][k] = roster[u][k] /\ groupItems'[u][k] = groupItems[u][k]
        BY <1>0, <3>2 DEF TypeOK
      <3>. QED
        BY <2>13, <3>1, <3>3 DEF Stored
    <2>16. CASE InsertRaises(c)
      <3>1. j.at = "write" /\ job'[c].at = "idle"
            /\ UNCHANGED <<roster, groupItems, view, requested>>
        BY <1>0, <2>16, IdleTyped DEF InsertRaises
      <3>2. UpToDate(c)'
        BY <3>1 DEF UpToDate
      <3>3. Shown
        BY <2>6, <3>1 DEF Loading, Stored
      <3>. QED
        BY <2>5, <3>2, <3>3, ServedUser
    <2>17. CASE RemoveItem(c)
      <3>1. /\ j.at = "write" /\ j.name = Absent
            /\ job' = [job EXCEPT ![c].at = "push"]
            /\ UNCHANGED <<view, requested>>
        BY <2>17 DEF RemoveItem
      <3>2. /\ roster'[u][j.contact] = Absent
            /\ \A k \in Contact \ {j.contact} :
                 roster'[u][k] = roster[u][k] /\ groupItems'[u][k] = groupItems[u][k]
        <4>1. CASE j.found
          <5>1. /\ roster'[u] = [roster[u] EXCEPT ![j.contact] = Absent]
                /\ groupItems'[u] = [groupItems[u] EXCEPT ![j.contact] = {}]
            BY <1>0, <2>17, <4>1 DEF RemoveItem, TypeOK
          <5>. QED
            BY <1>0, <5>1 DEF TypeOK
        <4>2. CASE ~j.found
          BY <2>2, <2>17, <3>1, <4>2 DEF RemoveItem, UpToDate
        <4>. QED
          BY <4>1, <4>2
      <3>. QED
        BY <2>13, <3>1, <3>2 DEF Stored, ItemOf
    <2>18. CASE Push(c)
      <3>1. /\ job'[c].at = "idle" /\ j.at = "push"
            /\ UNCHANGED <<roster, groupItems, requested>>
        BY <1>0, <2>18, IdleTyped DEF Push
      <3>2. UpToDate(c)'
        BY <3>1 DEF UpToDate
      <3>3. ASSUME NEW d \in Client, NEW k \in Contact, UserOf[d] = u, d \in requested
            PROVE  view'[d][k] = Stored(u, k)
        <4>1. view'[d] = [view[d] EXCEPT ![j.contact] = ItemOf(j.name, j.groups)]
          BY <2>18, <3>3 DEF Push
        <4>2. view'[d][k] = IF k = j.contact THEN ItemOf(j.name, j.groups) ELSE view[d][k]
          BY <1>0, <4>1 DEF TypeOK
        <4>. QED
          BY <2>2, <2>6, <3>1, <3>3, <4>2 DEF UpToDate, Loading
      <3>4. Shown
        BY <3>1, <3>3 DEF Stored
      <3>. QED
        BY <2>5, <3>2, <3>4, ServedUser
    <2>. QED
      BY <2>7, <2>8, <2>9, <2>10, <2>11, <2>12, <2>14, <2>15, <2>16, <2>17, <2>18 DEF Work, Ask
  <1>. QED
    BY <1>1, <1>2 DEF Orderly

LEMMA NextIInv ==
  ASSUME IInv, [Next]_vars
  PROVE  IInv'
  <1>0. TInv'
    BY NextTInv DEF IInv
  <1>1. CASE UNCHANGED vars
    <2>1. \A u \in User \ disturbed' : OrderlyFor(u)'
      BY <1>1, OtherUser DEF vars, IInv, Orderly
    <2>. QED
      BY <1>0, <2>1 DEF IInv, Orderly
  <1>2. CASE Next
    BY <1>0, <1>2, StepOrderly DEF IInv, Next
  <1>. QED
    BY <1>1, <1>2

LEMMA InitIInv == Init => IInv
  <1>. SUFFICES ASSUME Init PROVE IInv
    OBVIOUS
  <1>1. requested = {} /\ \A c \in Client : job[c].at = "idle"
    BY IdleTyped DEF Init
  <1>2. Orderly
    BY <1>1 DEF Orderly, OrderlyFor, OneAtATime, UpToDate
  <1>. QED
    BY <1>2, InitTInv DEF IInv

(* The invariant holds in every state of every execution.                   *)
THEOREM Invariant == Safety => []IInv
  BY InitIInv, NextIInv, PTL DEF Safety

-----------------------------------------------------------------------------
(* Rosters, requests and what is sent have their types: a client is sent    *)
(* items, and removals (Roster.createRosterQuery).                          *)
THEOREM TypeCorrect == Safety => []TypeOK
  BY Invariant, PTL DEF IInv, TInv

(* A client whose user had one request handled at a time, and whose rows no *)
(* other user's UPDATE has renamed, shows what is stored once its user's    *)
(* requests are handled: for every number of clients of the user, whichever *)
(* of them asks, and whenever they asked for the roster first.              *)
THEOREM ViewsCurrent == Safety => []ViewCurrent
  <1>1. IInv => ViewCurrent
    <2>. SUFFICES ASSUME IInv, NEW c \in requested, Quiet(UserOf[c]),
                         UserOf[c] \notin disturbed, NEW k \in Contact
                  PROVE  view[c][k] = ItemOf(roster[UserOf[c]][k], groupItems[UserOf[c]][k])
      BY DEF ViewCurrent
    <2>1. c \in Client /\ UserOf[c] \in User
      BY RosterStoreAssumption DEF IInv, TInv, TypeOK
    <2>2. ShowsStored(c)
      BY <2>1 DEF IInv, Orderly, OrderlyFor
    <2>3. ~Loading(c) /\ ~Pushing(UserOf[c], k)
      BY <2>1 DEF Quiet, Loading, Pushing
    <2>. QED
      BY <2>2, <2>3 DEF ShowsStored, Stored
  <1>. QED
    BY <1>1, Invariant, PTL

(* The groups of a user are changed by the requests of that user only, and  *)
(* only where the request says: the UPDATE that reaches every user's rows   *)
(* (roster.py:117-121) does not reach their groups.                         *)
LEMMA GroupsStep ==
  ASSUME TInv, [Next]_vars, NEW u \in User, groupItems'[u] # groupItems[u]
  PROVE  \E c \in Client :
           /\ UserOf[c] = u /\ job[c].at = "write"
           /\ \A k \in Contact : groupItems'[u][k] # groupItems[u][k] =>
                k = job[c].contact /\ groupItems'[u][k] = job[c].groups
  <1>0. TypeOK /\ BareRemovals
    BY DEF TInv
  <1>1. PICK c \in Client : Update(c) \/ Insert(c) \/ RemoveItem(c)
    BY DEF Next, Work, Ask, Get, LoadRows, LoadGroups, SendResult, Set, Look, InsertRaises, Push,
       vars
  <1>. DEFINE g == IF RemoveItem(c) THEN {} ELSE job[c].groups
  <1>2. job[c].at = "write" /\ g = job[c].groups
    BY <1>0, <1>1 DEF Update, Insert, RemoveItem, BareRemovals
  <1>3. groupItems' = [groupItems EXCEPT ![UserOf[c]][job[c].contact] = job[c].groups]
    BY <1>1, <1>2 DEF Update, Insert, RemoveItem
  <1>4. UserOf[c] = u
    BY <1>0, <1>3 DEF TypeOK
  <1>5. groupItems'[u] = [groupItems[u] EXCEPT ![job[c].contact] = job[c].groups]
    BY <1>0, <1>3, <1>4 DEF TypeOK
  <1>6. \A k \in Contact : groupItems'[u][k] # groupItems[u][k] =>
          k = job[c].contact /\ groupItems'[u][k] = job[c].groups
    BY <1>0, <1>5 DEF TypeOK
  <1>. QED
    BY <1>2, <1>4, <1>6

(* A handler changes the groups of no user but the one of its connection, and*)
(* only those of the contact it was asked to write (roster.py, updateContact*)
(* and removeContact).                                                      *)
THEOREM GroupsOwn == Safety => GroupsApart
  <1>1. TInv /\ [Next]_vars => [\A u \in User : groupItems'[u] # groupItems[u] =>
          \E c \in Client :
            /\ UserOf[c] = u /\ job[c].at = "write"
            /\ \A k \in Contact : groupItems'[u][k] # groupItems[u][k] =>
                 k = job[c].contact /\ groupItems'[u][k] = job[c].groups]_vars
    BY GroupsStep
  <1>2. IInv => TInv
    BY DEF IInv
  <1>. QED
    BY <1>1, <1>2, Invariant, PTL DEF Safety, GroupsApart
=============================================================================
