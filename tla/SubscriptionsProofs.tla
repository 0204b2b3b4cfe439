-------------------------- MODULE SubscriptionsProofs --------------------------
(***************************************************************************)
(* Proofs about Subscriptions, for every set of users that come in pairs,   *)
(* every set of clients and every number of stanzas and of restarts.        *)
(***************************************************************************)
EXTENDS Subscriptions, SequenceTheorems, TLAPS

(* The tables of roster.py, stanza by stanza: the half of a state that says *)
(* what the user may be shown (Out), and the half that says what the contact*)
(* may be shown (In), as each table changes them.  An unsubscribe of the    *)
(* user does not withdraw a request that is pending at a contact who has the*)
(* user's own approval (FPO is missing in presence.py:736-748).             *)
LEMMA C2STable ==
  ASSUME NEW t \in Type, NEW s \in Row
  PROVE  LET n == After(C2SMove, t, s)
         IN /\ n \in Row
            /\ Moves(C2SMove, t, s) => s \in State /\ n \in State
            /\ t = "subscribe" => /\ In(n) = In(s)
                                  /\ Out(n) = IF s # "absent" /\ Out(s) = "no"
                                              THEN "pending" ELSE Out(s)
            /\ t = "subscribed" => /\ Out(n) = Out(s)
                                   /\ In(n) = IF In(s) = "pending" THEN "yes" ELSE In(s)
            /\ t = "unsubscribe" => /\ In(n) = In(s)
                                    /\ Out(n) = IF s = "FPO" THEN "pending" ELSE "no"
            /\ t = "unsubscribed" => Out(n) = Out(s) /\ In(n) = "no"
  <1>1. CASE t = "subscribe"
    BY <1>1 DEF Type, Row, State, After, Moves, C2SMove, In, Out
  <1>2. CASE t = "subscribed"
    BY <1>2 DEF Type, Row, State, After, Moves, C2SMove, In, Out
  <1>3. CASE t = "unsubscribe"
    BY <1>3 DEF Type, Row, State, After, Moves, C2SMove, In, Out
  <1>4. CASE t = "unsubscribed"
    BY <1>4 DEF Type, Row, State, After, Moves, C2SMove, In, Out
  <1>. QED
    BY <1>1, <1>2, <1>3, <1>4 DEF Type

LEMMA S2STable ==
  ASSUME NEW t \in Type, NEW s \in Row
  PROVE  LET n == After(S2SMove, t, s)
         IN /\ n \in Row
            /\ Moves(S2SMove, t, s) => s \in State /\ n \in State
            /\ t = "subscribe" => /\ Out(n) = Out(s)
                                  /\ In(n) = IF s # "absent" /\ In(s) = "no"
                                             THEN "pending" ELSE In(s)
            /\ t = "subscribed" => /\ In(n) = In(s)
                                   /\ Out(n) = IF Out(s) = "pending" THEN "yes" ELSE Out(s)
            /\ t = "unsubscribe" => Out(n) = Out(s) /\ In(n) = "no"
            /\ t = "unsubscribed" => In(n) = In(s) /\ Out(n) = "no"
  <1>1. CASE t = "subscribe"
    BY <1>1 DEF Type, Row, State, After, Moves, S2SMove, In, Out
  <1>2. CASE t = "subscribed"
    BY <1>2 DEF Type, Row, State, After, Moves, S2SMove, In, Out
  <1>3. CASE t = "unsubscribe"
    BY <1>3 DEF Type, Row, State, After, Moves, S2SMove, In, Out
  <1>4. CASE t = "unsubscribed"
    BY <1>4 DEF Type, Row, State, After, Moves, S2SMove, In, Out
  <1>. QED
    BY <1>1, <1>2, <1>3, <1>4 DEF Type

(* What the server says on behalf of a user.                                *)
LEMMA ReplyTable ==
  ASSUME NEW t \in Type, NEW s \in Row
  PROVE  /\ Reply(t, s) \in {"subscribed", "unsubscribed", "none"}
         /\ Reply(t, s) = "subscribed" => In(s) = "yes"
  BY DEF Reply, In, Type, Row, State

LEMMA PrimaryTyped ==
  ASSUME NEW s
  PROVE  Primary(s) \in {"none", "to", "from", "both"}
  BY DEF Primary

-----------------------------------------------------------------------------
(* The inductive invariant.                                                 *)

(* What a handler has to do is a step of the stanza it handles; only a      *)
(* subscribe adds a contact, and one stanza is routed by the other server   *)
(* only when there is an answer.                                            *)
Staged ==
  /\ \A c \in Client :
       /\ job[c].at \notin {"idle", "result"} => job[c].type \in Type \cup {"remove"}
       /\ job[c].at \in {"add", "reread"} => job[c].type = "subscribe"
  /\ link.at \in {"idle", "add", "reread", "write", "push", "route"}
  /\ link.at # "idle" => link.type \in Type
  /\ link.at \in {"add", "reread"} => link.type = "subscribe"
  /\ link.at = "route" => Reply(link.type, link.seen) # "none"

(* A row of u that says no more than what has been asked for and approved.  *)
Justified(u, s) ==
  /\ In(s) = "yes" => u \in approved
  /\ Out(s) = "yes" => Peer[u] \in approved
  /\ In(s) = "pending" => Peer[u] \in asked
  /\ Out(s) = "pending" => u \in asked

(* A stanza t that u has sent.                                              *)
Meant(u, t) ==
  /\ t = "subscribe" => u \in asked
  /\ t = "subscribed" => u \in approved

(* The rows, but also what each handler has read of one, and each stanza    *)
(* that is handled or under way, are justified: a write that is based on an *)
(* old read stores nothing worse.                                           *)
Founded ==
  /\ \A u \in User : Justified(u, sub[u])
  /\ \A c \in Client : job[c].at # "idle" =>
       Justified(UserOf[c], job[c].seen) /\ Meant(UserOf[c], job[c].type)
  /\ link.at # "idle" =>
       Justified(link.user, link.seen) /\ Meant(Peer[link.user], link.type)
  /\ \A k \in 1..Len(wire) : Meant(Peer[wire[k].to], wire[k].type)

(* What every step keeps, and what it keeps unless a key is a state.        *)
TInv == TypeOK /\ Staged
IInv == TInv /\ Founded

(* The keys of the users are not the one that UPDATEs another's row.        *)
NoSuchKey == \A u \in User : Id[u] # 2

-----------------------------------------------------------------------------
(* Types and stages.                                                        *)

LEMMA IdleTyped ==
  ASSUME NEW u \in User
  PROVE  Idle(u) \in JobState /\ Idle(u).at = "idle" /\ Idle(u).user = u
  BY DEF Idle, JobState, Row

LEMMA JobTyped ==
  ASSUME NEW j \in JobState, NEW r \in Row,
         NEW a \in {"idle", "result", "add", "reread", "write", "push", "route"}
  PROVE  /\ [j EXCEPT !.at = a] \in JobState
         /\ [j EXCEPT !.at = a, !.seen = r] \in JobState
  BY DEF JobState

LEMMA JobFields ==
  ASSUME NEW j \in JobState, NEW r, NEW a
  PROVE  /\ [j EXCEPT !.at = a].at = a
         /\ [j EXCEPT !.at = a].type = j.type
         /\ [j EXCEPT !.at = a].seen = j.seen
         /\ [j EXCEPT !.at = a].user = j.user
         /\ [j EXCEPT !.at = a, !.seen = r].at = a
         /\ [j EXCEPT !.at = a, !.seen = r].type = j.type
         /\ [j EXCEPT !.at = a, !.seen = r].seen = r
         /\ [j EXCEPT !.at = a, !.seen = r].user = j.user
  BY DEF JobState

LEMMA InitTInv == Init => TInv
  <1>. SUFFICES ASSUME Init PROVE TInv
    OBVIOUS
  <1>1. TypeOK
    BY IdleTyped, SubscriptionsAssumption DEF Init, TypeOK, Row
  <1>2. Staged
    BY IdleTyped, SubscriptionsAssumption DEF Init, Staged
  <1>. QED
    BY <1>1, <1>2 DEF TInv

LEMMA ClientTyped ==
  ASSUME TInv, NEW c \in Client, Login(c) \/ Logout(c) \/ ClientStep(c)
                                 \/ \E t \in Type \cup {"remove"} : Request(c, t)
  PROVE  TInv'
  <1>0. /\ UserOf[c] \in User /\ Peer[UserOf[c]] \in User /\ job[c] \in JobState
        /\ sub[UserOf[c]] \in Row /\ TypeOK
    BY SubscriptionsAssumption DEF TInv, TypeOK
  <1>1. CASE Login(c)
    <2>1. job'[c] \in JobState /\ job' \in [Client -> JobState] /\ job'[c].at = "result"
      BY <1>0, <1>1 DEF Login, TypeOK, JobState
    <2>2. TypeOK'
      BY <1>0, <1>1, <2>1 DEF Login, TypeOK
    <2>. QED
      BY <1>0, <1>1, <2>1, <2>2 DEF Login, TInv, Staged, TypeOK
  <1>2. CASE Logout(c)
    <2>1. TypeOK'
      BY <1>0, <1>2 DEF Logout, TypeOK, counts
    <2>. QED
      BY <1>2, <2>1 DEF Logout, TInv, Staged
  <1>3. CASE RosterResult(c)
    <2>1. TypeOK'
      BY <1>0, <1>3, IdleTyped, PrimaryTyped DEF RosterResult, TypeOK, counts
    <2>. QED
      BY <1>0, <1>3, <2>1, IdleTyped DEF RosterResult, TInv, Staged, TypeOK
  <1>4. ASSUME NEW t \in Type \cup {"remove"}, Request(c, t)
        PROVE  TInv'
    <2>. DEFINE a == IF t = "subscribe" /\ sub[UserOf[c]] = "absent" THEN "add" ELSE "write"
    <2>1. /\ job' = [job EXCEPT ![c] = [at |-> a, type |-> t, user |-> UserOf[c],
                                        seen |-> sub[UserOf[c]]]]
          /\ UNCHANGED <<sub, online, known, link, wire, view, restarts>>
          /\ asked' \in {asked, asked \cup {UserOf[c]}}
          /\ approved' \in {approved, approved \cup {UserOf[c]}}
          /\ last' = [user |-> UserOf[c], type |-> t]
      BY <1>4 DEF Request
    <2>2. job' \in [Client -> JobState] /\ job'[c].at = a /\ job'[c].type = t
      BY <1>0, <2>1 DEF TypeOK, JobState
    <2>3. calm' \in BOOLEAN /\ requests' \in 0..MaxRequests
      <3>1. calm' \in BOOLEAN
        BY <1>4 DEF Request
      <3>2. requests < MaxRequests /\ requests' = requests + 1
        BY <1>0, <1>4, SubscriptionsAssumption DEF Request, TypeOK
      <3>. QED
        BY <1>0, <3>1, <3>2, SubscriptionsAssumption DEF TypeOK
    <2>4. TypeOK'
      BY <1>0, <2>1, <2>2, <2>3 DEF TypeOK
    <2>. QED
      BY <1>0, <2>1, <2>2, <2>4 DEF TInv, Staged, TypeOK
  <1>5. CASE AddContact(c)
    <2>1. Inserted(UserOf[c], "NONE") \in [User -> Row]
      BY <1>0 DEF Inserted, TypeOK, Row, State
    <2>2. TypeOK'
      BY <1>0, <1>5, <2>1, JobTyped DEF AddContact, TypeOK, counts
    <2>. QED
      BY <1>0, <1>5, <2>2 DEF AddContact, TInv, Staged, TypeOK, JobState
  <1>6. CASE RereadContact(c)
    <2>1. job'[c] \in {Idle(UserOf[c]), [job[c] EXCEPT !.at = "write", !.seen = sub[UserOf[c]]]}
      BY <1>0, <1>6 DEF RereadContact, TypeOK
    <2>2. TypeOK'
      BY <1>0, <1>6, JobTyped, IdleTyped DEF RereadContact, TypeOK, counts
    <2>. QED
      BY <1>0, <1>6, <2>1, <2>2, IdleTyped DEF RereadContact, TInv, Staged, TypeOK, JobState
  <1>7. CASE WriteContact(c)
    <2>1. PICK a \in {"route", "push"} :
            /\ job' = [job EXCEPT ![c] = Idle(UserOf[c])]
               \/ job' = [job EXCEPT ![c] = [@ EXCEPT !.at = a]]
      BY <1>7, Zenon DEF WriteContact
    <2>2. job[c].type \in Type \cup {"remove"}
      BY <1>7 DEF WriteContact, TInv, Staged
    <2>3. sub' \in [User -> Row]
      <3>1. CASE job[c].type = "remove"
        <4>1. sub' = [sub EXCEPT ![UserOf[c]] = "absent"]
          BY <1>7, <3>1 DEF WriteContact, Type
        <4>. QED
          BY <1>0, <4>1 DEF TypeOK, Row
      <3>2. CASE job[c].type \in Type
        <4>1. After(C2SMove, job[c].type, job[c].seen) \in Row
          BY <1>0, <3>2, C2STable DEF JobState
        <4>2. Updated(UserOf[c], After(C2SMove, job[c].type, job[c].seen)) \in [User -> Row]
          BY <1>0, <4>1 DEF Updated, TypeOK
        <4>3. sub' \in {sub, Updated(UserOf[c], After(C2SMove, job[c].type, job[c].seen))}
          <5>1. job[c].type # "remove"
            BY <3>2 DEF Type
          <5>. QED
            BY <1>7, <5>1, Zenon DEF WriteContact
        <4>. QED
          BY <1>0, <4>2, <4>3 DEF TypeOK
      <3>. QED
        BY <2>2, <3>1, <3>2
    <2>4. TypeOK'
      BY <1>0, <1>7, <2>1, <2>3, JobTyped, IdleTyped DEF WriteContact, TypeOK, counts
    <2>5. /\ \/ job'[c].at = "idle"
             \/ job'[c].at \in {"route", "push"} /\ job'[c].type = job[c].type
          /\ \A d \in Client \ {c} : job'[d] = job[d]
      <3>1. job'[c] \in {Idle(UserOf[c]), [job[c] EXCEPT !.at = a]}
            /\ \A d \in Client \ {c} : job'[d] = job[d]
        BY <1>0, <2>1 DEF TypeOK
      <3>. QED
        BY <1>0, <3>1, IdleTyped DEF JobState
    <2>6. link' = link
      BY <1>7 DEF WriteContact
    <2>7. \A d \in Client \ {c} :
            /\ job[d].at \notin {"idle", "result"} => job[d].type \in Type \cup {"remove"}
            /\ job[d].at \in {"add", "reread"} => job[d].type = "subscribe"
      BY DEF TInv, Staged
    <2>8. Staged'
      BY <2>2, <2>5, <2>6, <2>7 DEF TInv, Staged
    <2>. QED
      BY <2>4, <2>8 DEF TInv
  <1>8. CASE PushContact(c)
    <2>1. \/ job' = [job EXCEPT ![c] = Idle(UserOf[c])]
          \/ job' = [job EXCEPT ![c] = [@ EXCEPT !.at = "route"]]
      BY <1>8 DEF PushContact
    <2>2. view' \in [Client -> {"none", "to", "from", "both"}]
      BY <1>0, <1>8, PrimaryTyped DEF PushContact, Pushed, TypeOK
    <2>3. job' \in [Client -> JobState]
      <3>1. [job[c] EXCEPT !.at = "route"] \in JobState /\ Idle(UserOf[c]) \in JobState
        BY <1>0, JobTyped, IdleTyped
      <3>. QED
        BY <1>0, <2>1, <3>1 DEF TypeOK
    <2>4. TypeOK'
      BY <1>0, <1>8, <2>2, <2>3 DEF PushContact, TypeOK, counts
    <2>5. /\ job'[c].at = "idle" \/ (job'[c].at = "route" /\ job'[c].type = job[c].type)
          /\ \A d \in Client \ {c} : job'[d] = job[d]
      <3>1. job'[c] \in {Idle(UserOf[c]), [job[c] EXCEPT !.at = "route"]}
            /\ \A d \in Client \ {c} : job'[d] = job[d]
        BY <1>0, <2>1 DEF TypeOK
      <3>. QED
        BY <1>0, <3>1, IdleTyped DEF JobState
    <2>6. job[c].type \in Type \cup {"remove"} /\ link' = link
      BY <1>8 DEF PushContact, TInv, Staged
    <2>7. \A d \in Client \ {c} :
            /\ job[d].at \notin {"idle", "result"} => job[d].type \in Type \cup {"remove"}
            /\ job[d].at \in {"add", "reread"} => job[d].type = "subscribe"
      BY DEF TInv, Staged
    <2>8. Staged'
      BY <2>5, <2>6, <2>7 DEF TInv, Staged
    <2>. QED
      BY <2>4, <2>8 DEF TInv
  <1>9. CASE RouteContact(c)
    <2>1. \/ job' = [job EXCEPT ![c] = Idle(UserOf[c])]
          \/ job' = [job EXCEPT ![c].at = "push"]
      BY <1>9 DEF RouteContact
    <2>2. wire' \in Seq(Stanza)
      <3>1. \A t \in Type : [type |-> t, to |-> Peer[UserOf[c]]] \in Stanza
        BY <1>0 DEF Stanza
      <3>2. job[c].type \in Type \cup {"remove"}
        BY <1>9 DEF RouteContact, TInv, Staged
      <3>3. CASE job[c].type = "remove"
        <4>1. wire' = wire \o <<[type |-> "unsubscribe", to |-> Peer[UserOf[c]]],
                                [type |-> "unsubscribed", to |-> Peer[UserOf[c]]]>>
          BY <1>9, <3>3 DEF RouteContact
        <4>2. /\ [type |-> "unsubscribe", to |-> Peer[UserOf[c]]] \in Stanza
              /\ [type |-> "unsubscribed", to |-> Peer[UserOf[c]]] \in Stanza
          BY <3>1 DEF Type
        <4>. QED
          BY <1>0, <4>1, <4>2 DEF TypeOK
      <3>4. CASE job[c].type # "remove"
        <4>1. wire' = Append(wire, [type |-> job[c].type, to |-> Peer[UserOf[c]]])
          BY <1>9, <3>4 DEF RouteContact
        <4>. QED
          BY <1>0, <3>1, <3>2, <3>4, <4>1 DEF TypeOK
      <3>. QED
        BY <3>3, <3>4
    <2>3. TypeOK'
      <3>1. job' \in [Client -> JobState]
        BY <1>0, <2>1, JobTyped, IdleTyped DEF TypeOK
      <3>. QED
        BY <1>0, <1>9, <2>2, <3>1 DEF RouteContact, TypeOK, counts
    <2>4. job' = [job EXCEPT ![c].at = "push"] => job[c].type \in Type \cup {"remove"}
      BY <1>9 DEF RouteContact, TInv, Staged
    <2>5. /\ job'[c].at = "idle" \/ (job'[c].at = "push" /\ job'[c].type = job[c].type)
          /\ \A d \in Client \ {c} : job'[d] = job[d]
      <3>1. job'[c] \in {Idle(UserOf[c]), [job[c] EXCEPT !.at = "push"]}
            /\ \A d \in Client \ {c} : job'[d] = job[d]
        BY <1>0, <2>1 DEF TypeOK
      <3>. QED
        BY <1>0, <3>1, IdleTyped DEF JobState
    <2>. QED
      BY <1>9, <2>3, <2>4, <2>5 DEF RouteContact, TInv, Staged
  <1>. QED
    BY <1>1, <1>2, <1>3, <1>4, <1>5, <1>6, <1>7, <1>8, <1>9 DEF ClientStep

LEMMA LinkTyped ==
  ASSUME TInv, LinkStep
  PROVE  TInv'
  <1>0. /\ link \in JobState /\ link.user \in User /\ Peer[link.user] \in User
        /\ sub[link.user] \in Row /\ TypeOK
        /\ link.at # "idle" => link.type \in Type
    BY SubscriptionsAssumption DEF TInv, TypeOK, JobState, Staged
  <1>1. CASE Receive
    <2>1. Head(wire) \in Stanza /\ Tail(wire) \in Seq(Stanza)
      BY <1>0, <1>1 DEF Receive, TypeOK
    <2>2. /\ link' \in JobState /\ link'.type \in Type /\ link'.at \in {"add", "write"}
          /\ link'.at = "add" => link'.type = "subscribe"
      BY <1>0, <1>1, <2>1 DEF Receive, JobState, TypeOK, Stanza
    <2>3. TypeOK'
      BY <1>0, <1>1, <2>1, <2>2 DEF Receive, TypeOK, counts
    <2>. QED
      BY <1>1, <2>2, <2>3 DEF Receive, TInv, Staged
  <1>2. CASE AddPeer
    <2>1. Inserted(link.user, "NPI") \in [User -> Row]
      BY <1>0 DEF Inserted, TypeOK, Row, State
    <2>2. Overwritten(link.user) \in [User -> Row]
      <3>1. Numbered[Id[Peer[link.user]]] \in Row
        <4>1. Id[Peer[link.user]] \in 1..8
          BY <1>0, SubscriptionsAssumption
        <4>2. \A k \in 1..8 : Numbered[k] \in Row
          BY DEF Numbered, Row, State
        <4>. QED
          BY <4>1, <4>2
      <3>. QED
        BY <1>0, <3>1 DEF Overwritten, TypeOK
    <2>3. sub' \in [User -> Row]
      BY <1>2, <2>1, <2>2 DEF AddPeer
    <2>4. link' \in JobState /\ link'.at = "reread" /\ link'.type = link.type
      BY <1>0, <1>2, JobTyped, JobFields DEF AddPeer
    <2>5. TypeOK'
      BY <1>0, <1>2, <2>3, <2>4 DEF AddPeer, TypeOK, counts
    <2>. QED
      BY <1>2, <2>4, <2>5 DEF AddPeer, TInv, Staged
  <1>3. CASE RereadPeer
    <2>1. link' \in JobState /\ link'.at \in {"idle", "write"}
          /\ (link'.at = "write" => link'.type = link.type)
      <3>1. CASE link' = Idle(link.user)
        BY <1>0, <3>1, IdleTyped
      <3>2. CASE link' = [link EXCEPT !.at = "write", !.seen = sub[link.user]]
        BY <1>0, <3>2 DEF JobState
      <3>. QED
        BY <1>3, <3>1, <3>2 DEF RereadPeer
    <2>2. TypeOK'
      BY <1>0, <1>3, <2>1 DEF RereadPeer, TypeOK, counts
    <2>. QED
      BY <1>0, <1>3, <2>1, <2>2 DEF RereadPeer, TInv, Staged
  <1>4. CASE WritePeer
    <2>1. After(S2SMove, link.type, link.seen) \in Row
      BY <1>0, <1>4, S2STable DEF WritePeer, JobState
    <2>2. sub' \in [User -> Row]
      BY <1>0, <1>4, <2>1 DEF WritePeer, Updated, TypeOK
    <2>3. \/ link' = Idle(link.user)
          \/ link' = [link EXCEPT !.at = "push"]
          \/ link' = [link EXCEPT !.at = "route"] /\ Reply(link.type, link.seen) # "none"
      BY <1>4, Zenon DEF WritePeer
    <2>4. /\ link' \in JobState /\ link'.at \in {"idle", "push", "route"}
          /\ link'.at # "idle" => link'.type = link.type /\ link'.seen = link.seen
          /\ link'.at = "route" => Reply(link.type, link.seen) # "none"
      <3>1. CASE link' = Idle(link.user)
        BY <1>0, <3>1, IdleTyped
      <3>2. CASE link' = [link EXCEPT !.at = "push"]
        BY <1>0, <3>2 DEF JobState
      <3>3. CASE link' = [link EXCEPT !.at = "route"] /\ Reply(link.type, link.seen) # "none"
        BY <1>0, <3>3 DEF JobState
      <3>. QED
        BY <2>3, <3>1, <3>2, <3>3
    <2>5. TypeOK'
      BY <1>0, <1>4, <2>2, <2>4 DEF WritePeer, TypeOK, counts
    <2>. QED
      BY <1>0, <1>4, <2>4, <2>5 DEF WritePeer, TInv, Staged
  <1>5. CASE PushPeer
    <2>1. \/ link' = Idle(link.user)
          \/ link' = [link EXCEPT !.at = "route"] /\ Reply(link.type, link.seen) # "none"
      BY <1>5 DEF PushPeer
    <2>2. /\ link' \in JobState /\ link'.at \in {"idle", "route"}
          /\ link'.at # "idle" => link'.type = link.type /\ link'.seen = link.seen
          /\ link'.at = "route" => Reply(link.type, link.seen) # "none"
      <3>1. CASE link' = Idle(link.user)
        BY <1>0, <3>1, IdleTyped
      <3>2. CASE link' = [link EXCEPT !.at = "route"] /\ Reply(link.type, link.seen) # "none"
        BY <1>0, <3>2 DEF JobState
      <3>. QED
        BY <2>1, <3>1, <3>2
    <2>3. view' \in [Client -> {"none", "to", "from", "both"}]
      BY <1>0, <1>5, PrimaryTyped DEF PushPeer, Pushed, TypeOK
    <2>4. TypeOK'
      BY <1>0, <1>5, <2>2, <2>3 DEF PushPeer, TypeOK, counts
    <2>. QED
      BY <1>0, <1>5, <2>2, <2>4 DEF PushPeer, TInv, Staged
  <1>6. CASE RoutePeer
    <2>1. Reply(link.type, link.seen) \in Type
      BY <1>0, <1>6, ReplyTable DEF RoutePeer, TInv, Staged, JobState, Type
    <2>2. wire' \in Seq(Stanza)
      BY <1>0, <1>6, <2>1 DEF RoutePeer, TypeOK, Stanza
    <2>3. TypeOK'
      BY <1>0, <1>6, <2>2, IdleTyped DEF RoutePeer, TypeOK, counts
    <2>. QED
      BY <1>0, <1>6, <2>3, IdleTyped DEF RoutePeer, TInv, Staged
  <1>. QED
    BY <1>1, <1>2, <1>3, <1>4, <1>5, <1>6 DEF LinkStep

LEMMA NextTInv ==
  ASSUME TInv, [Next]_vars
  PROVE  TInv'
  <1>1. CASE Restart
    <2>1. link.user \in User /\ \A c \in Client : UserOf[c] \in User
      BY SubscriptionsAssumption DEF TInv, TypeOK, JobState
    <2>2. TypeOK'
      BY <1>1, <2>1, IdleTyped, SubscriptionsAssumption DEF Restart, TInv, TypeOK
    <2>. QED
      BY <1>1, <2>1, <2>2, IdleTyped DEF Restart, TInv, Staged
  <1>2. CASE UNCHANGED vars
    <2>1. TypeOK'
      BY <1>2 DEF TInv, TypeOK, vars, counts
    <2>. QED
      BY <1>2, <2>1 DEF TInv, Staged, vars
  <1>. QED
    BY <1>1, <1>2, ClientTyped, LinkTyped DEF Next, Handlers

(* Every handler is at a place of its own chain, with a request that comes to*)
(* that place (handlers/presence.py, c2s-subscription and s2s-subscription).*)
THEOREM TypedAndStaged == Safety => []TInv
  BY InitTInv, NextTInv, PTL DEF Safety

(* A client is told a primary state only, never "Pending" (roster.py:239):  *)
(* the types of the state, whatever the keys of the users are.              *)
THEOREM TypeCorrect == Safety => []TypeOK
  BY TypedAndStaged, PTL DEF TInv

-----------------------------------------------------------------------------
(* What is justified.                                                       *)

LEMMA NothingJustified ==
  ASSUME NEW u
  PROVE  Justified(u, "absent") /\ Justified(u, "NONE")
  BY DEF Justified, In, Out

LEMMA C2SJustified ==
  ASSUME NEW t \in Type, NEW s \in Row, NEW u, Justified(u, s), Meant(u, t)
  PROVE  Justified(u, After(C2SMove, t, s))
  <1>. DEFINE n == After(C2SMove, t, s)
  <1>1. CASE t = "subscribe"
    <2>1. In(n) = In(s) /\ Out(n) \in {"pending", Out(s)} /\ u \in asked
      BY <1>1, C2STable DEF Meant
    <2>. QED
      BY <2>1 DEF Justified
  <1>2. CASE t = "subscribed"
    <2>1. Out(n) = Out(s) /\ In(n) \in {"yes", In(s)} /\ u \in approved
      BY <1>2, C2STable DEF Meant
    <2>. QED
      BY <2>1 DEF Justified
  <1>3. CASE t = "unsubscribe"
    <2>1. In(n) = In(s) /\ (Out(n) = "no" \/ (s = "FPO" /\ Out(n) = "pending"))
      BY <1>3, C2STable
    <2>2. s = "FPO" => Out(s) = "pending"
      BY DEF Out
    <2>. QED
      BY <2>1, <2>2 DEF Justified
  <1>4. CASE t = "unsubscribed"
    <2>1. Out(n) = Out(s) /\ In(n) = "no"
      BY <1>4, C2STable
    <2>. QED
      BY <2>1 DEF Justified
  <1>. QED
    BY <1>1, <1>2, <1>3, <1>4 DEF Type

LEMMA S2SJustified ==
  ASSUME NEW t \in Type, NEW s \in Row, NEW u, Justified(u, s), Meant(Peer[u], t)
  PROVE  Justified(u, After(S2SMove, t, s))
  <1>. DEFINE n == After(S2SMove, t, s)
  <1>1. CASE t = "subscribe"
    <2>1. Out(n) = Out(s) /\ In(n) \in {"pending", In(s)} /\ Peer[u] \in asked
      BY <1>1, S2STable DEF Meant
    <2>. QED
      BY <2>1 DEF Justified
  <1>2. CASE t = "subscribed"
    <2>1. In(n) = In(s) /\ Out(n) \in {"yes", Out(s)} /\ Peer[u] \in approved
      BY <1>2, S2STable DEF Meant
    <2>. QED
      BY <2>1 DEF Justified
  <1>3. CASE t = "unsubscribe"
    <2>1. Out(n) = Out(s) /\ In(n) = "no"
      BY <1>3, S2STable
    <2>. QED
      BY <2>1 DEF Justified
  <1>4. CASE t = "unsubscribed"
    <2>1. In(n) = In(s) /\ Out(n) = "no"
      BY <1>4, S2STable
    <2>. QED
      BY <2>1 DEF Justified
  <1>. QED
    BY <1>1, <1>2, <1>3, <1>4 DEF Type

(* The history does not change in a handler.                                *)
LEMMA SameHistory ==
  ASSUME UNCHANGED <<asked, approved>>
  PROVE  /\ \A u, s : Justified(u, s)' <=> Justified(u, s)
         /\ \A u, t : Meant(u, t)' <=> Meant(u, t)
  BY DEF Justified, Meant

LEMMA InitFounded == Init => Founded
  <1>. SUFFICES ASSUME Init PROVE Founded
    OBVIOUS
  <1>1. \A u \in User : Justified(u, sub[u])
    BY NothingJustified DEF Init
  <1>2. \A c \in Client : job[c].at = "idle"
    BY IdleTyped, SubscriptionsAssumption DEF Init
  <1>3. link.at = "idle" /\ Len(wire) = 0
    BY IdleTyped DEF Init
  <1>. QED
    BY <1>1, <1>2, <1>3 DEF Founded

(* A client's request: the history is what its stanza is founded on.        *)
LEMMA RequestFounded ==
  ASSUME IInv, TInv', NEW c \in Client, NEW t \in Type \cup {"remove"}, Request(c, t)
  PROVE  Founded'
  <1>. DEFINE u == UserOf[c]
  <1>0. /\ TypeOK /\ Founded /\ u \in User
        /\ UNCHANGED <<sub, link, wire>>
        /\ asked \subseteq asked' /\ approved \subseteq approved'
        /\ t = "subscribe" => u \in asked'
        /\ t = "subscribed" => u \in approved'
    BY SubscriptionsAssumption DEF IInv, TInv, Request
  <1>1. /\ job'[c].type = t /\ job'[c].seen = sub[u]
        /\ \A d \in Client \ {c} : job'[d] = job[d]
    BY <1>0 DEF Request, TypeOK
  <1>2. /\ \A v \in User : Justified(v, sub[v])
        /\ \A d \in Client : job[d].at # "idle" =>
             Justified(UserOf[d], job[d].seen) /\ Meant(UserOf[d], job[d].type)
        /\ link.at # "idle" =>
             Justified(link.user, link.seen) /\ Meant(Peer[link.user], link.type)
        /\ \A k \in 1..Len(wire) : Meant(Peer[wire[k].to], wire[k].type)
    BY <1>0 DEF Founded
  <1>3. \A v \in User : Justified(v, sub[v])'
    BY <1>0, <1>2 DEF Justified
  <1>4. ASSUME NEW d \in Client, job'[d].at # "idle"
        PROVE  Justified(UserOf[d], job[d].seen)' /\ Meant(UserOf[d], job[d].type)'
    <2>1. CASE d = c
      BY <1>0, <1>1, <1>2, <2>1 DEF Justified, Meant
    <2>2. CASE d # c
      BY <1>0, <1>1, <1>2, <1>4, <2>2 DEF Justified, Meant
    <2>. QED
      BY <2>1, <2>2
  <1>5. link'.at # "idle" =>
          Justified(link.user, link.seen)' /\ Meant(Peer[link.user], link.type)'
    BY <1>0, <1>2 DEF Justified, Meant
  <1>6. \A k \in 1..Len(wire') : Meant(Peer[wire[k].to], wire[k].type)'
    BY <1>0, <1>2 DEF Meant
  <1>. QED
    BY <1>3, <1>4, <1>5, <1>6 DEF Founded

(* A handler of a client's that goes on with what it has, or has read.      *)
LEMMA JobFounded ==
  ASSUME Founded, NEW c \in Client,
         UNCHANGED <<asked, approved, link, wire>>,
         \A u \in User : Justified(u, sub'[u]),
         \A d \in Client \ {c} : job'[d] = job[d],
         job'[c].at # "idle" =>
           Justified(UserOf[c], job'[c].seen) /\ Meant(UserOf[c], job'[c].type)
  PROVE  Founded'
  <1>1. \A u \in User : Justified(u, sub[u])'
    BY DEF Justified
  <1>2. ASSUME NEW d \in Client, job'[d].at # "idle"
        PROVE  Justified(UserOf[d], job[d].seen)' /\ Meant(UserOf[d], job[d].type)'
    <2>1. Justified(UserOf[d], job'[d].seen) /\ Meant(UserOf[d], job'[d].type)
      BY <1>2 DEF Founded
    <2>. QED
      BY <2>1 DEF Justified, Meant
  <1>3. link'.at # "idle" =>
          Justified(link.user, link.seen)' /\ Meant(Peer[link.user], link.type)'
    BY DEF Founded, Justified, Meant
  <1>4. \A k \in 1..Len(wire') : Meant(Peer[wire[k].to], wire[k].type)'
    BY DEF Founded, Meant
  <1>. QED
    BY <1>1, <1>2, <1>3, <1>4 DEF Founded

LEMMA ClientFounded ==
  ASSUME IInv, TInv', NEW c \in Client, Login(c) \/ Logout(c) \/ ClientStep(c)
  PROVE  Founded'
  <1>. DEFINE u == UserOf[c]
              j == job[c]
  <1>0. /\ TypeOK /\ Founded /\ Staged /\ u \in User /\ j \in JobState
        /\ j.seen \in Row /\ sub \in [User -> Row] /\ job \in [Client -> JobState]
    BY SubscriptionsAssumption DEF IInv, TInv, TypeOK, JobState
  <1>1. /\ \A v \in User : Justified(v, sub[v])
        /\ j.at # "idle" => Justified(u, j.seen) /\ Meant(u, j.type)
    BY <1>0 DEF Founded
  <1>2. CASE Login(c)
    <2>1. /\ job'[c].seen = sub[u] /\ job'[c].type = "get"
          /\ \A d \in Client \ {c} : job'[d] = job[d]
          /\ UNCHANGED <<asked, approved, link, wire, sub>>
      BY <1>0, <1>2 DEF Login
    <2>2. Meant(u, "get")
      BY DEF Meant
    <2>. QED
      BY <1>0, <1>1, <2>1, <2>2, JobFounded
  <1>3. CASE Logout(c)
    BY <1>0, <1>1, <1>3, JobFounded DEF Logout, counts
  <1>4. CASE RosterResult(c)
    <2>1. /\ job'[c].at = "idle"
          /\ \A d \in Client \ {c} : job'[d] = job[d]
          /\ UNCHANGED <<asked, approved, link, wire, sub>>
      BY <1>0, <1>4, IdleTyped DEF RosterResult, counts
    <2>. QED
      BY <1>0, <1>1, <2>1, JobFounded
  <1>5. CASE AddContact(c)
    <2>1. /\ job'[c].seen = j.seen /\ job'[c].type = j.type /\ j.at # "idle"
          /\ \A d \in Client \ {c} : job'[d] = job[d]
          /\ UNCHANGED <<asked, approved, link, wire>>
      BY <1>0, <1>5 DEF AddContact, counts, JobState
    <2>2. \A v \in User : sub'[v] = sub[v] \/ sub'[v] = "NONE"
      BY <1>0, <1>5 DEF AddContact, Inserted
    <2>3. \A v \in User : Justified(v, sub'[v])
      BY <1>1, <2>2, NothingJustified
    <2>. QED
      BY <1>0, <1>1, <2>1, <2>3, JobFounded
  <1>6. CASE RereadContact(c)
    <2>1. /\ job'[c].at = "idle" \/ (job'[c].seen = sub[u] /\ job'[c].type = j.type)
          /\ j.at # "idle"
          /\ \A d \in Client \ {c} : job'[d] = job[d]
          /\ UNCHANGED <<asked, approved, link, wire, sub>>
      <3>1. job'[c] \in {Idle(u), [j EXCEPT !.at = "write", !.seen = sub[u]]}
        BY <1>0, <1>6 DEF RereadContact
      <3>2. job'[c].at = "idle" \/ (job'[c].seen = sub[u] /\ job'[c].type = j.type)
        <4>1. CASE job'[c] = Idle(u)
          BY <1>0, <4>1, IdleTyped
        <4>2. CASE job'[c] = [j EXCEPT !.at = "write", !.seen = sub[u]]
          BY <1>0, <4>2 DEF JobState
        <4>. QED
          BY <3>1, <4>1, <4>2
      <3>. QED
        BY <1>0, <1>6, <3>2 DEF RereadContact, counts
    <2>. QED
      BY <1>0, <1>1, <2>1, JobFounded
  <1>7. CASE WriteContact(c)
    <2>0. j.at = "write" /\ j.type \in Type \cup {"remove"}
          /\ UNCHANGED <<asked, approved, link, wire>>
      BY <1>0, <1>7 DEF WriteContact, Staged, counts
    <2>1. /\ job'[c].at = "idle" \/ (job'[c].seen = j.seen /\ job'[c].type = j.type)
          /\ \A d \in Client \ {c} : job'[d] = job[d]
      <3>1. PICK a \in {"route", "push"} :
              /\ job' = [job EXCEPT ![c] = Idle(UserOf[c])]
                 \/ job' = [job EXCEPT ![c] = [@ EXCEPT !.at = a]]
        BY <1>7, Zenon DEF WriteContact
      <3>2. job'[c] \in {Idle(u), [j EXCEPT !.at = a]}
            /\ \A d \in Client \ {c} : job'[d] = job[d]
        BY <1>0, <3>1
      <3>. QED
        BY <1>0, <3>2, IdleTyped DEF JobState
    <2>2. \A v \in User : Justified(v, sub'[v])
      <3>1. CASE j.type = "remove"
        <4>1. sub' = [sub EXCEPT ![UserOf[c]] = "absent"]
          BY <1>7, <3>1 DEF WriteContact, Type
        <4>2. \A v \in User : sub'[v] = sub[v] \/ sub'[v] = "absent"
          BY <1>0, <4>1
        <4>. QED
          BY <1>1, <4>2, NothingJustified
      <3>2. CASE j.type \in Type
        <4>1. Justified(u, After(C2SMove, j.type, j.seen))
          BY <1>0, <1>1, <2>0, <3>2, C2SJustified
        <4>2. sub' \in {sub, Updated(UserOf[c], After(C2SMove, j.type, j.seen))}
          <5>1. j.type # "remove"
            BY <3>2 DEF Type
          <5>. QED
            BY <1>7, <5>1, Zenon DEF WriteContact
        <4>3. \A v \in User : sub'[v] = sub[v]
                              \/ (v = u /\ sub'[v] = After(C2SMove, j.type, j.seen))
          BY <1>0, <4>2 DEF Updated
        <4>. QED
          BY <1>1, <4>1, <4>3
      <3>. QED
        BY <2>0, <3>1, <3>2
    <2>. QED
      BY <1>0, <1>1, <2>0, <2>1, <2>2, JobFounded
  <1>8. CASE PushContact(c)
    <2>1. /\ j.at # "idle"
          /\ UNCHANGED <<asked, approved, link, wire, sub>>
          /\ job'[c] \in {Idle(u), [j EXCEPT !.at = "route"]}
          /\ \A d \in Client \ {c} : job'[d] = job[d]
      BY <1>0, <1>8 DEF PushContact, counts
    <2>2. job'[c].at = "idle" \/ (job'[c].seen = j.seen /\ job'[c].type = j.type)
      BY <1>0, <2>1, IdleTyped DEF JobState
    <2>. QED
      BY <1>0, <1>1, <2>1, <2>2, JobFounded
  <1>9. CASE RouteContact(c)
    <2>1. /\ j.at # "idle"
          /\ UNCHANGED <<asked, approved, link, sub>>
          /\ job'[c] \in {Idle(u), [j EXCEPT !.at = "push"]}
          /\ \A d \in Client \ {c} : job'[d] = job[d]
      BY <1>0, <1>9 DEF RouteContact, counts
    <2>2. job'[c].at = "idle" \/ (job'[c].seen = j.seen /\ job'[c].type = j.type)
      BY <1>0, <2>1, IdleTyped DEF JobState
    <2>3. \A k \in 1..Len(wire') : Meant(Peer[wire[k].to], wire[k].type)'
      <3>0. /\ wire \in Seq(Stanza) /\ Peer[Peer[u]] = u
            /\ \A k \in 1..Len(wire) : Meant(Peer[wire[k].to], wire[k].type)
        BY <1>0, SubscriptionsAssumption DEF TypeOK, Founded
      <3>1. CASE j.type = "remove"
        <4>1. wire' = wire \o <<[type |-> "unsubscribe", to |-> Peer[u]],
                                [type |-> "unsubscribed", to |-> Peer[u]]>>
          BY <1>9, <3>1 DEF RouteContact
        <4>2. \A k \in 1..Len(wire') :
                (k \in 1..Len(wire) /\ wire'[k] = wire[k])
                \/ wire'[k].type \in {"unsubscribe", "unsubscribed"}
          BY <3>0, <4>1
        <4>. QED
          BY <2>1, <3>0, <4>2 DEF Meant
      <3>2. CASE j.type # "remove"
        <4>1. wire' = Append(wire, [type |-> j.type, to |-> Peer[u]])
          BY <1>9, <3>2 DEF RouteContact
        <4>2. \A k \in 1..Len(wire') :
                (k \in 1..Len(wire) /\ wire'[k] = wire[k])
                \/ (wire'[k].type = j.type /\ wire'[k].to = Peer[u])
          BY <3>0, <4>1
        <4>. QED
          BY <1>1, <2>1, <3>0, <4>2 DEF Meant
      <3>. QED
        BY <3>1, <3>2
    <2>4. \A v \in User : Justified(v, sub[v])'
      BY <1>1, <2>1 DEF Justified
    <2>5. ASSUME NEW d \in Client, job'[d].at # "idle"
          PROVE  Justified(UserOf[d], job[d].seen)' /\ Meant(UserOf[d], job[d].type)'
      <3>1. Justified(UserOf[d], job'[d].seen) /\ Meant(UserOf[d], job'[d].type)
        BY <1>0, <1>1, <2>1, <2>2, <2>5 DEF Founded
      <3>. QED
        BY <2>1, <3>1 DEF Justified, Meant
    <2>6. link'.at # "idle" =>
            Justified(link.user, link.seen)' /\ Meant(Peer[link.user], link.type)'
      BY <1>0, <2>1 DEF Founded, Justified, Meant
    <2>. QED
      BY <2>3, <2>4, <2>5, <2>6 DEF Founded
  <1>. QED
    BY <1>2, <1>3, <1>4, <1>5, <1>6, <1>7, <1>8, <1>9 DEF ClientStep

(* The handler of the S2S connection: what it reads is justified, what it   *)
(* answers is an approval its user has given.                               *)
LEMMA LinkFounded ==
  ASSUME IInv, TInv', NoSuchKey, LinkStep
  PROVE  Founded'
  <1>. DEFINE u == link.user
  <1>0. /\ TypeOK /\ Founded /\ Staged /\ u \in User /\ Peer[u] \in User /\ Peer[Peer[u]] = u
        /\ link \in JobState /\ link.seen \in Row /\ sub \in [User -> Row]
        /\ wire \in Seq(Stanza)
        /\ link.at # "idle" => link.type \in Type
    BY SubscriptionsAssumption DEF IInv, TInv, TypeOK, JobState, Staged
  <1>1. /\ \A v \in User : Justified(v, sub[v])
        /\ link.at # "idle" => Justified(u, link.seen) /\ Meant(Peer[u], link.type)
        /\ \A k \in 1..Len(wire) : Meant(Peer[wire[k].to], wire[k].type)
    BY <1>0 DEF Founded
  (* What is left to show for each step.                                    *)
  <1>2. ASSUME UNCHANGED <<asked, approved, job>>,
               \A v \in User : Justified(v, sub'[v]),
               link'.at # "idle" =>
                 Justified(link'.user, link'.seen) /\ Meant(Peer[link'.user], link'.type),
               \A k \in 1..Len(wire') : Meant(Peer[wire'[k].to], wire'[k].type)
        PROVE  Founded'
    <2>1. \A v \in User : Justified(v, sub[v])'
      BY <1>2 DEF Justified
    <2>2. \A c \in Client : job'[c].at # "idle" =>
            Justified(UserOf[c], job[c].seen)' /\ Meant(UserOf[c], job[c].type)'
      BY <1>0, <1>2 DEF Founded, Justified, Meant
    <2>3. link'.at # "idle" =>
            Justified(link.user, link.seen)' /\ Meant(Peer[link.user], link.type)'
      BY <1>2 DEF Justified, Meant
    <2>4. \A k \in 1..Len(wire') : Meant(Peer[wire[k].to], wire[k].type)'
      BY <1>2 DEF Meant
    <2>. QED
      BY <2>1, <2>2, <2>3, <2>4 DEF Founded
  <1>3. CASE Receive
    <2>1. /\ UNCHANGED <<asked, approved, job, sub>> /\ wire # <<>> /\ wire' = Tail(wire)
          /\ link'.type = Head(wire).type /\ link'.user = Head(wire).to
          /\ link'.seen = sub[Head(wire).to]
      BY <1>3 DEF Receive, counts
    <2>2. /\ Head(wire) = wire[1] /\ 1 \in 1..Len(wire) /\ Head(wire).to \in User
          /\ \A k \in 1..Len(wire') : k + 1 \in 1..Len(wire) /\ wire'[k] = wire[k + 1]
      <3>1. Len(wire) \in Nat \ {0} /\ Len(wire') = Len(wire) - 1 /\ Head(wire) = wire[1]
            /\ Head(wire) \in Stanza
        BY <1>0, <2>1
      <3>2. ASSUME NEW k \in 1..Len(wire')
            PROVE  k + 1 \in 1..Len(wire) /\ wire'[k] = wire[k + 1]
        BY <1>0, <2>1, <3>1
      <3>. QED
        BY <3>1, <3>2 DEF Stanza
    <2>. QED
      BY <1>1, <1>2, <2>1, <2>2
  <1>4. CASE AddPeer
    <2>1. /\ UNCHANGED <<asked, approved, job, wire>>
          /\ link'.type = link.type /\ link'.user = u /\ link'.seen = link.seen
          /\ link.at = "add" /\ link.type = "subscribe"
      BY <1>0, <1>4 DEF AddPeer, counts, Staged, JobState
    <2>2. Justified(u, "NPI")
      BY <1>1, <2>1 DEF Justified, Meant, In, Out
    <2>3. \A v \in User : Overwritten(u)[v] = sub[v]
      BY <1>0, SubscriptionsAssumption DEF Overwritten, NoSuchKey
    <2>4. \A v \in User : sub'[v] = sub[v] \/ (v = u /\ sub'[v] = "NPI")
      BY <1>0, <1>4, <2>3 DEF AddPeer, Inserted
    <2>5. \A v \in User : Justified(v, sub'[v])
      BY <1>1, <2>2, <2>4
    <2>. QED
      BY <1>1, <1>2, <2>1, <2>5
  <1>5. CASE RereadPeer
    <2>1. /\ UNCHANGED <<asked, approved, job, wire, sub>> /\ link.at # "idle"
          /\ link' = Idle(u) \/ link' = [link EXCEPT !.at = "write", !.seen = sub[u]]
      BY <1>5 DEF RereadPeer, counts
    <2>2. link'.at = "idle"
          \/ (link'.type = link.type /\ link'.user = u /\ link'.seen = sub[u])
      <3>1. CASE link' = Idle(u)
        BY <1>0, <3>1, IdleTyped
      <3>2. CASE link' = [link EXCEPT !.at = "write", !.seen = sub[u]]
        BY <1>0, <3>2 DEF JobState
      <3>. QED
        BY <2>1, <3>1, <3>2
    <2>. QED
      BY <1>0, <1>1, <1>2, <2>1, <2>2
  <1>6. CASE WritePeer
    <2>1. /\ UNCHANGED <<asked, approved, job, wire>> /\ link.at = "write"
          /\ \/ link' = Idle(u)
             \/ link' = [link EXCEPT !.at = "push"]
             \/ link' = [link EXCEPT !.at = "route"]
      <3>1. UNCHANGED <<asked, approved, job, wire>> /\ link.at = "write"
        BY <1>6 DEF WritePeer, counts
      <3>2. \/ link' = Idle(u)
            \/ link' = [link EXCEPT !.at = "push"]
            \/ link' = [link EXCEPT !.at = "route"]
        BY <1>6, Zenon DEF WritePeer
      <3>. QED
        BY <3>1, <3>2
    <2>2. link'.at = "idle"
          \/ (link'.type = link.type /\ link'.user = u /\ link'.seen = link.seen)
      <3>1. CASE link' = Idle(u)
        BY <1>0, <3>1, IdleTyped
      <3>2. CASE link' = [link EXCEPT !.at = "push"]
        BY <1>0, <3>2 DEF JobState
      <3>3. CASE link' = [link EXCEPT !.at = "route"]
        BY <1>0, <3>3 DEF JobState
      <3>. QED
        BY <2>1, <3>1, <3>2, <3>3
    <2>3. Justified(u, After(S2SMove, link.type, link.seen))
      BY <1>0, <1>1, <2>1, S2SJustified
    <2>4. \A v \in User : sub'[v] = sub[v]
                          \/ (v = u /\ sub'[v] = After(S2SMove, link.type, link.seen))
      BY <1>0, <1>6 DEF WritePeer, Updated
    <2>5. \A v \in User : Justified(v, sub'[v])
      BY <1>1, <2>3, <2>4
    <2>. QED
      BY <1>1, <1>2, <2>1, <2>2, <2>5
  <1>7. CASE PushPeer
    <2>1. /\ UNCHANGED <<asked, approved, job, wire, sub>> /\ link.at # "idle"
          /\ link' = Idle(u) \/ link' = [link EXCEPT !.at = "route"]
      BY <1>7 DEF PushPeer, counts
    <2>2. link'.at = "idle"
          \/ (link'.type = link.type /\ link'.user = u /\ link'.seen = link.seen)
      <3>1. CASE link' = Idle(u)
        BY <1>0, <3>1, IdleTyped
      <3>2. CASE link' = [link EXCEPT !.at = "route"]
        BY <1>0, <3>2 DEF JobState
      <3>. QED
        BY <2>1, <3>1, <3>2
    <2>. QED
      BY <1>1, <1>2, <2>1, <2>2
  <1>8. CASE RoutePeer
    <2>1. /\ UNCHANGED <<asked, approved, job, sub>> /\ link.at # "idle" /\ link'.at = "idle"
          /\ wire' = Append(wire, [type |-> Reply(link.type, link.seen), to |-> Peer[u]])
      BY <1>0, <1>8, IdleTyped DEF RoutePeer, counts
    <2>2. Meant(u, Reply(link.type, link.seen))
      <3>1. Reply(link.type, link.seen) = "subscribed" => In(link.seen) = "yes"
        BY <1>0, <2>1, ReplyTable
      <3>2. Reply(link.type, link.seen) # "subscribe"
        BY <1>0, <2>1, ReplyTable
      <3>. QED
        BY <1>1, <2>1, <3>1, <3>2 DEF Justified, Meant
    <2>3. \A k \in 1..Len(wire') :
            \/ k \in 1..Len(wire) /\ wire'[k] = wire[k]
            \/ wire'[k].type = Reply(link.type, link.seen) /\ wire'[k].to = Peer[u]
      BY <1>0, <2>1
    <2>4. \A k \in 1..Len(wire') : Meant(Peer[wire'[k].to], wire'[k].type)
      BY <1>0, <1>1, <2>2, <2>3
    <2>. QED
      BY <1>1, <1>2, <2>1, <2>4
  <1>. QED
    BY <1>3, <1>4, <1>5, <1>6, <1>7, <1>8 DEF LinkStep

LEMMA NextFounded ==
  ASSUME IInv, TInv', NoSuchKey, [Next]_vars
  PROVE  Founded'
  <1>1. CASE Restart
    <2>1. \A v \in User : Justified(v, sub[v])'
      BY <1>1 DEF Restart, IInv, Founded, Justified
    <2>2. link.user \in User /\ \A c \in Client : UserOf[c] \in User
      BY SubscriptionsAssumption DEF IInv, TInv, TypeOK, JobState
    <2>3. link'.at = "idle" /\ (\A c \in Client : job'[c].at = "idle") /\ Len(wire') = 0
      BY <1>1, <2>2, IdleTyped DEF Restart
    <2>. QED
      BY <2>1, <2>3 DEF Founded
  <1>2. CASE UNCHANGED vars
    BY <1>2 DEF IInv, Founded, Justified, Meant, vars, counts
  <1>. QED
    BY <1>1, <1>2, RequestFounded, ClientFounded, LinkFounded DEF Next, Handlers

(* Nothing a handler has read, a row holds or a stanza says goes beyond what*)
(* was asked for and approved.                                              *)
THEOREM Invariant ==
  ASSUME NoSuchKey
  PROVE  Safety => []IInv
  <1>1. Init => IInv
    BY InitTInv, InitFounded DEF IInv
  <1>2. IInv /\ [Next]_vars => IInv'
    BY NextTInv, NextFounded DEF IInv
  <1>. QED
    BY <1>1, <1>2, PTL DEF Safety

(* Nobody is subscribed to a user who has never approved anyone, and no     *)
(* request is pending that was never made, however the handlers of the      *)
(* clients and of the S2S connection interleave between their reads and     *)
(* writes, and whatever a restart loses: for users whose keys in the table  *)
(* jids are not the 2 that updateContact takes for one.                     *)
THEOREM NothingMadeUp ==
  ASSUME NoSuchKey
  PROVE  Safety => []GrantedOnly
  <1>1. IInv => GrantedOnly
    BY DEF IInv, Founded, Justified, GrantedOnly
  <1>. QED
    BY <1>1, Invariant, PTL

-----------------------------------------------------------------------------
(* A handler changes the roster of its own user only ("Adds or updates a    *)
(* contact in this user's roster", roster.py:86): with no key that is a     *)
(* state, the one statement that reaches further finds nothing to change.   *)
LEMMA OwnRosterStep ==
  ASSUME TInv, NoSuchKey, [Next]_vars, NEW u \in User, sub'[u] # sub[u]
  PROVE  \/ link.user = u /\ link'.at # link.at
         \/ \E c \in Client : UserOf[c] = u /\ job'[c].at # job[c].at
  <1>0. /\ TypeOK /\ link \in JobState /\ sub \in [User -> Row] /\ job \in [Client -> JobState]
        /\ Staged
    BY DEF TInv, TypeOK
  <1>1. ASSUME NEW c \in Client, AddContact(c)
        PROVE  UserOf[c] = u /\ job'[c].at # job[c].at
    <2>1. UserOf[c] = u
      BY <1>0, <1>1 DEF AddContact, Inserted
    <2>. QED
      BY <1>0, <1>1, <2>1 DEF AddContact, JobState
  <1>2. ASSUME NEW c \in Client, WriteContact(c)
        PROVE  UserOf[c] = u /\ job'[c].at # job[c].at
    <2>1. job[c].at = "write" /\ job[c].type \in Type \cup {"remove"}
      BY <1>0, <1>2 DEF WriteContact, Staged
    <2>2. UserOf[c] = u
      <3>1. CASE job[c].type = "remove"
        <4>1. sub' = [sub EXCEPT ![UserOf[c]] = "absent"]
          BY <1>2, <3>1 DEF WriteContact, Type
        <4>. QED
          BY <1>0, <4>1
      <3>2. CASE job[c].type \in Type
        <4>1. sub' \in {sub, Updated(UserOf[c], After(C2SMove, job[c].type, job[c].seen))}
          <5>1. job[c].type # "remove"
            BY <3>2 DEF Type
          <5>. QED
            BY <1>2, <5>1, Zenon DEF WriteContact
        <4>. QED
          BY <1>0, <4>1 DEF Updated
      <3>. QED
        BY <2>1, <3>1, <3>2
    <2>3. PICK a \in {"route", "push"} :
            /\ job' = [job EXCEPT ![c] = Idle(UserOf[c])]
               \/ job' = [job EXCEPT ![c] = [@ EXCEPT !.at = a]]
      BY <1>2, Zenon DEF WriteContact
    <2>4. job'[c] \in {Idle(UserOf[c]), [job[c] EXCEPT !.at = a]}
      BY <1>0, <2>3
    <2>5. job'[c].at \in {"idle", a}
      BY <1>0, <2>4, IdleTyped, SubscriptionsAssumption DEF JobState
    <2>. QED
      BY <2>1, <2>2, <2>5
  <1>3. ASSUME AddPeer
        PROVE  link.user = u /\ link'.at # link.at
    <2>1. Overwritten(link.user)[u] = sub[u]
      BY SubscriptionsAssumption DEF Overwritten, NoSuchKey
    <2>2. link.user = u
      BY <1>0, <1>3, <2>1 DEF AddPeer, Inserted
    <2>. QED
      BY <1>0, <1>3, <2>2 DEF AddPeer, JobState
  <1>4. ASSUME WritePeer
        PROVE  link.user = u /\ link'.at # link.at
    <2>1. link.user = u /\ link.at = "write"
      BY <1>0, <1>4 DEF WritePeer, Updated
    <2>2. link' \in {Idle(u), [link EXCEPT !.at = "push"], [link EXCEPT !.at = "route"]}
      BY <1>4, <2>1, Zenon DEF WritePeer
    <2>3. link'.at \in {"idle", "push", "route"}
      BY <1>0, <2>2, IdleTyped DEF JobState
    <2>. QED
      BY <2>1, <2>3
  <1>5. ASSUME Receive \/ RereadPeer \/ PushPeer \/ RoutePeer \/ Restart \/ UNCHANGED vars
        PROVE  FALSE
    BY <1>5 DEF Receive, RereadPeer, PushPeer, RoutePeer, Restart, vars
  <1>6. ASSUME NEW c \in Client,
               Login(c) \/ Logout(c) \/ RosterResult(c) \/ RereadContact(c)
               \/ PushContact(c) \/ RouteContact(c)
        PROVE  FALSE
    BY <1>6 DEF Login, Logout, RosterResult, RereadContact, PushContact, RouteContact
  <1>7. ASSUME NEW c \in Client, NEW t \in Type \cup {"remove"}, Request(c, t)
        PROVE  FALSE
    BY <1>7 DEF Request
  <1>. QED
    BY <1>1, <1>2, <1>3, <1>4, <1>5, <1>6, <1>7 DEF Next, Handlers, LinkStep, ClientStep

(* Where no key of the table jids is the value of a state, a handler changes*)
(* the roster of the user it works for and of nobody else (roster.py:86-118).*)
THEOREM RosterIsOwn ==
  ASSUME NoSuchKey
  PROVE  Safety => OwnRosterOnly
  <1>1. TInv /\ [Next]_vars => [\A u \in User : sub'[u] # sub[u] =>
           \/ link.user = u /\ link'.at # link.at
           \/ \E c \in Client : UserOf[c] = u /\ job'[c].at # job[c].at]_vars
    BY OwnRosterStep
  <1>. QED
    BY <1>1, TypedAndStaged, PTL DEF Safety, OwnRosterOnly

-----------------------------------------------------------------------------
(* What holds as long as clients wait for what they sent to be handled at   *)
(* both ends: one stanza, and the answers to it, are under way at a time,   *)
(* and what each still has to change is what the rosters differ in.         *)

(* The user whose own subscription a stanza is about.                       *)
Subscriber(m) == IF m.type \in {"subscribe", "unsubscribe"} THEN Peer[m.to] ELSE m.to

(* The stanzas of a sequence.                                               *)
Stanzas(w) == {w[k] : k \in 1..Len(w)}

(* What the link, or the handler of a client, has still to apply or to send.*)
OfLink ==
  IF link.at \in {"add", "reread", "write"} THEN {[type |-> link.type, to |-> link.user]}
  ELSE IF /\ link.at = "route" \/ (link.at = "push" /\ link.user \in known)
          /\ Reply(link.type, link.seen) # "none"
       THEN {[type |-> Reply(link.type, link.seen), to |-> Peer[link.user]]}
       ELSE {}

OfJob(c) ==
  IF job[c].at \in {"push", "route"} /\ job[c].type # "remove"
  THEN {[type |-> job[c].type, to |-> Peer[UserOf[c]]]}
  ELSE IF job[c].at = "route"
       THEN {[type |-> "unsubscribe", to |-> Peer[UserOf[c]]],
             [type |-> "unsubscribed", to |-> Peer[UserOf[c]]]}
       ELSE {}

(* All that is under way.                                                   *)
Flight == Stanzas(wire) \cup OfLink \cup UNION {OfJob(c) : c \in Client}

(* A subscription of which a stanza is under way, or none.                  *)
Consistent(m, out, in, k) ==
  CASE m.type = "subscribe"    -> (in = "no" /\ out = "pending") \/ (in = out /\ out # "no")
    [] m.type = "subscribed"   -> in = "yes" /\ out \in {"pending", "yes"}
    [] m.type = "unsubscribe"  -> out = "no" \/ (out = "pending" /\ in = "pending" /\ k)
    [] m.type = "unsubscribed" -> in = "no"

(* The two rosters say the same of the subscription of u, unless a stanza   *)
(* about it is under way: then they differ by what that is to change.       *)
Related(u) ==
  LET out == Out(sub[u])
      in == In(sub[Peer[u]])
  IN /\ (\A m \in Flight : Subscriber(m) # u) => out = in
     /\ \A m \in Flight : Subscriber(m) = u => Consistent(m, out, in, Peer[u] \in known)

(* A removal has still to be pushed to the user's other clients, while the  *)
(* two stanzas it has sent are handled; they and their answers add nothing. *)
Removing(c) == job[c].at = "push" /\ job[c].type = "remove"

Parting ==
  /\ \A k \in 1..Len(wire) : wire[k].type \in {"unsubscribe", "unsubscribed"}
  /\ link.at # "idle" => link.type \in {"unsubscribe", "unsubscribed"}

(* One handler of a client runs at a time, and not while the link does but  *)
(* for that push.                                                           *)
Alone ==
  /\ \A c, d \in Client : job[c].at # "idle" /\ job[d].at # "idle" => c = d
  /\ \A c \in Client : job[c].at # "idle" =>
       (wire = <<>> /\ link.at = "idle") \/ (Removing(c) /\ Parting)

(* So what a handler has read of a row is what is there.                    *)
Fresh ==
  /\ \A c \in Client :
       LET j == job[c]
           s == sub[UserOf[c]]
       IN /\ j.at \in {"result", "write"} => j.seen = s
          /\ j.at = "write" /\ j.type = "subscribe" => s # "absent"
          /\ j.at = "reread" => s = "NONE"
          /\ j.at = "add" => s = "absent"
          /\ j.at \in {"push", "route"} =>
               s = IF j.type = "remove" THEN "absent" ELSE After(C2SMove, j.type, j.seen)
  /\ link.at = "add" => sub[link.user] = "absent"
  /\ link.at = "reread" => sub[link.user] = "NPI"
  /\ link.at = "write" => link.seen = sub[link.user]
                          /\ (link.type = "subscribe" => link.seen # "absent")
  /\ link.at \in {"push", "route"} => sub[link.user] = After(S2SMove, link.type, link.seen)

(* No two stanzas under way are about the same subscription.                *)
OncePerSubscriber ==
  /\ \A j, k \in 1..Len(wire) : Subscriber(wire[j]) = Subscriber(wire[k]) => j = k
  /\ \A m \in OfLink : \A k \in 1..Len(wire) : Subscriber(wire[k]) # Subscriber(m)

(* Who has asked, or is connected, has routing data: nothing is forgotten   *)
(* without a restart.                                                       *)
Known ==
  /\ asked \subseteq known
  /\ \A c \in online : UserOf[c] \in known
  /\ \A u \in User : Out(sub[u]) # "no" => u \in asked
  /\ \A c \in Client : job[c].at # "idle" /\ job[c].type = "subscribe" => UserOf[c] \in asked

(* A push to the clients of u is to come.                                   *)
PushDue(u) ==
  \/ \E c \in Client : /\ UserOf[c] = u
                       /\ job[c].at = "push" \/ (job[c].at = "route" /\ job[c].type = "remove")
  \/ link.at = "push" /\ link.user = u

(* A client shows the row, unless it is about to be told.                   *)
Shown ==
  \A c \in online : job[c].at # "result" /\ ~PushDue(UserOf[c]) =>
    view[c] = Primary(sub[UserOf[c]])

Calm == Alone /\ Fresh /\ OncePerSubscriber /\ Known /\ Shown /\ \A u \in User : Related(u)

CalmInv == Undisturbed => Calm

-----------------------------------------------------------------------------
(* What the two tables move, by the half of the state they change.          *)
LEMMA MovesTable ==
  ASSUME NEW s \in Row
  PROVE  /\ Moves(C2SMove, "subscribed", s) <=> In(s) = "pending"
         /\ Moves(C2SMove, "unsubscribed", s) <=> In(s) # "no"
         /\ Moves(S2SMove, "subscribed", s) <=> Out(s) = "pending"
         /\ Moves(S2SMove, "unsubscribe", s) <=> In(s) # "no"
         /\ Reply("subscribe", s) = IF In(s) = "yes" THEN "subscribed" ELSE "none"
         /\ Reply("unsubscribe", s) = IF In(s) = "no" THEN "none" ELSE "unsubscribed"
         /\ Reply("subscribed", s) = "none" /\ Reply("unsubscribed", s) = "none"
         /\ Out(s) \in {"no", "pending", "yes"} /\ In(s) \in {"no", "pending", "yes"}
         /\ s = "FPO" => Out(s) = "pending" /\ In(s) = "yes"
         /\ s = "absent" => Out(s) = "no" /\ In(s) = "no"
  BY DEF Moves, C2SMove, S2SMove, In, Out, Row, State, Reply

LEMMA PrimaryHalves ==
  ASSUME NEW s \in Row, NEW n \in Row,
         (Out(s) = "yes") <=> (Out(n) = "yes"), (In(s) = "yes") <=> (In(n) = "yes")
  PROVE  Primary(s) = Primary(n)
  <1>1. Primary(s) = CASE Out(s) = "yes" /\ In(s) # "yes" -> "to"
                       [] Out(s) # "yes" /\ In(s) = "yes" -> "from"
                       [] Out(s) = "yes" /\ In(s) = "yes" -> "both"
                       [] OTHER -> "none"
    BY DEF Primary, Out, In, Row, State
  <1>2. Primary(n) = CASE Out(n) = "yes" /\ In(n) # "yes" -> "to"
                       [] Out(n) # "yes" /\ In(n) = "yes" -> "from"
                       [] Out(n) = "yes" /\ In(n) = "yes" -> "both"
                       [] OTHER -> "none"
    BY DEF Primary, Out, In, Row, State
  <1>. QED
    BY <1>1, <1>2

-----------------------------------------------------------------------------
(* A client whose handler runs, but for the last push of a removal, has the *)
(* server to itself.                                                        *)
LEMMA ClientAlone ==
  ASSUME TInv, Alone, NEW c \in Client, job[c].at # "idle", ~Removing(c)
  PROVE  /\ wire = <<>> /\ link.at = "idle"
         /\ \A d \in Client \ {c} : job[d].at = "idle"
         /\ Flight = OfJob(c)
  <1>1. wire = <<>> /\ link.at = "idle" /\ \A d \in Client \ {c} : job[d].at = "idle"
    BY DEF Alone
  <1>2. Stanzas(wire) = {} /\ OfLink = {}
    BY <1>1 DEF Stanzas, OfLink
  <1>3. \A d \in Client \ {c} : OfJob(d) = {}
    BY <1>1 DEF OfJob
  <1>. QED
    BY <1>1, <1>2, <1>3 DEF Flight

(* With a stanza on the wire or handled by the link, what is under way is   *)
(* there.                                                                   *)
LEMMA LinkAlone ==
  ASSUME TInv, Alone, wire # <<>> \/ link.at # "idle"
  PROVE  /\ \A c \in Client : job[c].at # "idle" => Removing(c) /\ Parting
         /\ \A c \in Client : OfJob(c) = {}
         /\ Flight = Stanzas(wire) \cup OfLink
  <1>1. \A c \in Client : job[c].at # "idle" => Removing(c) /\ Parting
    BY DEF Alone
  <1>2. \A c \in Client : OfJob(c) = {}
    BY <1>1 DEF OfJob, Removing
  <1>. QED
    BY <1>1, <1>2 DEF Flight

LEMMA QuietFlight ==
  ASSUME Quiet
  PROVE  Flight = {} /\ OfLink = {} /\ \A u \in User : ~PushDue(u)
  <1>1. Stanzas(wire) = {} /\ OfLink = {} /\ \A c \in Client : OfJob(c) = {}
    BY DEF Quiet, Stanzas, OfLink, OfJob
  <1>. QED
    BY <1>1 DEF Flight, PushDue, Quiet

(* What a step keeps when neither the two halves of a row nor the stanzas   *)
(* under way change.                                                        *)
LEMMA RelatedKept ==
  ASSUME TInv, \A u \in User : Related(u), Flight' = Flight, known' = known,
         \A u \in User : Out(sub'[u]) = Out(sub[u]) /\ In(sub'[u]) = In(sub[u])
  PROVE  \A u \in User : Related(u)'
  BY SubscriptionsAssumption DEF Related

-----------------------------------------------------------------------------
(* A client that waits for all to be quiet before it logs in.               *)
LEMMA LoginCalm ==
  ASSUME TInv, TInv', Calm, Quiet, NEW c \in Client, Login(c)
  PROVE  Calm'
  <1>. DEFINE u == UserOf[c]
  <1>0. /\ u \in User /\ job \in [Client -> JobState] /\ wire = <<>> /\ link.at = "idle"
        /\ \A d \in Client : job[d].at = "idle"
    BY SubscriptionsAssumption DEF TInv, TypeOK, Quiet
  <1>1. /\ UNCHANGED <<sub, link, wire, view, asked>>
        /\ online' = online \cup {c} /\ known' = known \cup {u}
        /\ job'[c].at = "result" /\ job'[c].type = "get" /\ job'[c].seen = sub[u]
        /\ \A d \in Client \ {c} : job'[d] = job[d]
    BY <1>0 DEF Login
  <1>2. Flight = {} /\ OfLink' = {} /\ Flight' = {} /\ \A v \in User : ~PushDue(v)
    <2>1. Stanzas(wire)' = {} /\ OfLink' = {} /\ \A d \in Client : OfJob(d)' = {}
      BY <1>0, <1>1 DEF Stanzas, OfLink, OfJob
    <2>. QED
      BY <2>1, QuietFlight DEF Flight
  <1>3. Alone'
    BY <1>0, <1>1 DEF Alone
  <1>4. Fresh'
    BY <1>0, <1>1 DEF Fresh
  <1>5. OncePerSubscriber'
    BY <1>0, <1>1, <1>2 DEF OncePerSubscriber
  <1>6. Known'
    <2>1. Known
      BY DEF Calm
    <2>. QED
      BY <1>0, <1>1, <2>1 DEF Known
  <1>7. Shown'
    <2>1. \A d \in online : view[d] = Primary(sub[UserOf[d]])
      BY <1>0, <1>2, SubscriptionsAssumption DEF Calm, Shown, TInv, TypeOK
    <2>. QED
      BY <1>1, <2>1 DEF Shown
  <1>8. \A v \in User : Related(v)'
    BY <1>1, <1>2 DEF Calm, Related
  <1>. QED
    BY <1>3, <1>4, <1>5, <1>6, <1>7, <1>8 DEF Calm

(* Or before it sends a stanza.                                             *)
LEMMA RequestCalm ==
  ASSUME TInv, TInv', Calm, Quiet, NEW c \in Client, NEW t \in Type \cup {"remove"},
         Request(c, t)
  PROVE  Calm'
  <1>. DEFINE u == UserOf[c]
  <1>0. /\ u \in User /\ job \in [Client -> JobState] /\ wire = <<>> /\ link.at = "idle"
        /\ \A d \in Client : job[d].at = "idle"
    BY SubscriptionsAssumption DEF TInv, TypeOK, Quiet
  <1>1. /\ UNCHANGED <<sub, online, known, link, wire, view>>
        /\ asked' = IF t = "subscribe" THEN asked \cup {u} ELSE asked
        /\ job'[c].at = IF t = "subscribe" /\ sub[u] = "absent" THEN "add" ELSE "write"
        /\ job'[c].type = t /\ job'[c].seen = sub[u] /\ c \in online
        /\ \A d \in Client \ {c} : job'[d] = job[d]
    BY <1>0 DEF Request
  <1>2. Flight = {} /\ OfLink' = {} /\ Flight' = {} /\ \A v \in User : ~PushDue(v)
    <2>1. Stanzas(wire)' = {} /\ OfLink' = {} /\ \A d \in Client : OfJob(d)' = {}
      BY <1>0, <1>1 DEF Stanzas, OfLink, OfJob
    <2>. QED
      BY <2>1, QuietFlight DEF Flight
  <1>3. Alone'
    BY <1>0, <1>1 DEF Alone
  <1>4. Fresh'
    BY <1>0, <1>1 DEF Fresh
  <1>5. OncePerSubscriber'
    BY <1>0, <1>1, <1>2 DEF OncePerSubscriber
  <1>6. Known'
    <2>1. Known
      BY DEF Calm
    <2>. QED
      BY <1>0, <1>1, <2>1 DEF Known
  <1>7. Shown'
    <2>1. \A d \in online : view[d] = Primary(sub[UserOf[d]])
      BY <1>0, <1>2, SubscriptionsAssumption DEF Calm, Shown, TInv, TypeOK
    <2>. QED
      BY <1>1, <2>1 DEF Shown
  <1>8. \A v \in User : Related(v)'
    BY <1>1, <1>2 DEF Calm, Related
  <1>. QED
    BY <1>3, <1>4, <1>5, <1>6, <1>7, <1>8 DEF Calm

LEMMA LogoutCalm ==
  ASSUME TInv, Calm, NEW c \in Client, Logout(c)
  PROVE  Calm'
  <1>1. /\ UNCHANGED <<sub, known, job, link, wire, asked>> /\ online' = online \ {c}
        /\ \A d \in Client \ {c} : view'[d] = view[d]
    BY DEF Logout, counts, TInv, TypeOK
  <1>2. Alone' /\ Fresh'
    BY <1>1 DEF Calm, Alone, Parting, Removing, Fresh
  <1>3. Flight' = Flight /\ OfLink' = OfLink
    BY <1>1 DEF Flight, OfLink, OfJob, Stanzas
  <1>4. OncePerSubscriber' /\ Known'
    BY <1>1, <1>3 DEF Calm, OncePerSubscriber, Known
  <1>5. Shown'
    <2>1. \A d \in online' : d \in online /\ d \in Client \ {c}
      BY <1>1 DEF TInv, TypeOK
    <2>2. \A u \in User : PushDue(u)' <=> PushDue(u)
      BY <1>1 DEF PushDue
    <2>3. \A d \in Client : UserOf[d] \in User
      BY SubscriptionsAssumption
    <2>. QED
      BY <1>1, <2>1, <2>2, <2>3 DEF Calm, Shown
  <1>6. \A v \in User : Related(v)'
    BY <1>1, <1>3, RelatedKept DEF Calm
  <1>. QED
    BY <1>2, <1>4, <1>5, <1>6 DEF Calm

LEMMA ResultCalm ==
  ASSUME TInv, Calm, NEW c \in Client, RosterResult(c)
  PROVE  Calm'
  <1>. DEFINE u == UserOf[c]
  <1>0. /\ u \in User /\ job \in [Client -> JobState] /\ job[c].at = "result"
        /\ view \in [Client -> {"none", "to", "from", "both"}]
    BY SubscriptionsAssumption DEF TInv, TypeOK, RosterResult
  <1>1. /\ UNCHANGED <<sub, online, known, link, wire, asked>>
        /\ view'[c] = Primary(job[c].seen) /\ job'[c] = Idle(u)
        /\ \A d \in Client \ {c} : job'[d] = job[d] /\ view'[d] = view[d]
    BY <1>0 DEF RosterResult, counts
  <1>2. /\ wire = <<>> /\ link.at = "idle" /\ \A d \in Client \ {c} : job[d].at = "idle"
        /\ Flight = OfJob(c) /\ job[c].seen = sub[u]
    BY <1>0, ClientAlone DEF Calm, Removing, Fresh
  <1>3. Quiet'
    BY <1>0, <1>1, <1>2, IdleTyped DEF Quiet
  <1>4. /\ Flight' = Flight /\ OfLink' = {}
    <2>1. Stanzas(wire)' = {} /\ OfLink' = {} /\ \A d \in Client : OfJob(d)' = {}
      BY <1>3 DEF Quiet, Stanzas, OfLink, OfJob
    <2>2. OfJob(c) = {}
      BY <1>0 DEF OfJob
    <2>. QED
      BY <1>2, <2>1, <2>2 DEF Flight
  <1>5. Alone' /\ Fresh' /\ OncePerSubscriber'
    BY <1>3, <1>4 DEF Alone, Fresh, OncePerSubscriber, Quiet
  <1>6. Known'
    BY <1>1, <1>3 DEF Calm, Known, Quiet
  <1>7. Shown'
    <2>1. \A v \in User : ~PushDue(v)
      BY <1>0, <1>2 DEF PushDue
    <2>2. \A d \in online \ {c} : view[d] = Primary(sub[UserOf[d]])
      BY <1>2, <2>1, SubscriptionsAssumption DEF Calm, Shown, TInv, TypeOK
    <2>. QED
      BY <1>1, <1>2, <2>2 DEF Shown, TInv, TypeOK
  <1>8. \A v \in User : Related(v)'
    BY <1>1, <1>4, RelatedKept DEF Calm
  <1>. QED
    BY <1>5, <1>6, <1>7, <1>8 DEF Calm

-----------------------------------------------------------------------------
(* The handler of a client.  What a step leaves to show, while the client   *)
(* has the server to itself and keeps it.                                   *)
LEMMA HandlerCalm ==
  ASSUME TInv, TInv', Calm, NEW c \in Client, job[c].at # "idle", ~Removing(c),
         UNCHANGED <<online, known, link, wire, asked>>,
         \A d \in Client \ {c} : job'[d] = job[d],
         job'[c].at # "idle" => job'[c].type = job[c].type
  PROVE  /\ Alone'
         /\ wire' = <<>> /\ link'.at = "idle"
         /\ OncePerSubscriber'
         /\ Flight = OfJob(c) /\ Flight' = OfJob(c)'
         /\ \A d \in Client \ {c} : job[d].at = "idle" /\ job'[d].at = "idle"
         /\ \A v \in User \ {UserOf[c]} : ~PushDue(v) /\ ~PushDue(v)'
         /\ (\A v \in User : Out(sub'[v]) # "no" => v \in asked) => Known'
  <1>1. /\ wire = <<>> /\ link.at = "idle" /\ \A d \in Client \ {c} : job[d].at = "idle"
        /\ Flight = OfJob(c)
    BY ClientAlone DEF Calm
  <1>2. /\ Stanzas(wire)' = {} /\ OfLink' = {}
        /\ \A d \in Client \ {c} : OfJob(d)' = {}
    BY <1>1 DEF Stanzas, OfLink, OfJob
  <1>3. Flight' = OfJob(c)'
    BY <1>2 DEF Flight
  <1>4. Alone'
    BY <1>1 DEF Alone
  <1>5. OncePerSubscriber'
    BY <1>1, <1>2 DEF OncePerSubscriber
  <1>6. \A v \in User \ {UserOf[c]} : ~PushDue(v) /\ ~PushDue(v)'
    BY <1>1 DEF PushDue
  <1>7. (\A v \in User : Out(sub'[v]) # "no" => v \in asked) => Known'
    BY <1>1 DEF Calm, Known
  <1>. QED
    BY <1>1, <1>3, <1>4, <1>5, <1>6, <1>7

LEMMA AddContactCalm ==
  ASSUME TInv, TInv', Calm, NEW c \in Client, AddContact(c) \/ RereadContact(c)
  PROVE  Calm'
  <1>. DEFINE u == UserOf[c]
  <1>0. /\ u \in User /\ job \in [Client -> JobState] /\ job[c] \in JobState
        /\ job[c].at \in {"add", "reread"} /\ ~Removing(c) /\ job[c].type = "subscribe"
        /\ sub \in [User -> Row]
    BY SubscriptionsAssumption
       DEF TInv, TypeOK, AddContact, RereadContact, Removing, Staged
  <1>1. /\ UNCHANGED <<online, known, link, wire, view, asked>>
        /\ \A d \in Client \ {c} : job'[d] = job[d]
        /\ job'[c].type = job[c].type
        /\ \/ /\ AddContact(c) /\ job'[c].at = "reread"
              /\ sub[u] = "absent" /\ sub' = [sub EXCEPT ![u] = "NONE"]
           \/ /\ RereadContact(c) /\ job'[c].at = "write" /\ job'[c].seen = sub[u]
              /\ sub[u] = "NONE" /\ sub' = sub
    <2>1. CASE AddContact(c)
      <3>1. sub[u] = "absent"
        BY <2>1 DEF Calm, Fresh, AddContact
      <3>2. /\ UNCHANGED <<online, known, link, wire, view, asked>>
            /\ job' = [job EXCEPT ![c] = [@ EXCEPT !.at = "reread"]]
            /\ sub' = [sub EXCEPT ![u] = "NONE"]
        BY <2>1, <3>1 DEF AddContact, counts, Inserted
      <3>3. job'[c] = [job[c] EXCEPT !.at = "reread"]
            /\ \A d \in Client \ {c} : job'[d] = job[d]
        BY <1>0, <3>2
      <3>. QED
        BY <1>0, <2>1, <3>1, <3>2, <3>3, JobFields
    <2>2. CASE RereadContact(c)
      <3>1. sub[u] = "NONE"
        BY <2>2 DEF Calm, Fresh, RereadContact
      <3>2. /\ UNCHANGED <<online, known, link, wire, view, asked, sub>>
            /\ job' = [job EXCEPT ![c] = [@ EXCEPT !.at = "write", !.seen = sub[u]]]
        BY <2>2, <3>1 DEF RereadContact, counts
      <3>3. job'[c] = [job[c] EXCEPT !.at = "write", !.seen = sub[u]]
            /\ \A d \in Client \ {c} : job'[d] = job[d]
        BY <1>0, <3>2
      <3>. QED
        BY <1>0, <2>2, <3>1, <3>2, <3>3, JobFields
    <2>. QED
      BY <2>1, <2>2
  <1>2. \A v \in User : /\ Out(sub'[v]) = Out(sub[v]) /\ In(sub'[v]) = In(sub[v])
                        /\ Primary(sub'[v]) = Primary(sub[v])
    BY <1>0, <1>1 DEF Out, In, Primary
  <1>3. /\ Alone' /\ OncePerSubscriber' /\ wire' = <<>> /\ link'.at = "idle"
        /\ Flight = OfJob(c) /\ Flight' = OfJob(c)'
        /\ \A d \in Client \ {c} : job[d].at = "idle" /\ job'[d].at = "idle"
        /\ Known'
    <2>1. \A v \in User : Out(sub'[v]) # "no" => v \in asked
      BY <1>2 DEF Calm, Known
    <2>. QED
      BY <1>0, <1>1, <2>1, HandlerCalm
  <1>4. Flight' = Flight
    BY <1>0, <1>1, <1>3 DEF OfJob
  <1>5. Fresh'
    BY <1>0, <1>1, <1>3 DEF Fresh
  <1>6. Shown'
    <2>1. \A v \in User : ~PushDue(v)
      BY <1>0, <1>1, <1>3 DEF PushDue
    <2>. QED
      BY <1>0, <1>1, <1>2, <1>3, <2>1, SubscriptionsAssumption
         DEF Calm, Shown, TInv, TypeOK
  <1>7. \A v \in User : Related(v)'
    BY <1>1, <1>2, <1>4, RelatedKept DEF Calm
  <1>. QED
    BY <1>3, <1>5, <1>6, <1>7 DEF Calm

LEMMA PushContactCalm ==
  ASSUME TInv, TInv', Calm, NEW c \in Client, PushContact(c), ~Removing(c)
  PROVE  Calm'
  <1>. DEFINE u == UserOf[c]
  <1>0. /\ u \in User /\ job \in [Client -> JobState] /\ job[c] \in JobState
        /\ job[c].at = "push" /\ job[c].type \in Type /\ job[c].type # "remove"
        /\ sub \in [User -> Row] /\ view \in [Client -> {"none", "to", "from", "both"}]
    BY SubscriptionsAssumption DEF TInv, TypeOK, PushContact, Removing, Staged
  <1>1. sub[u] = After(C2SMove, job[c].type, job[c].seen)
    BY <1>0 DEF Calm, Fresh
  <1>2. /\ UNCHANGED <<sub, online, known, link, wire, asked>>
        /\ view' = Pushed(u, sub[u])
        /\ job' = [job EXCEPT ![c] = [@ EXCEPT !.at = "route"]]
    BY <1>0, <1>1 DEF PushContact, counts
  <1>3. /\ job'[c].at = "route" /\ job'[c].type = job[c].type /\ job'[c].seen = job[c].seen
        /\ \A d \in Client \ {c} : job'[d] = job[d]
    <2>1. job'[c] = [job[c] EXCEPT !.at = "route"]
          /\ \A d \in Client \ {c} : job'[d] = job[d]
      BY <1>0, <1>2
    <2>. QED
      BY <1>0, <2>1, JobFields
  <1>4. /\ Alone' /\ OncePerSubscriber' /\ wire' = <<>> /\ link'.at = "idle"
        /\ Flight = OfJob(c) /\ Flight' = OfJob(c)'
        /\ \A d \in Client \ {c} : job[d].at = "idle" /\ job'[d].at = "idle"
        /\ \A v \in User \ {u} : ~PushDue(v)
        /\ Known'
    <2>1. \A v \in User : Out(sub'[v]) # "no" => v \in asked
      BY <1>2 DEF Calm, Known
    <2>. QED
      BY <1>0, <1>2, <1>3, <2>1, HandlerCalm
  <1>5. Flight' = Flight
    BY <1>0, <1>3, <1>4 DEF OfJob
  <1>6. Fresh'
    BY <1>0, <1>1, <1>2, <1>3, <1>4 DEF Fresh
  <1>7. Shown'
    <2>1. ASSUME NEW d \in online
          PROVE  view'[d] = Primary(sub[UserOf[d]])
      <3>0. d \in Client /\ UserOf[d] \in User
        BY SubscriptionsAssumption DEF TInv, TypeOK
      <3>1. CASE UserOf[d] = u
        BY <1>2, <3>0, <3>1 DEF Pushed
      <3>2. CASE UserOf[d] # u
        <4>1. job[d].at # "result"
          BY <1>0, <1>4, <3>0
        <4>2. view[d] = Primary(sub[UserOf[d]])
          BY <1>4, <3>0, <3>2, <4>1 DEF Calm, Shown
        <4>. QED
          BY <1>2, <3>0, <3>2, <4>2 DEF Pushed
      <3>. QED
        BY <3>1, <3>2
    <2>. QED
      BY <1>2, <2>1 DEF Shown
  <1>8. \A v \in User : Related(v)'
    BY <1>2, <1>5, RelatedKept DEF Calm
  <1>. QED
    BY <1>4, <1>6, <1>7, <1>8 DEF Calm

(* The last push of a removal, while the stanzas it has routed may be under *)
(* way.                                                                     *)
LEMMA RemovedCalm ==
  ASSUME TInv, TInv', Calm, NEW c \in Client, PushContact(c), Removing(c)
  PROVE  Calm'
  <1>. DEFINE u == UserOf[c]
  <1>0. /\ u \in User /\ job \in [Client -> JobState] /\ job[c] \in JobState
        /\ job[c].at = "push" /\ job[c].type = "remove"
        /\ sub \in [User -> Row] /\ view \in [Client -> {"none", "to", "from", "both"}]
    BY SubscriptionsAssumption DEF TInv, TypeOK, PushContact, Removing
  <1>1. sub[u] = "absent"
    BY <1>0 DEF Calm, Fresh
  <1>2. /\ UNCHANGED <<sub, online, known, link, wire, asked>>
        /\ view' = Pushed(u, sub[u]) /\ job'[c] = Idle(u)
        /\ \A d \in Client \ {c} : job'[d] = job[d]
    BY <1>0, <1>1 DEF PushContact, counts
  <1>3. \A d \in Client : d # c => job[d].at = "idle" /\ job'[d].at = "idle"
    BY <1>0, <1>2 DEF Calm, Alone
  <1>4. job'[c].at = "idle" /\ job'[c].type = "get"
    BY <1>2 DEF Idle
  <1>5. Alone'
    BY <1>3, <1>4 DEF Alone
  <1>6. Flight' = Flight /\ OfLink' = OfLink
    <2>1. Stanzas(wire)' = Stanzas(wire) /\ OfLink' = OfLink
      BY <1>2 DEF Stanzas, OfLink
    <2>2. \A d \in Client : OfJob(d)' = {} /\ OfJob(d) = {}
      BY <1>0, <1>3, <1>4 DEF OfJob
    <2>. QED
      BY <2>1, <2>2 DEF Flight
  <1>7. OncePerSubscriber' /\ Known' /\ Fresh'
    <2>1. OncePerSubscriber'
      BY <1>2, <1>6 DEF Calm, OncePerSubscriber
    <2>2. Known'
      BY <1>2, <1>3, <1>4 DEF Calm, Known
    <2>3. Fresh'
      BY <1>2, <1>3, <1>4 DEF Calm, Fresh
    <2>. QED
      BY <2>1, <2>2, <2>3
  <1>8. Shown'
    <2>1. ASSUME NEW d \in online, ~PushDue(UserOf[d])'
          PROVE  view'[d] = Primary(sub[UserOf[d]])
      <3>0. d \in Client /\ UserOf[d] \in User
        BY SubscriptionsAssumption DEF TInv, TypeOK
      <3>1. CASE UserOf[d] = u
        BY <1>2, <3>0, <3>1 DEF Pushed
      <3>2. CASE UserOf[d] # u
        <4>1. job[d].at # "result"
          BY <1>3, <3>0, <3>2
        <4>2. ~PushDue(UserOf[d])
          BY <1>2, <1>3, <2>1, <3>2 DEF PushDue
        <4>3. view[d] = Primary(sub[UserOf[d]])
          BY <4>1, <4>2 DEF Calm, Shown
        <4>. QED
          BY <1>2, <3>0, <3>2, <4>3 DEF Pushed
      <3>. QED
        BY <3>1, <3>2
    <2>. QED
      BY <1>2, <2>1 DEF Shown
  <1>9. \A v \in User : Related(v)'
    BY <1>2, <1>6, RelatedKept DEF Calm
  <1>. QED
    BY <1>5, <1>7, <1>8, <1>9 DEF Calm

(* The stanzas a client's handler had to send are then on the wire.         *)
LEMMA RouteContactCalm ==
  ASSUME TInv, TInv', Calm, NEW c \in Client, RouteContact(c)
  PROVE  Calm'
  <1>. DEFINE u == UserOf[c]
              j == job[c]
              sent(t) == [type |-> t, to |-> Peer[u]]
  <1>0. /\ u \in User /\ Peer[u] \in User /\ Peer[Peer[u]] = u /\ Peer[u] # u
        /\ job \in [Client -> JobState] /\ j \in JobState /\ wire \in Seq(Stanza)
        /\ j.at = "route" /\ j.type \in Type \cup {"remove"} /\ ~Removing(c)
    BY SubscriptionsAssumption DEF TInv, TypeOK, RouteContact, Removing, Staged
  <1>1. /\ wire = <<>> /\ link.at = "idle" /\ Flight = OfJob(c)
        /\ \A d \in Client \ {c} : job[d].at = "idle"
    BY <1>0, ClientAlone DEF Calm
  <1>2. /\ UNCHANGED <<sub, online, known, link, view, asked>>
        /\ \A d \in Client \ {c} : job'[d] = job[d]
        /\ \/ /\ j.type = "remove" /\ wire' = <<sent("unsubscribe"), sent("unsubscribed")>>
              /\ job'[c].at = "push" /\ job'[c].type = "remove" /\ job'[c].seen = j.seen
           \/ /\ j.type # "remove" /\ wire' = <<sent(j.type)>>
              /\ job'[c].at = "idle" /\ job'[c].type = "get"
    <2>0. UNCHANGED <<sub, online, known, link, view, asked>>
      BY DEF RouteContact, counts
    <2>1. CASE j.type = "remove"
      <3>1. /\ wire' = wire \o <<sent("unsubscribe"), sent("unsubscribed")>>
            /\ job' = [job EXCEPT ![c] = [@ EXCEPT !.at = "push"]]
        BY <2>1 DEF RouteContact
      <3>2. job'[c] = [j EXCEPT !.at = "push"] /\ \A d \in Client \ {c} : job'[d] = job[d]
        BY <1>0, <3>1
      <3>3. wire' = <<sent("unsubscribe"), sent("unsubscribed")>>
        BY <1>1, <3>1
      <3>. QED
        BY <1>0, <2>0, <2>1, <3>2, <3>3, JobFields
    <2>2. CASE j.type # "remove"
      <3>1. wire' = Append(wire, sent(j.type)) /\ job' = [job EXCEPT ![c] = Idle(u)]
        BY <2>2 DEF RouteContact
      <3>2. job'[c] = Idle(u) /\ \A d \in Client \ {c} : job'[d] = job[d]
        BY <1>0, <3>1
      <3>3. wire' = <<sent(j.type)>>
        BY <1>1, <3>1
      <3>. QED
        BY <2>0, <2>2, <3>2, <3>3 DEF Idle
    <2>. QED
      BY <2>1, <2>2
  <1>3. /\ OfLink' = {} /\ \A d \in Client : OfJob(d)' = {}
    <2>1. OfLink' = {}
      BY <1>1, <1>2 DEF OfLink
    <2>2. \A d \in Client \ {c} : OfJob(d)' = {}
      BY <1>1, <1>2 DEF OfJob
    <2>3. OfJob(c)' = {}
      BY <1>2 DEF OfJob
    <2>. QED
      BY <2>1, <2>2, <2>3
  <1>4. Flight' = Flight
    <2>1. Flight' = Stanzas(wire')
      BY <1>3 DEF Flight, Stanzas
    <2>2. CASE j.type = "remove"
      <3>1. Stanzas(wire') = {sent("unsubscribe"), sent("unsubscribed")}
        <4>1. Len(wire') = 2 /\ wire'[1] = sent("unsubscribe") /\ wire'[2] = sent("unsubscribed")
          BY <1>2, <2>2
        <4>. HIDE DEF sent
        <4>2. Stanzas(wire') = {wire'[k] : k \in {1, 2}}
          BY <4>1 DEF Stanzas
        <4>. QED
          BY <4>1, <4>2
      <3>2. OfJob(c) = {sent("unsubscribe"), sent("unsubscribed")}
        BY <1>0, <2>2 DEF OfJob
      <3>. QED
        BY <1>1, <2>1, <3>1, <3>2
    <2>3. CASE j.type # "remove"
      <3>1. Stanzas(wire') = {sent(j.type)}
        BY <1>2, <2>3 DEF Stanzas
      <3>2. OfJob(c) = {sent(j.type)}
        BY <1>0, <2>3 DEF OfJob
      <3>. QED
        BY <1>1, <2>1, <3>1, <3>2
    <2>. QED
      BY <2>2, <2>3
  <1>5. Alone'
    <2>1. \A d, e \in Client : job'[d].at # "idle" /\ job'[e].at # "idle" => d = e
      BY <1>1, <1>2
    <2>2. job'[c].at # "idle" => Removing(c)' /\ Parting'
      <3>1. ASSUME job'[c].at # "idle"
            PROVE  Removing(c)' /\ Parting'
        <4>1. /\ wire' = <<sent("unsubscribe"), sent("unsubscribed")>>
              /\ job'[c].at = "push" /\ job'[c].type = "remove" /\ link'.at = "idle"
          BY <1>1, <1>2, <3>1
        <4>2. \A k \in 1..Len(wire') : wire'[k].type \in {"unsubscribe", "unsubscribed"}
          BY <4>1
        <4>. QED
          BY <4>1, <4>2 DEF Removing, Parting
      <3>. QED
        BY <3>1
    <2>. QED
      BY <1>1, <1>2, <2>1, <2>2 DEF Alone
  <1>6. OncePerSubscriber'
    <2>1. \A m, n \in 1..Len(wire') :
            Subscriber(wire'[m]) = Subscriber(wire'[n]) => m = n
      <3>1. CASE j.type = "remove"
        <4>1. wire' = <<sent("unsubscribe"), sent("unsubscribed")>>
          BY <1>2, <3>1
        <4>2. Subscriber(sent("unsubscribe")) = u /\ Subscriber(sent("unsubscribed")) = Peer[u]
          BY <1>0 DEF Subscriber
        <4>. QED
          BY <1>0, <4>1, <4>2
      <3>2. CASE j.type # "remove"
        <4>1. wire' = <<sent(j.type)>>
          BY <1>2, <3>2
        <4>. QED
          BY <4>1
      <3>. QED
        BY <3>1, <3>2
    <2>. QED
      BY <1>3, <2>1 DEF OncePerSubscriber
  <1>7. Known'
    BY <1>1, <1>2 DEF Calm, Known
  <1>8. Fresh'
    <2>1. j.type = "remove" => sub[u] = "absent"
      BY <1>0 DEF Calm, Fresh
    <2>. QED
      BY <1>1, <1>2, <2>1 DEF Fresh
  <1>9. Shown'
    <2>1. \A v \in User : PushDue(v) => PushDue(v)'
      BY <1>0, <1>1, <1>2 DEF PushDue
    <2>2. \A d \in Client : job'[d].at # "result" => job[d].at # "result"
      BY <1>0, <1>1
    <2>. QED
      BY <1>2, <2>1, <2>2, SubscriptionsAssumption DEF Calm, Shown, TInv, TypeOK
  <1>10. \A v \in User : Related(v)'
    BY <1>2, <1>4, RelatedKept DEF Calm
  <1>. QED
    BY <1>5, <1>6, <1>7, <1>8, <1>9, <1>10 DEF Calm

(* A client's handler writes what it makes of the row as it is: the stanza  *)
(* it has still to send makes up for what the two rosters now differ in.    *)
LEMMA WriteContactCalm ==
  ASSUME TInv, TInv', Calm, NEW c \in Client, WriteContact(c)
  PROVE  Calm'
  <1>. DEFINE u == UserOf[c]
              p == Peer[u]
              t == job[c].type
              s == sub[u]
              n == IF t = "remove" THEN "absent" ELSE After(C2SMove, t, s)
              sent(x) == [type |-> x, to |-> p]
  <1>0. /\ u \in User /\ p \in User /\ Peer[p] = u /\ p # u
        /\ job \in [Client -> JobState] /\ job[c] \in JobState /\ sub \in [User -> Row]
        /\ s \in Row /\ job[c].at = "write" /\ t \in Type \cup {"remove"} /\ ~Removing(c)
        /\ job[c].seen = s
        /\ \A v \in User : Peer[v] \in User /\ Peer[Peer[v]] = v
    <2>1. /\ u \in User /\ p \in User /\ Peer[p] = u /\ p # u
          /\ \A v \in User : Peer[v] \in User /\ Peer[Peer[v]] = v
      BY SubscriptionsAssumption
    <2>2. /\ job \in [Client -> JobState] /\ sub \in [User -> Row]
          /\ job[c].at = "write" /\ ~Removing(c)
      BY DEF TInv, TypeOK, WriteContact, Removing
    <2>3. t \in Type \cup {"remove"}
      BY <2>2 DEF TInv, Staged
    <2>4. job[c].seen = s
      BY <2>2 DEF Calm, Fresh
    <2>. QED
      BY <2>1, <2>2, <2>3, <2>4
  <1>1. /\ wire = <<>> /\ link.at = "idle" /\ Flight = {}
        /\ \A d \in Client \ {c} : job[d].at = "idle"
    <2>1. OfJob(c) = {}
      BY <1>0 DEF OfJob
    <2>. QED
      BY <1>0, <2>1, ClientAlone DEF Calm
  <1>2. \A v \in User : Out(sub[v]) = In(sub[Peer[v]])
    BY <1>1 DEF Calm, Related
  <1>3. /\ UNCHANGED <<online, known, link, wire, view, asked>>
        /\ \A d \in Client \ {c} : job'[d] = job[d]
        /\ \/ job'[c].at = "idle"
           \/ /\ job'[c].at \in {"push", "route"}
              /\ job'[c].type = t /\ job'[c].seen = s
    <2>1. PICK a \in {"route", "push"} :
            /\ job' = [job EXCEPT ![c] = Idle(UserOf[c])]
               \/ job' = [job EXCEPT ![c] = [@ EXCEPT !.at = a]]
      BY Zenon DEF WriteContact
    <2>2. job'[c] \in {Idle(u), [job[c] EXCEPT !.at = a]}
          /\ \A d \in Client \ {c} : job'[d] = job[d]
      BY <1>0, <2>1
    <2>3. \/ job'[c].at = "idle"
          \/ job'[c].at = a /\ job'[c].type = t /\ job'[c].seen = s
      <3>1. CASE job'[c] = Idle(u)
        BY <1>0, <3>1, IdleTyped
      <3>2. CASE job'[c] = [job[c] EXCEPT !.at = a]
        BY <1>0, <3>2, JobFields
      <3>. QED
        BY <2>2, <3>1, <3>2
    <2>. QED
      BY <2>2, <2>3 DEF WriteContact, counts
  (* Where the handler stands next.                                         *)
  <1>4. /\ t = "remove" => job'[c].at = "route"
        /\ t = "unsubscribe" /\ s = "absent" => job'[c].at = "route"
        /\ t \in {"subscribed", "unsubscribed"} /\ ~Moves(C2SMove, t, s) =>
             job'[c].at = "idle"
        /\ t = "subscribe" => job'[c].at = "push"
        /\ t = "unsubscribe" /\ s # "absent" => job'[c].at = "push"
        /\ t \in {"subscribed", "unsubscribed"} /\ Moves(C2SMove, t, s) =>
             job'[c].at = "push"
    <2>. DEFINE next == CASE t = "remove" -> "route"
                          [] t = "unsubscribe" /\ s = "absent" -> "route"
                          [] t \in {"subscribed", "unsubscribed"}
                               /\ ~Moves(C2SMove, t, s) -> "idle"
                          [] OTHER -> "push"
    <2>1. job' = [job EXCEPT ![c] = IF next = "idle" THEN Idle(u)
                                    ELSE [@ EXCEPT !.at = next]]
      BY <1>0, Zenon DEF WriteContact
    <2>2. next \in {"route", "idle", "push"}
      OBVIOUS
    <2>3. job'[c].at = next
      <3>. HIDE DEF next
      <3>1. job'[c] = IF next = "idle" THEN Idle(u) ELSE [job[c] EXCEPT !.at = next]
        BY <1>0, <2>1
      <3>. QED
        BY <1>0, <2>2, <3>1, IdleTyped, JobFields
    <2>. QED
      BY <2>3
  <1>5. sub' = [sub EXCEPT ![u] = n] /\ n \in Row
    <2>1. CASE t = "remove"
      <3>1. sub' = [sub EXCEPT ![u] = "absent"]
        BY <2>1 DEF WriteContact, Type
      <3>2. n = "absent"
        BY <2>1
      <3>. HIDE DEF n
      <3>. QED
        BY <3>1, <3>2 DEF Row
    <2>2. CASE t \in Type
      <3>1. t # "remove" /\ n \in Row /\ n = After(C2SMove, t, s)
            /\ (Moves(C2SMove, t, s) => s # "absent")
        BY <1>0, <2>2, C2STable DEF Type, State
      <3>2. CASE Moves(C2SMove, t, s)
        <4>1. sub' = Updated(u, n)
          BY <1>0, <2>2, <3>1, <3>2, Zenon DEF WriteContact
        <4>. QED
          BY <3>1, <3>2, <4>1 DEF Updated
      <3>3. CASE ~Moves(C2SMove, t, s)
        <4>1. sub' = sub /\ n = s
          BY <1>0, <3>1, <3>3, Zenon DEF WriteContact, After
        <4>. QED
          BY <1>0, <3>1, <4>1
      <3>. QED
        BY <3>2, <3>3
    <2>. QED
      BY <1>0, <2>1, <2>2
  <1>6. \A v \in User : sub'[v] = IF v = u THEN n ELSE sub[v]
    BY <1>0, <1>5
  (* What becomes of the row, by the stanza.                                *)
  <1>7. /\ t = "remove" => Out(n) = "no" /\ In(n) = "no"
        /\ t = "subscribe" => /\ In(n) = In(s) /\ s # "absent"
                              /\ Out(n) = IF Out(s) = "no" THEN "pending" ELSE Out(s)
        /\ t = "subscribed" => /\ Out(n) = Out(s)
                               /\ IF Moves(C2SMove, t, s)
                                  THEN In(s) = "pending" /\ In(n) = "yes" ELSE n = s
        /\ t = "unsubscribe" => /\ In(n) = In(s) /\ (s = "absent" => n = s)
                                /\ \/ Out(n) = "no"
                                   \/ /\ Out(n) = "pending" /\ Out(s) = "pending"
                                      /\ In(s) = "yes"
        /\ t = "unsubscribed" => /\ Out(n) = Out(s) /\ In(n) = "no"
                                 /\ (~Moves(C2SMove, t, s) => n = s)
    <2>1. CASE t = "remove"
      BY <2>1 DEF Out, In
    <2>2. CASE t = "subscribe"
      <3>1. s # "absent"
        BY <1>0, <2>2 DEF Calm, Fresh
      <3>. QED
        BY <1>0, <2>2, <3>1, C2STable DEF Type
    <2>3. CASE t = "subscribed"
      BY <1>0, <2>3, C2STable, MovesTable DEF Type, After
    <2>4. CASE t = "unsubscribe"
      <3>1. s = "absent" => n = s
        BY <2>4 DEF After, Moves, C2SMove
      <3>. QED
        BY <1>0, <2>4, <3>1, C2STable, MovesTable DEF Type
    <2>5. CASE t = "unsubscribed"
      BY <1>0, <2>5, C2STable DEF Type, After
    <2>. QED
      BY <1>0, <2>1, <2>2, <2>3, <2>4, <2>5 DEF Type
  <1>. HIDE DEF n
  <1>8. /\ Alone' /\ OncePerSubscriber' /\ Known' /\ Flight' = OfJob(c)'
        /\ wire' = <<>> /\ link'.at = "idle"
        /\ \A d \in Client \ {c} : job[d].at = "idle" /\ job'[d].at = "idle"
        /\ \A v \in User \ {u} : ~PushDue(v)
    <2>1. Known
      BY DEF Calm
    <2>2. Out(n) # "no" => u \in asked
      <3>1. Out(s) # "no" => u \in asked
        BY <1>0, <2>1 DEF Known
      <3>2. t = "subscribe" => u \in asked
        BY <1>0, <2>1 DEF Known
      <3>3. t # "subscribe" /\ Out(n) # "no" => Out(s) # "no"
        BY <1>0, <1>7 DEF Type
      <3>. QED
        BY <3>1, <3>2, <3>3
    <2>3. \A v \in User : Out(sub'[v]) # "no" => v \in asked
      BY <1>6, <2>1, <2>2 DEF Known
    <2>. QED
      BY <1>0, <1>3, <2>3, HandlerCalm
  <1>9. Fresh'
    <2>1. job'[c].at \in {"push", "route"} =>
            sub'[u] = IF job'[c].type = "remove" THEN "absent"
                      ELSE After(C2SMove, job'[c].type, job'[c].seen)
      BY <1>0, <1>3, <1>6 DEF n
    <2>. QED
      BY <1>3, <1>8, <2>1 DEF Fresh
  <1>10. Shown'
    <2>1. PushDue(u)' \/ n = s
      <3>1. t # "remove" /\ job'[c].at # "push" => n = s
        BY <1>0, <1>4, <1>7 DEF Type
      <3>. QED
        BY <1>0, <1>3, <1>4, <3>1 DEF PushDue
    <2>2. ~PushDue(u)
      BY <1>0, <1>1 DEF PushDue
    <2>3. \A d \in online : view[d] = Primary(sub[UserOf[d]])
      BY <1>0, <1>8, <2>2, SubscriptionsAssumption DEF Calm, Shown, TInv, TypeOK
    <2>4. \A d \in online : UserOf[d] \in User
      BY SubscriptionsAssumption DEF TInv, TypeOK
    <2>. QED
      BY <1>3, <1>6, <2>1, <2>3, <2>4 DEF Shown
  <1>11. \A v \in User : Related(v)'
    <2>0. /\ Subscriber(sent("subscribe")) = u /\ Subscriber(sent("unsubscribe")) = u
          /\ Subscriber(sent("subscribed")) = p /\ Subscriber(sent("unsubscribed")) = p
          /\ Out(s) = In(sub[p]) /\ Out(sub[p]) = In(s)
      BY <1>0, <1>2 DEF Subscriber
    <2>. HIDE DEF sent
    <2>1. \A m \in Flight' : Subscriber(m) \in {u, p}
      <3>1. Flight' \subseteq {sent(x) : x \in Type}
        BY <1>0, <1>3, <1>8 DEF OfJob, Type, sent
      <3>. QED
        BY <2>0, <3>1 DEF Type
    <2>2. ASSUME NEW v \in User, v \notin {u, p}
          PROVE  Related(v)'
      <3>1. Peer[v] # u /\ \A m \in Flight' : Subscriber(m) # v
        BY <1>0, <2>1, <2>2
      <3>2. Out(sub'[v]) = In(sub'[Peer[v]])
        BY <1>0, <1>2, <1>6, <2>2, <3>1
      <3>. QED
        BY <3>1, <3>2 DEF Related
    (* It is enough to look at the two of them.                             *)
    <2>3. ASSUME (\A m \in Flight' : Subscriber(m) # u) => Out(n) = Out(s),
                 \A m \in Flight' : Subscriber(m) = u =>
                   Consistent(m, Out(n), Out(s), p \in known),
                 (\A m \in Flight' : Subscriber(m) # p) => In(s) = In(n),
                 \A m \in Flight' : Subscriber(m) = p =>
                   Consistent(m, In(s), In(n), u \in known)
          PROVE  \A v \in User : Related(v)'
      <3>1. sub'[u] = n /\ sub'[p] = sub[p] /\ known' = known
        BY <1>0, <1>3, <1>6
      <3>2. Related(u)'
        BY <1>0, <2>0, <2>3, <3>1 DEF Related
      <3>3. Related(p)'
        BY <1>0, <2>0, <2>3, <3>1 DEF Related
      <3>. QED
        BY <2>2, <3>2, <3>3
    <2>4. CASE t = "remove"
      <3>1. Flight' = {sent("unsubscribe"), sent("unsubscribed")}
        BY <1>3, <1>4, <1>8, <2>4 DEF OfJob, sent
      <3>2. Consistent(sent("unsubscribe"), Out(n), Out(s), p \in known)
        BY <1>7, <2>4 DEF Consistent, sent
      <3>3. Consistent(sent("unsubscribed"), In(s), In(n), u \in known)
        BY <1>7, <2>4 DEF Consistent, sent
      <3>. QED
        BY <1>0, <2>0, <2>3, <3>1, <3>2, <3>3
    <2>5. CASE t = "subscribe"
      <3>1. Flight' = {sent("subscribe")}
        BY <1>3, <1>4, <1>8, <2>5 DEF OfJob, sent
      <3>2. Consistent(sent("subscribe"), Out(n), Out(s), p \in known)
        BY <1>7, <2>5 DEF Consistent, sent
      <3>. QED
        BY <1>0, <1>7, <2>0, <2>3, <2>5, <3>1, <3>2
    <2>6. CASE t = "unsubscribe"
      <3>1. Flight' = {sent("unsubscribe")}
        BY <1>3, <1>4, <1>8, <2>6 DEF OfJob, sent
      <3>2. In(s) = "yes" => p \in known
        BY <1>0, <2>0 DEF Calm, Known
      <3>3. Consistent(sent("unsubscribe"), Out(n), Out(s), p \in known)
        BY <1>7, <2>6, <3>2 DEF Consistent, sent
      <3>. QED
        BY <1>0, <1>7, <2>0, <2>3, <2>6, <3>1, <3>3
    <2>7. CASE t = "subscribed" /\ Moves(C2SMove, t, s)
      <3>1. Flight' = {sent("subscribed")}
        BY <1>3, <1>4, <1>8, <2>7 DEF OfJob, sent
      <3>2. Consistent(sent("subscribed"), In(s), In(n), u \in known)
        BY <1>7, <2>7 DEF Consistent, sent
      <3>. QED
        BY <1>0, <1>7, <2>0, <2>3, <2>7, <3>1, <3>2
    <2>8. CASE t = "unsubscribed" /\ Moves(C2SMove, t, s)
      <3>1. Flight' = {sent("unsubscribed")}
        BY <1>3, <1>4, <1>8, <2>8 DEF OfJob, sent
      <3>2. Consistent(sent("unsubscribed"), In(s), In(n), u \in known)
        BY <1>7, <2>8 DEF Consistent, sent
      <3>. QED
        BY <1>0, <1>7, <2>0, <2>3, <2>8, <3>1, <3>2
    <2>9. CASE t \in {"subscribed", "unsubscribed"} /\ ~Moves(C2SMove, t, s)
      <3>1. Flight' = {} /\ n = s
        BY <1>4, <1>7, <1>8, <2>9 DEF OfJob
      <3>. QED
        BY <2>3, <3>1
    <2>. QED
      BY <1>0, <2>4, <2>5, <2>6, <2>7, <2>8, <2>9 DEF Type
  <1>. QED
    BY <1>8, <1>9, <1>10, <1>11 DEF Calm

-----------------------------------------------------------------------------
(* The handler of the S2S connection.  What a step leaves to show, given    *)
(* that the stanzas of a removal neither bring others nor add a row.        *)
LEMMA PeerCalm ==
  ASSUME TInv, TInv', Calm, wire # <<>> \/ link.at # "idle",
         UNCHANGED <<online, known, job, asked>>,
         Parting => /\ Parting'
                    /\ \A v \in User : sub[v] = "absent" => sub'[v] = "absent"
  PROVE  /\ Alone'
         /\ \A c \in Client : job[c].at # "idle" =>
              /\ job[c].at = "push" /\ job[c].type = "remove"
              /\ sub'[UserOf[c]] = "absent"
         /\ Flight = Stanzas(wire) \cup OfLink
         /\ Flight' = Stanzas(wire') \cup OfLink'
         /\ (\A v \in User : Out(sub'[v]) # "no" => v \in asked) => Known'
  <1>1. /\ \A c \in Client : job[c].at # "idle" => Removing(c) /\ Parting
        /\ \A c \in Client : OfJob(c) = {}
        /\ Flight = Stanzas(wire) \cup OfLink
    BY LinkAlone DEF Calm
  <1>2. \A c \in Client : OfJob(c)' = {}
    BY <1>1 DEF OfJob
  <1>3. Flight' = Stanzas(wire') \cup OfLink'
    BY <1>2 DEF Flight, Stanzas
  <1>4. Alone'
    BY <1>1 DEF Calm, Alone, Removing
  <1>5. ASSUME NEW c \in Client, job[c].at # "idle"
        PROVE  job[c].at = "push" /\ job[c].type = "remove" /\ sub'[UserOf[c]] = "absent"
    <2>1. Removing(c) /\ Parting /\ UserOf[c] \in User
      BY <1>1, <1>5, SubscriptionsAssumption
    <2>2. sub[UserOf[c]] = "absent"
      BY <2>1 DEF Calm, Fresh, Removing
    <2>. QED
      BY <2>1, <2>2 DEF Removing
  <1>6. (\A v \in User : Out(sub'[v]) # "no" => v \in asked) => Known'
    BY DEF Calm, Known
  <1>. QED
    BY <1>1, <1>3, <1>4, <1>5, <1>6

(* The first stanza of the wire becomes the one the link handles.           *)
LEMMA ReceiveCalm ==
  ASSUME TInv, TInv', Calm, Receive
  PROVE  Calm'
  <1>. DEFINE m == Head(wire)
              u == m.to
              s == sub[u]
  <1>0. /\ wire \in Seq(Stanza) /\ wire # <<>> /\ m \in Stanza /\ m = wire[1]
        /\ m.type \in Type /\ u \in User /\ link.at = "idle"
    <2>1. wire \in Seq(Stanza) /\ wire # <<>> /\ link.at = "idle"
      BY DEF TInv, TypeOK, Receive
    <2>2. Head(wire) \in Stanza /\ Head(wire) = wire[1]
      BY <2>1
    <2>. QED
      BY <2>1, <2>2 DEF Stanza
  <1>1. /\ UNCHANGED <<sub, online, known, job, view, asked>> /\ wire' = Tail(wire)
        /\ link'.at = IF m.type = "subscribe" /\ s = "absent" THEN "add" ELSE "write"
        /\ link'.type = m.type /\ link'.user = u /\ link'.seen = s
    BY DEF Receive, counts
  <1>2. /\ 1 \in 1..Len(wire)
        /\ \A k \in 1..Len(wire') : k + 1 \in 1..Len(wire) /\ wire'[k] = wire[k + 1]
        /\ \A k \in 1..Len(wire) : k # 1 => k - 1 \in 1..Len(wire') /\ wire'[k - 1] = wire[k]
    <2>1. Len(wire) \in Nat \ {0} /\ Len(wire') = Len(wire) - 1
      BY <1>0, <1>1
    <2>2. \A k \in 1..Len(wire') : k + 1 \in 1..Len(wire) /\ wire'[k] = wire[k + 1]
      BY <1>0, <1>1, <2>1
    <2>3. \A k \in 1..Len(wire) : k # 1 => k - 1 \in 1..Len(wire') /\ wire'[k - 1] = wire[k]
      BY <1>0, <1>1, <2>1
    <2>. QED
      BY <2>1, <2>2, <2>3
  <1>3. Parting => Parting'
    <2>1. ASSUME Parting
          PROVE  Parting'
      <3>1. m.type \in {"unsubscribe", "unsubscribed"}
        BY <1>0, <1>2, <2>1 DEF Parting
      <3>2. \A k \in 1..Len(wire') : wire'[k].type \in {"unsubscribe", "unsubscribed"}
        BY <1>2, <2>1 DEF Parting
      <3>. QED
        BY <1>1, <3>1, <3>2 DEF Parting
    <2>. QED
      BY <2>1
  <1>4. /\ Alone'
        /\ \A c \in Client : job[c].at # "idle" =>
             /\ job[c].at = "push" /\ job[c].type = "remove"
             /\ sub'[UserOf[c]] = "absent"
        /\ Flight = Stanzas(wire) \cup OfLink
        /\ Flight' = Stanzas(wire') \cup OfLink'
        /\ Known'
    <2>1. \A v \in User : Out(sub'[v]) # "no" => v \in asked
      BY <1>1 DEF Calm, Known
    <2>. QED
      BY <1>0, <1>1, <1>3, <2>1, PeerCalm
  <1>5. OfLink = {} /\ OfLink' = {m}
    <2>1. OfLink = {}
      BY <1>0 DEF OfLink
    <2>2. OfLink' = {[type |-> m.type, to |-> u]}
      BY <1>1 DEF OfLink
    <2>3. m = [type |-> m.type, to |-> u]
      BY <1>0 DEF Stanza
    <2>. QED
      BY <2>1, <2>2, <2>3
  <1>6. Flight' = Flight
    <2>1. Stanzas(wire) = Stanzas(wire') \cup {m}
      <3>0. m = wire[1]
        BY <1>0
      <3>. HIDE DEF m
      <3>1. Stanzas(wire) \subseteq Stanzas(wire') \cup {m}
        BY <1>2, <3>0 DEF Stanzas
      <3>2. Stanzas(wire') \subseteq Stanzas(wire) /\ m \in Stanzas(wire)
        BY <1>2, <3>0 DEF Stanzas
      <3>. QED
        BY <3>1, <3>2
    <2>. QED
      BY <1>4, <1>5, <2>1
  <1>7. OncePerSubscriber'
    <2>1. \A j, k \in 1..Len(wire) : Subscriber(wire[j]) = Subscriber(wire[k]) => j = k
      BY DEF Calm, OncePerSubscriber
    <2>2. ASSUME NEW j \in 1..Len(wire'), NEW k \in 1..Len(wire'),
                 Subscriber(wire'[j]) = Subscriber(wire'[k])
          PROVE  j = k
      <3>1. j + 1 = k + 1
        BY <1>2, <2>1, <2>2
      <3>. QED
        BY <3>1
    <2>3. ASSUME NEW k \in 1..Len(wire'), Subscriber(wire'[k]) = Subscriber(m)
          PROVE  FALSE
      <3>1. k + 1 = 1
        BY <1>0, <1>2, <2>1, <2>3
      <3>. QED
        BY <3>1
    <2>. QED
      BY <1>5, <2>2, <2>3 DEF OncePerSubscriber
  <1>8. Fresh'
    BY <1>1, <1>4 DEF Fresh
  <1>9. Shown'
    <2>1. \A v \in User : PushDue(v)' <=> PushDue(v)
      BY <1>0, <1>1 DEF PushDue
    <2>. QED
      BY <1>1, <2>1, SubscriptionsAssumption DEF Calm, Shown, TInv, TypeOK
  <1>10. \A v \in User : Related(v)'
    BY <1>1, <1>6, RelatedKept DEF Calm
  <1>. QED
    BY <1>4, <1>7, <1>8, <1>9, <1>10 DEF Calm

LEMMA AddPeerCalm ==
  ASSUME TInv, TInv', Calm, AddPeer \/ RereadPeer
  PROVE  Calm'
  <1>u. PICK u \in User : u = link.user
    BY DEF TInv, TypeOK, JobState
  <1>. DEFINE p == Peer[u]
              m == [type |-> "subscribe", to |-> u]
  <1>0. /\ link \in JobState /\ u = link.user /\ p \in User /\ Peer[p] = u /\ p # u
        /\ sub \in [User -> Row] /\ wire \in Seq(Stanza)
        /\ link.at \in {"add", "reread"} /\ link.type = "subscribe"
        /\ \A v \in User : Peer[v] \in User /\ Peer[Peer[v]] = v
    BY <1>u, SubscriptionsAssumption
       DEF TInv, TypeOK, JobState, Staged, AddPeer, RereadPeer
  <1>1. /\ UNCHANGED <<online, known, job, wire, view, asked>>
        /\ link'.type = "subscribe" /\ link'.user = u
        /\ \/ /\ AddPeer /\ link'.at = "reread" /\ link.at = "add"
              /\ sub[u] = "absent" /\ sub' = [sub EXCEPT ![u] = "NPI"]
           \/ /\ RereadPeer /\ link'.at = "write" /\ link'.seen = sub[u]
              /\ sub[u] = "NPI" /\ sub' = sub
    <2>1. CASE AddPeer
      <3>1. sub[u] = "absent"
        BY <1>u, <2>1 DEF Calm, Fresh, AddPeer
      <3>2. /\ UNCHANGED <<online, known, job, wire, view, asked>> /\ link.at = "add"
            /\ link' = [link EXCEPT !.at = "reread"] /\ sub' = [sub EXCEPT ![u] = "NPI"]
        BY <1>u, <2>1, <3>1 DEF AddPeer, counts, Inserted
      <3>. QED
        BY <1>0, <2>1, <3>1, <3>2, JobFields
    <2>2. CASE RereadPeer
      <3>1. sub[u] = "NPI"
        BY <1>u, <2>2 DEF Calm, Fresh, RereadPeer
      <3>2. /\ UNCHANGED <<online, known, job, wire, view, asked, sub>>
            /\ link' = [link EXCEPT !.at = "write", !.seen = sub[u]]
        BY <1>u, <2>2, <3>1 DEF RereadPeer, counts
      <3>. QED
        BY <1>0, <2>2, <3>1, <3>2, JobFields
    <2>. QED
      BY <1>0, <2>1, <2>2
  <1>2. \A v \in User : /\ Out(sub'[v]) = Out(sub[v])
                        /\ Primary(sub'[v]) = Primary(sub[v])
                        /\ v # u => sub'[v] = sub[v]
    BY <1>0, <1>1 DEF Out, Primary
  <1>3. ~Parting
    BY <1>0 DEF Parting
  <1>4. /\ Alone' /\ Known'
        /\ \A c \in Client : job[c].at # "idle" =>
             /\ job[c].at = "push" /\ job[c].type = "remove"
             /\ sub'[UserOf[c]] = "absent"
        /\ Flight = Stanzas(wire) \cup OfLink
        /\ Flight' = Stanzas(wire') \cup OfLink'
    <2>1. \A v \in User : Out(sub'[v]) # "no" => v \in asked
      BY <1>2 DEF Calm, Known
    <2>. QED
      BY <1>0, <1>1, <1>3, <2>1, PeerCalm
  <1>5. OfLink = {m} /\ OfLink' = {m}
    BY <1>0, <1>1 DEF OfLink
  <1>6. Flight' = Flight /\ m \in Flight
    BY <1>1, <1>4, <1>5 DEF Stanzas
  <1>7. OncePerSubscriber'
    BY <1>1, <1>5 DEF Calm, OncePerSubscriber
  <1>8. Fresh'
    BY <1>0, <1>1, <1>4 DEF Fresh
  <1>9. Shown'
    <2>1. \A v \in User : PushDue(v)' <=> PushDue(v)
      BY <1>0, <1>1 DEF PushDue
    <2>. QED
      BY <1>1, <1>2, <2>1, SubscriptionsAssumption DEF Calm, Shown, TInv, TypeOK
  <1>10. \A v \in User : Related(v)'
    <2>1. CASE RereadPeer
      <3>1. sub' = sub
        BY <1>0, <1>1, <2>1 DEF RereadPeer, AddPeer
      <3>. QED
        BY <1>1, <1>6, <3>1, RelatedKept DEF Calm
    <2>2. CASE AddPeer
      <3>1. sub[u] = "absent" /\ sub'[u] = "NPI"
        BY <1>0, <1>1, <2>2 DEF RereadPeer, AddPeer
      (* p has asked: what the row says now.                                *)
      <3>2. Subscriber(m) = p
        BY <1>0 DEF Subscriber
      <3>3. Out(sub[p]) = "pending"
        <4>1. Consistent(m, Out(sub[p]), In(sub[u]), u \in known)
          BY <1>0, <1>6, <3>2 DEF Calm, Related
        <4>2. In(sub[u]) = "no"
          BY <3>1 DEF In
        <4>. QED
          BY <4>1, <4>2 DEF Consistent
      <3>4. In(sub'[u]) = "pending" /\ Out(sub'[p]) = "pending"
        BY <1>0, <1>2, <3>1, <3>3 DEF In
      <3>5. Related(p)'
        <4>1. ASSUME NEW x \in Flight, Subscriber(x) = p
              PROVE  x = m
          BY <1>4, <1>5, <3>2, <4>1 DEF Stanzas, Calm, OncePerSubscriber
        <4>2. Consistent(m, "pending", "pending", (u \in known)')
          BY DEF Consistent
        <4>3. \A x \in Flight' : Subscriber(x) = p =>
                Consistent(x, "pending", "pending", (u \in known)')
          BY <1>6, <4>1, <4>2
        <4>. QED
          BY <1>0, <3>4, <4>3 DEF Related
      <3>6. ASSUME NEW v \in User, v # p
            PROVE  Related(v)'
        <4>1. Peer[v] # u
          BY <1>0, <3>6
        <4>2. Out(sub'[v]) = Out(sub[v]) /\ sub'[Peer[v]] = sub[Peer[v]]
          BY <1>0, <1>2, <4>1
        <4>. QED
          BY <1>1, <1>6, <4>2 DEF Calm, Related
      <3>. QED
        BY <3>5, <3>6
    <2>. QED
      BY <1>1, <2>1, <2>2
  <1>. QED
    BY <1>4, <1>7, <1>8, <1>9, <1>10 DEF Calm

(* The link writes what it makes of a stanza of the other server: with its  *)
(* answer, if it has one to send, the two rosters are as far apart as before*)
(* or agree.                                                                *)
LEMMA WritePeerCalm ==
  ASSUME TInv, TInv', Calm, WritePeer
  PROVE  Calm'
  <1>u. PICK u \in User : u = link.user
    BY DEF TInv, TypeOK, JobState
  <1>t. PICK t \in Type : t = link.type
    BY DEF TInv, Staged, WritePeer
  <1>s. PICK s \in Row : s = sub[u]
    BY DEF TInv, TypeOK
  <1>. DEFINE p == Peer[u]
              n == After(S2SMove, t, s)
              answer == [type |-> Reply(t, s), to |-> p]
              m == [type |-> t, to |-> u]
              about == IF t \in {"subscribe", "unsubscribe"} THEN p ELSE u
  <1>0. /\ p \in User /\ Peer[p] = u /\ p # u
        /\ link \in JobState /\ sub \in [User -> Row] /\ wire \in Seq(Stanza)
        /\ link.at = "write" /\ link.seen = s /\ (t = "subscribe" => s # "absent")
        /\ \A v \in User : Peer[v] \in User /\ Peer[Peer[v]] = v
    <2>1. link.at = "write" /\ Fresh
      BY DEF Calm, WritePeer
    <2>2. link.seen = s /\ (t = "subscribe" => s # "absent")
      BY <1>u, <1>t, <1>s, <2>1 DEF Fresh
    <2>. QED
      BY <2>1, <2>2, SubscriptionsAssumption DEF TInv, TypeOK
  <1>1. /\ UNCHANGED <<online, known, job, wire, view, asked>>
        /\ sub' = [sub EXCEPT ![u] = n] /\ n \in Row
    <2>1. /\ UNCHANGED <<online, known, job, wire, view, asked>>
          /\ sub' = IF Moves(S2SMove, t, s) THEN Updated(u, n) ELSE sub
      BY <1>u, <1>t, <1>0 DEF WritePeer, counts
    <2>2. n \in Row /\ (Moves(S2SMove, t, s) => s # "absent")
          /\ (~Moves(S2SMove, t, s) => n = s)
      BY S2STable DEF State, After
    <2>. HIDE DEF n
    <2>. QED
      BY <1>0, <1>s, <2>1, <2>2 DEF Updated
  (* Where the link stands next.                                            *)
  <1>2. /\ link'.at \in {"idle", "push", "route"}
        /\ link'.at # "idle" => link'.type = t /\ link'.user = u /\ link'.seen = s
        /\ t = "subscribe" => link'.at = IF In(s) = "yes" THEN "route" ELSE "idle"
        /\ t # "subscribe" => link'.at = IF Moves(S2SMove, t, s) THEN "push" ELSE "idle"
    <2>1. link' = CASE t = "subscribe" /\ Reply(t, s) # "none" -> [link EXCEPT !.at = "route"]
                    [] t # "subscribe" /\ Moves(S2SMove, t, s) -> [link EXCEPT !.at = "push"]
                    [] OTHER -> Idle(u)
      BY <1>u, <1>t, <1>0, Zenon DEF WritePeer
    <2>2. Idle(u).at = "idle"
      BY DEF Idle
    <2>3. \A a : LET l == [link EXCEPT !.at = a]
                 IN l.at = a /\ l.type = t /\ l.user = u /\ l.seen = s
      BY <1>u, <1>t, <1>0, JobFields
    <2>4. CASE t = "subscribe" /\ Reply(t, s) # "none"
      <3>1. In(s) = "yes" /\ link' = [link EXCEPT !.at = "route"]
        BY <2>1, <2>4, MovesTable
      <3>. QED
        BY <2>3, <2>4, <3>1
    <2>5. CASE t # "subscribe" /\ Moves(S2SMove, t, s)
      <3>1. link' = [link EXCEPT !.at = "push"]
        BY <2>1, <2>5
      <3>. QED
        BY <2>3, <2>5, <3>1
    <2>6. CASE ~(t = "subscribe" /\ Reply(t, s) # "none")
               /\ ~(t # "subscribe" /\ Moves(S2SMove, t, s))
      <3>1. link' = Idle(u)
        BY <2>1, <2>6
      <3>2. t = "subscribe" => In(s) # "yes"
        BY <2>6, MovesTable
      <3>. QED
        BY <2>2, <2>6, <3>1, <3>2
    <2>. QED
      BY <2>4, <2>5, <2>6
  (* What becomes of the row, by the stanza.                                *)
  <1>3. /\ t = "subscribe" => /\ Out(n) = Out(s)
                             /\ In(n) = IF In(s) = "no" THEN "pending" ELSE In(s)
        /\ t = "subscribed" => /\ In(n) = In(s)
                              /\ Out(n) = IF Out(s) = "pending" THEN "yes" ELSE Out(s)
        /\ t = "unsubscribe" => Out(n) = Out(s) /\ In(n) = "no"
        /\ t = "unsubscribed" => In(n) = In(s) /\ Out(n) = "no"
        /\ s = "absent" => n = "absent"
        /\ ~Moves(S2SMove, t, s) => n = s
    BY <1>0, S2STable DEF After, State
  <1>4. \A v \in User : sub'[v] = IF v = u THEN n ELSE sub[v]
    BY <1>0, <1>1
  <1>. HIDE DEF n
  <1>5. OfLink = {m}
    BY <1>0, <1>u, <1>t DEF OfLink
  <1>6. OfLink' = IF /\ link'.at # "idle" /\ Reply(t, s) # "none"
                     /\ (link'.at = "push" => u \in known)
                  THEN {answer} ELSE {}
    BY <1>1, <1>2 DEF OfLink
  <1>7. Subscriber(m) = about /\ (Reply(t, s) # "none" => Subscriber(answer) = about)
    BY <1>0, MovesTable DEF Subscriber, Type
  <1>8. /\ Alone' /\ Known'
        /\ \A c \in Client : job[c].at # "idle" =>
             /\ job[c].at = "push" /\ job[c].type = "remove"
             /\ sub'[UserOf[c]] = "absent"
        /\ Flight = Stanzas(wire) \cup OfLink
        /\ Flight' = Stanzas(wire) \cup OfLink'
    <2>1. Parting => Parting'
      BY <1>0, <1>1, <1>2, <1>t DEF Parting
    <2>2. \A v \in User : sub[v] = "absent" => sub'[v] = "absent"
      BY <1>3, <1>4, <1>s
    <2>3. \A v \in User : Out(sub'[v]) # "no" => v \in asked
      <3>1. Out(n) # "no" => Out(s) # "no"
        BY <1>3 DEF Type
      <3>. QED
        BY <1>4, <1>s, <3>1 DEF Calm, Known
    <2>4. Stanzas(wire') = Stanzas(wire)
      BY <1>1
    <2>. QED
      BY <1>0, <1>1, <2>1, <2>2, <2>3, <2>4, PeerCalm
  <1>9. OncePerSubscriber'
    BY <1>1, <1>5, <1>6, <1>7 DEF Calm, OncePerSubscriber
  <1>10. Fresh'
    <2>1. link'.at \in {"push", "route"} =>
            sub'[link'.user] = After(S2SMove, link'.type, link'.seen)
      BY <1>2, <1>4 DEF n
    <2>. QED
      BY <1>1, <1>2, <1>8, <2>1 DEF Fresh
  <1>11. Shown'
    <2>1. \A v \in User : PushDue(v) => PushDue(v)'
      BY <1>0, <1>1 DEF PushDue
    <2>2. PushDue(u)' \/ Primary(n) = Primary(s)
      <3>1. CASE t = "subscribe"
        <4>1. Out(n) = Out(s) /\ (In(n) = "yes" <=> In(s) = "yes")
          BY <1>3, <3>1
        <4>. QED
          BY <1>1, <4>1, PrimaryHalves
      <3>2. CASE t # "subscribe" /\ ~Moves(S2SMove, t, s)
        BY <1>3, <3>2
      <3>3. CASE t # "subscribe" /\ Moves(S2SMove, t, s)
        BY <1>2, <3>3 DEF PushDue
      <3>. QED
        BY <3>1, <3>2, <3>3
    <2>3. \A d \in online : UserOf[d] \in User
      BY SubscriptionsAssumption DEF TInv, TypeOK
    <2>. QED
      BY <1>1, <1>4, <1>s, <2>1, <2>2, <2>3 DEF Calm, Shown
  <1>12. \A v \in User : Related(v)'
    <2>1. \A x \in Stanzas(wire) : Subscriber(x) # about
      BY <1>5, <1>7 DEF Calm, OncePerSubscriber, Stanzas
    (* Nothing changes for the other subscription.                          *)
    <2>2. ASSUME NEW v \in User, v # about
          PROVE  Related(v)'
      <3>1. \A x : x \in Flight' /\ Subscriber(x) = v <=> x \in Flight /\ Subscriber(x) = v
        BY <1>5, <1>6, <1>7, <1>8, <2>2
      <3>2. Out(sub'[v]) = Out(sub[v])
        <4>1. v = u => Out(n) = Out(s)
          BY <1>3, <2>2 DEF Type
        <4>. QED
          BY <1>4, <1>s, <4>1
      <3>3. In(sub'[Peer[v]]) = In(sub[Peer[v]])
        <4>1. Peer[v] = u => In(n) = In(s)
          <5>1. Peer[v] = u => v = p
            BY <1>0
          <5>. QED
            BY <1>3, <2>2, <5>1 DEF Type
        <4>. QED
          BY <1>0, <1>4, <1>s, <4>1
      <3>. QED
        BY <1>1, <3>1, <3>2, <3>3 DEF Calm, Related
    (* The one the stanza is about: its answer is all there is.             *)
    <2>3. /\ about \in User
          /\ Consistent(m, Out(sub[about]), In(sub[Peer[about]]), Peer[about] \in known)
      BY <1>0, <1>5, <1>7, <1>8 DEF Calm, Related
    <2>4. ASSUME IF OfLink' = {answer}
                 THEN Consistent(answer, Out(sub'[about]), In(sub'[Peer[about]]),
                                 Peer[about] \in known)
                 ELSE Out(sub'[about]) = In(sub'[Peer[about]])
          PROVE  \A v \in User : Related(v)'
      <3>1. \A x \in Flight' : Subscriber(x) = about => x \in OfLink'
        BY <1>8, <2>1
      <3>2. OfLink' = {answer} \/ OfLink' = {}
        BY <1>6
      <3>3. OfLink' = {answer} => answer \in Flight' /\ Subscriber(answer) = about
        BY <1>6, <1>7, <1>8
      <3>. HIDE DEF answer, about
      <3>4. CASE OfLink' = {answer}
        BY <1>1, <2>2, <2>4, <3>1, <3>3, <3>4 DEF Related
      <3>5. CASE OfLink' # {answer}
        BY <1>1, <2>2, <2>4, <3>1, <3>2, <3>5 DEF Related
      <3>. QED
        BY <3>4, <3>5
    <2>5. CASE t = "subscribe"
      <3>1. /\ about = p /\ Peer[about] = u
            /\ Reply(t, s) = IF In(s) = "yes" THEN "subscribed" ELSE "none"
        BY <1>0, <2>5, MovesTable
      <3>2. (In(s) = "no" /\ Out(sub[p]) = "pending") \/ (In(s) = Out(sub[p]) /\ In(s) # "no")
        BY <1>s, <2>3, <2>5, <3>1 DEF Consistent
      <3>3. sub'[p] = sub[p] /\ sub'[u] = n
        BY <1>0, <1>4
      <3>4. CASE In(s) = "yes"
        <4>1. Consistent(answer, Out(sub'[p]), In(sub'[u]), u \in known)
          BY <1>3, <2>5, <3>1, <3>2, <3>3, <3>4 DEF Consistent
        <4>2. OfLink' = {answer}
          BY <1>2, <1>6, <2>5, <3>1, <3>4
        <4>. QED
          BY <2>4, <3>1, <4>1, <4>2
      <3>5. CASE In(s) # "yes"
        <4>1. Out(sub'[p]) = In(sub'[u])
          BY <1>3, <2>5, <3>2, <3>3, <3>5
        <4>2. OfLink' = {}
          BY <1>2, <1>6, <2>5, <3>1, <3>5
        <4>. QED
          BY <2>4, <3>1, <4>1, <4>2
      <3>. QED
        BY <3>4, <3>5
    <2>6. CASE t = "unsubscribe"
      <3>1. /\ about = p /\ Peer[about] = u
            /\ Reply(t, s) = (IF In(s) = "no" THEN "none" ELSE "unsubscribed")
            /\ Moves(S2SMove, t, s) <=> In(s) # "no"
        BY <1>0, <2>6, MovesTable
      <3>2. \/ Out(sub[p]) = "no"
            \/ Out(sub[p]) = "pending" /\ In(s) = "pending" /\ u \in known
        BY <1>s, <2>3, <2>6, <3>1 DEF Consistent
      <3>3. sub'[p] = sub[p] /\ sub'[u] = n /\ In(n) = "no"
        BY <1>0, <1>3, <1>4, <2>6
      <3>4. CASE In(s) # "no" /\ u \in known
        <4>1. Consistent(answer, Out(sub'[p]), In(sub'[u]), u \in known)
          BY <3>1, <3>3, <3>4 DEF Consistent
        <4>2. OfLink' = {answer}
          BY <1>2, <1>6, <2>6, <3>1, <3>4
        <4>. QED
          BY <2>4, <3>1, <4>1, <4>2
      <3>5. CASE ~(In(s) # "no" /\ u \in known)
        <4>1. Out(sub'[p]) = In(sub'[u])
          BY <3>2, <3>3, <3>5
        <4>2. OfLink' = {}
          BY <1>2, <1>6, <2>6, <3>1, <3>5
        <4>. QED
          BY <2>4, <3>1, <4>1, <4>2
      <3>. QED
        BY <3>4, <3>5
    <2>7. CASE t \in {"subscribed", "unsubscribed"}
      <3>1. about = u /\ Peer[about] = p /\ Reply(t, s) = "none"
        BY <1>0, <2>7, MovesTable
      <3>2. IF t = "subscribed" THEN In(sub[p]) = "yes" /\ Out(s) \in {"pending", "yes"}
            ELSE In(sub[p]) = "no"
        BY <1>s, <2>3, <2>7, <3>1 DEF Consistent
      <3>3. Out(sub'[u]) = In(sub'[p])
        BY <1>0, <1>3, <1>4, <2>7, <3>2
      <3>4. OfLink' = {}
        BY <1>6, <3>1
      <3>. QED
        BY <2>4, <3>1, <3>3, <3>4
    <2>. QED
      BY <2>5, <2>6, <2>7 DEF Type
  <1>. QED
    BY <1>8, <1>9, <1>10, <1>11, <1>12 DEF Calm

(* A push of the link: the row is as it wrote it.  For a user nobody has    *)
(* logged in as, there is no client to push to and no answer.               *)
LEMMA PushPeerCalm ==
  ASSUME TInv, TInv', Calm, PushPeer
  PROVE  Calm'
  <1>u. PICK u \in User : u = link.user
    BY DEF TInv, TypeOK, JobState
  <1>0. /\ link \in JobState /\ sub \in [User -> Row] /\ link.at = "push"
        /\ sub[u] = After(S2SMove, link.type, link.seen)
        /\ view \in [Client -> {"none", "to", "from", "both"}]
        /\ UNCHANGED <<sub, online, known, job, wire, asked>>
    BY <1>u DEF TInv, TypeOK, PushPeer, Calm, Fresh, counts
  <1>1. \/ /\ u \in known /\ view' = Pushed(u, sub[u])
           /\ link' = IF Reply(link.type, link.seen) = "none" THEN Idle(u)
                      ELSE [link EXCEPT !.at = "route"]
        \/ u \notin known /\ view' = view /\ link' = Idle(u)
    BY <1>u, <1>0 DEF PushPeer
  <1>2. \/ link'.at = "idle" /\ (u \in known => Reply(link.type, link.seen) = "none")
        \/ /\ link'.at = "route" /\ u \in known /\ Reply(link.type, link.seen) # "none"
           /\ link'.type = link.type /\ link'.user = link.user /\ link'.seen = link.seen
    <2>1. CASE link' = Idle(u)
      <3>1. u \in known => Reply(link.type, link.seen) = "none"
        <4>1. CASE u \in known /\ Reply(link.type, link.seen) # "none"
          <5>1. link' = [link EXCEPT !.at = "route"]
            BY <1>1, <4>1
          <5>. QED
            BY <1>0, <2>1, <5>1, JobFields DEF Idle
        <4>. QED
          BY <4>1
      <3>. QED
        BY <2>1, <3>1 DEF Idle
    <2>2. CASE link' # Idle(u)
      <3>1. /\ u \in known /\ Reply(link.type, link.seen) # "none"
            /\ link' = [link EXCEPT !.at = "route"]
        BY <1>1, <2>2
      <3>. QED
        BY <1>0, <3>1, JobFields
    <2>. QED
      BY <2>1, <2>2
  <1>3. /\ Alone' /\ Known'
        /\ \A c \in Client : job[c].at # "idle" =>
             /\ job[c].at = "push" /\ job[c].type = "remove"
             /\ sub'[UserOf[c]] = "absent"
        /\ Flight = Stanzas(wire) \cup OfLink
        /\ Flight' = Stanzas(wire') \cup OfLink'
    <2>1. Parting => Parting'
      BY <1>0, <1>2 DEF Parting
    <2>2. \A v \in User : Out(sub'[v]) # "no" => v \in asked
      BY <1>0 DEF Calm, Known
    <2>. QED
      BY <1>0, <2>1, <2>2, PeerCalm
  <1>4. OfLink' = OfLink
    <2>1. CASE link'.at = "idle"
      <3>1. ~(u \in known /\ Reply(link.type, link.seen) # "none")
        BY <1>2, <2>1
      <3>. QED
        BY <1>u, <1>0, <2>1, <3>1 DEF OfLink
    <2>2. CASE link'.at # "idle"
      BY <1>u, <1>0, <1>2, <2>2 DEF OfLink
    <2>. QED
      BY <2>1, <2>2
  <1>5. Flight' = Flight
    <2>1. Stanzas(wire') = Stanzas(wire)
      BY <1>0
    <2>. QED
      BY <1>3, <1>4, <2>1
  <1>6. OncePerSubscriber'
    BY <1>0, <1>4 DEF Calm, OncePerSubscriber
  <1>7. Fresh'
    <2>1. link'.at = "route" => sub'[link'.user] = After(S2SMove, link'.type, link'.seen)
      BY <1>u, <1>0, <1>2
    <2>. QED
      BY <1>0, <1>2, <1>3, <2>1 DEF Fresh
  <1>8. Shown'
    <2>1. ASSUME NEW d \in online, ~PushDue(UserOf[d])', job[d].at # "result"
          PROVE  view'[d] = Primary(sub[UserOf[d]])
      <3>0. d \in Client /\ UserOf[d] \in User /\ UserOf[d] \in known
        BY SubscriptionsAssumption DEF TInv, TypeOK, Calm, Known
      <3>1. CASE UserOf[d] = u
        <4>1. view' = Pushed(u, sub[u])
          BY <1>1, <3>0, <3>1
        <4>. QED
          BY <3>0, <3>1, <4>1 DEF Pushed
      <3>2. CASE UserOf[d] # u
        <4>1. ~PushDue(UserOf[d])
          BY <1>u, <1>0, <2>1, <3>2 DEF PushDue
        <4>2. view[d] = Primary(sub[UserOf[d]])
          BY <2>1, <4>1 DEF Calm, Shown
        <4>3. view'[d] = view[d]
          BY <1>1, <3>0, <3>2 DEF Pushed
        <4>. QED
          BY <4>2, <4>3
      <3>. QED
        BY <3>1, <3>2
    <2>. QED
      BY <1>0, <2>1 DEF Shown
  <1>9. \A v \in User : Related(v)'
    BY <1>0, <1>5, RelatedKept DEF Calm
  <1>. QED
    BY <1>3, <1>6, <1>7, <1>8, <1>9 DEF Calm

(* The answer goes on the wire, after what is there of other subscriptions. *)
LEMMA RoutePeerCalm ==
  ASSUME TInv, TInv', Calm, RoutePeer
  PROVE  Calm'
  <1>. DEFINE m == [type |-> Reply(link.type, link.seen), to |-> Peer[link.user]]
  <1>0. /\ wire \in Seq(Stanza) /\ link.at = "route" /\ link.type \in Type
        /\ link.seen \in Row
        /\ Reply(link.type, link.seen) # "none" /\ wire' = Append(wire, m)
        /\ UNCHANGED <<sub, online, known, job, view, asked>> /\ link'.at = "idle"
    BY DEF TInv, TypeOK, JobState, Staged, RoutePeer, counts, Idle
  <1>1. OfLink = {m} /\ OfLink' = {}
    BY <1>0 DEF OfLink
  <1>2. Reply(link.type, link.seen) # "subscribe"
        /\ (link.type \in {"unsubscribe", "unsubscribed"} =>
              Reply(link.type, link.seen) = "unsubscribed")
    BY <1>0 DEF Reply
  <1>3. m.type = Reply(link.type, link.seen)
    OBVIOUS
  <1>. HIDE DEF m
  <1>4. /\ Len(wire') = Len(wire) + 1 /\ wire'[Len(wire) + 1] = m /\ Len(wire) \in Nat
        /\ \A k \in 1..Len(wire) : wire'[k] = wire[k]
    <2>. SUFFICES ASSUME NEW x, x = m
                  PROVE  /\ Len(wire') = Len(wire) + 1 /\ wire'[Len(wire) + 1] = x
                         /\ Len(wire) \in Nat
                         /\ \A k \in 1..Len(wire) : wire'[k] = wire[k]
      OBVIOUS
    <2>. QED
      BY <1>0
  <1>5. \A k \in 1..Len(wire') :
          (k \in 1..Len(wire) /\ wire'[k] = wire[k]) \/ (k = Len(wire) + 1 /\ wire'[k] = m)
    BY <1>4
  <1>6. /\ Alone' /\ Known'
        /\ \A c \in Client : job[c].at # "idle" =>
             /\ job[c].at = "push" /\ job[c].type = "remove"
             /\ sub'[UserOf[c]] = "absent"
        /\ Flight = Stanzas(wire) \cup OfLink
        /\ Flight' = Stanzas(wire') \cup OfLink'
    <2>1. Parting => Parting'
      <3>1. Parting => m.type \in {"unsubscribe", "unsubscribed"}
        BY <1>0, <1>2, <1>3 DEF Parting
      <3>. QED
        BY <1>0, <1>5, <3>1 DEF Parting
    <2>2. \A v \in User : Out(sub'[v]) # "no" => v \in asked
      BY <1>0 DEF Calm, Known
    <2>. QED
      BY <1>0, <2>1, <2>2, PeerCalm
  <1>7. Flight' = Flight
    <2>1. Stanzas(wire') \subseteq Stanzas(wire) \cup {m}
      BY <1>5 DEF Stanzas
    <2>2. Stanzas(wire) \subseteq Stanzas(wire')
      BY <1>4 DEF Stanzas
    <2>3. m \in Stanzas(wire')
      <3>1. Len(wire) + 1 \in 1..Len(wire')
        BY <1>4
      <3>. QED
        BY <1>4, <3>1 DEF Stanzas
    <2>. QED
      BY <1>1, <1>6, <2>1, <2>2, <2>3
  <1>8. OncePerSubscriber'
    <2>1. /\ \A j, k \in 1..Len(wire) : Subscriber(wire[j]) = Subscriber(wire[k]) => j = k
          /\ \A k \in 1..Len(wire) : Subscriber(wire[k]) # Subscriber(m)
      BY <1>1 DEF Calm, OncePerSubscriber
    <2>2. \A j, k \in 1..Len(wire') : Subscriber(wire'[j]) = Subscriber(wire'[k]) => j = k
      BY <1>5, <2>1
    <2>. QED
      BY <1>1, <2>2 DEF OncePerSubscriber
  <1>9. Fresh'
    BY <1>0, <1>6 DEF Fresh
  <1>10. Shown'
    <2>1. \A v \in User : PushDue(v)' <=> PushDue(v)
      BY <1>0 DEF PushDue
    <2>. QED
      BY <1>0, <2>1, SubscriptionsAssumption DEF Calm, Shown, TInv, TypeOK
  <1>11. \A v \in User : Related(v)'
    BY <1>0, <1>7, RelatedKept DEF Calm
  <1>. QED
    BY <1>6, <1>8, <1>9, <1>10, <1>11 DEF Calm

-----------------------------------------------------------------------------
LEMMA InitCalm == Init => Calm
  <1>. SUFFICES ASSUME Init PROVE Calm
    OBVIOUS
  <1>1. /\ Quiet /\ online = {} /\ asked = {}
        /\ \A u \in User : sub[u] = "absent"
    BY DEF Init, Quiet, Idle
  <1>2. Flight = {} /\ OfLink = {}
    BY <1>1, QuietFlight
  <1>3. Out("absent") = "no" /\ In("absent") = "no"
    BY DEF Out, In
  <1>4. Alone /\ Fresh /\ OncePerSubscriber /\ Shown
    BY <1>1, <1>2 DEF Alone, Fresh, OncePerSubscriber, Shown, Quiet
  <1>5. Known
    BY <1>1, <1>3 DEF Known, Quiet
  <1>6. \A u \in User : Related(u)
    BY <1>1, <1>2, <1>3, SubscriptionsAssumption DEF Related
  <1>. QED
    BY <1>4, <1>5, <1>6 DEF Calm

LEMMA NextCalm ==
  ASSUME TInv, TInv', CalmInv, [Next]_vars
  PROVE  CalmInv'
  <1>. SUFFICES ASSUME Undisturbed'
                PROVE  Calm'
    BY DEF CalmInv
  <1>1. CASE Restart
    <2>1. restarts' = restarts + 1 /\ restarts \in Nat
      BY <1>1 DEF Restart, TInv, TypeOK
    <2>. QED
      BY <2>1 DEF Undisturbed
  <1>2. CASE UNCHANGED vars
    <2>1. Calm
      BY <1>2 DEF CalmInv, Undisturbed, vars, counts
    <2>2. UNCHANGED <<sub, online, known, job, link, wire, view, asked>>
      BY <1>2 DEF vars, counts
    <2>3. Flight' = Flight /\ OfLink' = OfLink
      BY <2>2 DEF Flight, OfLink, OfJob, Stanzas
    <2>4. Alone' /\ Fresh' /\ Known'
      BY <2>1, <2>2 DEF Calm, Alone, Parting, Removing, Fresh, Known
    <2>5. OncePerSubscriber' /\ Shown'
      BY <2>1, <2>2, <2>3 DEF Calm, OncePerSubscriber, Shown, PushDue
    <2>6. \A v \in User : Related(v)'
      BY <2>1, <2>2, <2>3, RelatedKept DEF Calm
    <2>. QED
      BY <2>4, <2>5, <2>6 DEF Calm
  <1>3. ASSUME NEW c \in Client, Login(c) \/ \E t \in Type \cup {"remove"} : Request(c, t)
        PROVE  Calm'
    <2>1. calm' = (calm /\ Quiet) /\ restarts' = restarts
      BY <1>3 DEF Login, Request
    <2>2. Quiet /\ Calm
      BY <2>1 DEF Undisturbed, CalmInv
    <2>. QED
      BY <1>3, <2>2, LoginCalm, RequestCalm
  <1>4. ASSUME NEW c \in Client, Logout(c) \/ ClientStep(c)
        PROVE  Calm'
    <2>1. calm' = calm /\ restarts' = restarts
      BY <1>4 DEF Logout, ClientStep, RosterResult, AddContact, RereadContact,
                  WriteContact, PushContact, RouteContact, counts
    <2>2. Calm
      BY <2>1 DEF Undisturbed, CalmInv
    <2>. QED
      BY <1>4, <2>2, LogoutCalm, ResultCalm, AddContactCalm, WriteContactCalm,
         PushContactCalm, RemovedCalm, RouteContactCalm DEF ClientStep
  <1>5. CASE LinkStep
    <2>1. calm' = calm /\ restarts' = restarts
      BY <1>5 DEF LinkStep, Receive, AddPeer, RereadPeer, WritePeer, PushPeer, RoutePeer,
                  counts
    <2>2. Calm
      BY <2>1 DEF Undisturbed, CalmInv
    <2>. QED
      BY <1>5, <2>2, ReceiveCalm, AddPeerCalm, WritePeerCalm, PushPeerCalm, RoutePeerCalm
         DEF LinkStep
  <1>. QED
    BY <1>1, <1>2, <1>3, <1>4, <1>5 DEF Next, Handlers

(* Until requests overlap or the server is restarted, each stanza under way *)
(* makes up for what the two rosters differ in, and each client is shown its*)
(* row or about to be, at every point of the two handlers.                  *)
THEOREM CalmThroughout == Safety => []CalmInv
  <1>1. Init => CalmInv
    BY InitCalm DEF CalmInv
  <1>2. CalmInv /\ TInv /\ TInv' /\ [Next]_vars => CalmInv'
    BY NextCalm
  <1>. QED
    BY <1>1, <1>2, TypedAndStaged, PTL DEF Safety

(* Clients that wait for what they send to be handled at both ends, with no *)
(* restart in between, find that the two rosters agree once all is quiet:   *)
(* what one user has asked for or been given is what the other has been     *)
(* asked for or has given, whatever stanzas they send in whatever order,    *)
(* with the answers the servers give on their behalf (presence.py:284-867). *)
THEOREM RostersAgree == Safety => []Agreement
  <1>1. CalmInv => Agreement
    <2>. SUFFICES ASSUME Calm, Quiet, NEW u \in User
                  PROVE  Out(sub[u]) = In(sub[Peer[u]])
      BY DEF CalmInv, Agreement
    <2>. QED
      BY QuietFlight DEF Calm, Related
  <1>. QED
    BY <1>1, CalmThroughout, PTL

(* And every client that has asked for the roster then shows what it says of*)
(* the contact: a push follows every write that changes what is shown.      *)
THEOREM RosterShown == Safety => []ViewCurrent
  <1>1. TInv /\ CalmInv => ViewCurrent
    <2>. SUFFICES ASSUME TInv, Calm, Quiet, NEW c \in online
                  PROVE  view[c] = Primary(sub[UserOf[c]])
      BY DEF CalmInv, ViewCurrent
    <2>1. c \in Client /\ UserOf[c] \in User /\ job[c].at # "result"
      BY SubscriptionsAssumption DEF TInv, TypeOK, Quiet
    <2>. QED
      BY <2>1, QuietFlight DEF Calm, Shown
  <1>. QED
    BY <1>1, CalmThroughout, TypedAndStaged, PTL
=============================================================================
