--------------------------- MODULE PresenceProofs ---------------------------
(***************************************************************************)
(* Proofs about Presence, for every number of users and clients, whoever    *)
(* follows whom, and every number of sessions and presence stanzas; and, in *)
(* the second half, about Following: for whoever asks whom besides, and     *)
(* every number of answers, withdrawals and cancellations.                  *)
(***************************************************************************)
EXTENDS Following, SequenceLemmas, FiniteSetTheorems

-----------------------------------------------------------------------------
(* The inductive invariant.                                                 *)

Job == [at : {"idle", "act", "loop", "route"}, show : Presence, initial : BOOLEAN,
        seen : Nat, probed : Seq(User), items : Seq(Stanza), handlers : Nat]

Typed ==
  /\ granted = Follows /\ following = Follows
  /\ bound \subseteq Client
  /\ closing \in [Client -> BOOLEAN] /\ active \in [Client -> BOOLEAN]
  /\ last \in [Client -> Presence]
  /\ knows \in [Client -> [Client -> Presence]]
  /\ raised \in BOOLEAN
  /\ job \in [Client -> Job]
  /\ wire \in Seq(Stanza)

Followed(c, d) == <<UserOf[c], UserOf[d]>> \in Follows

(* A stanza goes where it may: presence to followers and to resources of the*)
(* same user, probes to those who are followed.                             *)
Legit(m) ==
  /\ m.from \in Client
  /\ \/ /\ m.kind = "presence" /\ m.show \in Show
        /\ UserAt(m.to) = UserOf[m.from] \/ <<UserAt(m.to), UserOf[m.from]>> \in Follows
     \/ /\ m.kind = "probe" /\ m.to \in User
        /\ <<UserOf[m.from], m.to>> \in Follows

(* A stanza that will tell c, if it is bound by then, of a presence of d.   *)
Tells(m, c, d) == m.kind = "presence" /\ m.from = d /\ m.to \in {c, UserOf[c]}

Probes(m, c, u) == m.kind = "probe" /\ m.from = c /\ m.to = u

Silent(w, c, d) == \A m \in ToSet(w) : ~Tells(m, c, d)

(* The last of these stanzas, if there is one, tells v.                     *)
LatestIs(w, c, d, v) ==
  \A i \in 1..Len(w) :
    Tells(w[i], c, d) /\ (\A j \in 1..Len(w) : i < j => ~Tells(w[j], c, d))
    => w[i].show = v

(* What c2s-presence has prepared for its route-server handlers: its        *)
(* presence for every follower.                                             *)
Prepared(d) ==
  /\ last[d] = job[d].show
  /\ \A m \in ToSet(job[d].items) :
       Legit(m) /\ m.from = d /\ (m.kind = "presence" => m.show = last[d])
  /\ \A v \in User : <<v, UserOf[d]>> \in Follows =>
       \E m \in ToSet(job[d].items) : m.kind = "presence" /\ m.to = v

Staged ==
  \A d \in Client :
    /\ d \notin bound => job[d].at = "idle"
    /\ job[d].at # "idle" => job[d].show \in Show
    /\ closing[d] /\ job[d].at # "idle" => job[d].show = "unavailable"
    /\ job[d].at = "loop" => \A v \in ToSet(job[d].probed) : <<UserOf[d], v>> \in Follows
    /\ job[d].at = "route" => Prepared(d)

OnlyLegit == \A m \in ToSet(wire) : Legit(m)

(* Nobody else is told anything.                                            *)
StrangersApart ==
  \A c, d \in Client : UserOf[c] # UserOf[d] /\ ~Followed(c, d) => knows[c][d] = "none"

Recorded(d) == d \in bound /\ last[d] # "none"

(* What a follower should show of d.                                        *)
Due(d) == IF Recorded(d) THEN last[d] ELSE "unavailable"

(* Unless a handler has raised, an inactive resource is unavailable.        *)
InactiveIsGone ==
  ~raised => \A d \in Client : ~active[d] =>
    IF job[d].at \in {"idle", "act"} THEN Due(d) = "unavailable"
                                     ELSE job[d].show = "unavailable"

(* Followers know, or are about to be told, what is due.                    *)
Current(c, d) ==
  /\ LatestIs(wire, c, d, Due(d))
  /\ c \in bound /\ Silent(wire, c, d) => knows[c][d] \in {"none", Due(d)}

NewsIsDue ==
  \A c, d \in Client :
    Followed(c, d) /\ job[d].at # "route" /\ (Recorded(d) \/ ~raised) => Current(c, d)

(* An active follower has been told something, or will be.                  *)
Probing(c, u) ==
  \/ job[c].at = "loop" /\ u \in ToSet(job[c].probed)
  \/ job[c].at = "route" /\ \E m \in ToSet(job[c].items) : Probes(m, c, u)

WillKnow(c, d) ==
  \/ knows[c][d] # "none"
  \/ ~Silent(wire, c, d)
  \/ \E m \in ToSet(wire) : Probes(m, c, UserOf[d])
  \/ Probing(c, UserOf[d])
  \/ job[d].at = "route"

NobodyForgotten ==
  ~raised => \A c, d \in Client :
    c \in bound /\ active[c] /\ Recorded(d) /\ Followed(c, d) => WillKnow(c, d)

IInv ==
  /\ Typed /\ Staged /\ OnlyLegit /\ StrangersApart
  /\ InactiveIsGone /\ NewsIsDue /\ NobodyForgotten

-----------------------------------------------------------------------------
(* What a follower is about to be told, as the wire gets shorter and longer.*)

LEMMA TailNews ==
  ASSUME NEW w \in Seq(Stanza), w # <<>>, NEW c, NEW d
  PROVE  /\ Silent(w, c, d) <=> ~Tells(Head(w), c, d) /\ Silent(Tail(w), c, d)
         /\ \A v : LatestIs(w, c, d, v) =>
              /\ LatestIs(Tail(w), c, d, v)
              /\ Tells(Head(w), c, d) /\ Silent(Tail(w), c, d) => Head(w).show = v
  <1>. DEFINE t == Tail(w)
  <1>1. /\ t \in Seq(Stanza) /\ Len(w) \in Nat \ {0} /\ Len(t) = Len(w) - 1
        /\ Head(w) = w[1] /\ \A k \in 1..Len(t) : t[k] = w[k + 1]
        /\ ToSet(w) = {Head(w)} \cup ToSet(t)
    BY TailFacts
  <1>. HIDE DEF t
  <1>2. Silent(w, c, d) <=> ~Tells(Head(w), c, d) /\ Silent(t, c, d)
    BY <1>1 DEF Silent
  <1>3. ASSUME NEW v, LatestIs(w, c, d, v)
        PROVE  LatestIs(t, c, d, v)
    <2>1. ASSUME NEW i \in 1..Len(t), Tells(t[i], c, d),
                 \A j \in 1..Len(t) : i < j => ~Tells(t[j], c, d)
          PROVE  t[i].show = v
      <3>1. i + 1 \in 1..Len(w) /\ t[i] = w[i + 1]
        BY <1>1
      <3>2. ASSUME NEW j \in 1..Len(w), i + 1 < j
            PROVE  ~Tells(w[j], c, d)
        <4>1. j - 1 \in 1..Len(t) /\ i < j - 1 /\ (j - 1) + 1 = j
          BY <1>1, <3>2
        <4>. QED
          BY <1>1, <2>1, <4>1
      <3>. QED
        BY <1>3, <2>1, <3>1, <3>2 DEF LatestIs
    <2>. QED
      BY <2>1 DEF LatestIs
  <1>4. ASSUME NEW v, LatestIs(w, c, d, v), Tells(Head(w), c, d), Silent(t, c, d)
        PROVE  Head(w).show = v
    <2>1. ASSUME NEW j \in 1..Len(w), 1 < j
          PROVE  ~Tells(w[j], c, d)
      <3>1. j - 1 \in 1..Len(t) /\ (j - 1) + 1 = j
        BY <1>1, <2>1
      <3>2. w[j] \in ToSet(t)
        BY <1>1, <3>1, ItemInToSet
      <3>. QED
        BY <1>4, <3>2 DEF Silent
    <2>2. 1 \in 1..Len(w)
      BY <1>1
    <2>. QED
      BY <1>1, <1>4, <2>1, <2>2 DEF LatestIs
  <1>. QED
    BY <1>2, <1>3, <1>4 DEF t

LEMMA MoreNews ==
  ASSUME NEW w \in Seq(Stanza), NEW x \in Seq(Stanza), NEW c, NEW d
  PROVE  /\ Silent(w \o x, c, d) <=> Silent(w, c, d) /\ Silent(x, c, d)
         /\ \A v : /\ \A m \in ToSet(x) : Tells(m, c, d) => m.show = v
                   /\ LatestIs(w, c, d, v) \/ ~Silent(x, c, d)
                   => LatestIs(w \o x, c, d, v)
  <1>. DEFINE y == w \o x
  <1>1. /\ y \in Seq(Stanza) /\ Len(w) \in Nat /\ Len(x) \in Nat /\ Len(y) = Len(w) + Len(x)
        /\ \A k \in 1..Len(y) : y[k] = IF k <= Len(w) THEN w[k] ELSE x[k - Len(w)]
        /\ ToSet(y) = ToSet(w) \cup ToSet(x)
    BY ConcatFacts
  <1>. HIDE DEF y
  <1>2. Silent(y, c, d) <=> Silent(w, c, d) /\ Silent(x, c, d)
    BY <1>1 DEF Silent
  <1>3. ASSUME NEW v, \A m \in ToSet(x) : Tells(m, c, d) => m.show = v,
               LatestIs(w, c, d, v) \/ ~Silent(x, c, d)
        PROVE  LatestIs(y, c, d, v)
    <2>1. ASSUME NEW i \in 1..Len(y), Tells(y[i], c, d),
                 \A j \in 1..Len(y) : i < j => ~Tells(y[j], c, d)
          PROVE  y[i].show = v
      <3>1. CASE i <= Len(w)
        <4>1. i \in 1..Len(w) /\ y[i] = w[i]
          BY <1>1, <3>1
        <4>2. ASSUME NEW k \in 1..Len(x)
              PROVE  ~Tells(x[k], c, d)
          <5>1. /\ k + Len(w) \in 1..Len(y) /\ i < k + Len(w) /\ ~(k + Len(w) <= Len(w))
                /\ (k + Len(w)) - Len(w) = k
            BY <1>1, <4>1
          <5>2. y[k + Len(w)] = x[k]
            BY <1>1, <5>1
          <5>. QED
            BY <2>1, <5>1, <5>2
        <4>3. Silent(x, c, d)
          BY <4>2, InToSet DEF Silent
        <4>4. ASSUME NEW j \in 1..Len(w), i < j
              PROVE  ~Tells(w[j], c, d)
          <5>1. j \in 1..Len(y) /\ y[j] = w[j]
            BY <1>1
          <5>. QED
            BY <2>1, <4>4, <5>1
        <4>. QED
          BY <1>3, <2>1, <4>1, <4>3, <4>4 DEF LatestIs
      <3>2. CASE ~(i <= Len(w))
        <4>1. i - Len(w) \in 1..Len(x) /\ y[i] = x[i - Len(w)]
          BY <1>1, <3>2
        <4>2. y[i] \in ToSet(x)
          BY <4>1, ItemInToSet
        <4>. QED
          BY <1>3, <2>1, <4>2
      <3>. QED
        BY <3>1, <3>2
    <2>. QED
      BY <2>1 DEF LatestIs
  <1>. QED
    BY <1>2, <1>3 DEF y

-----------------------------------------------------------------------------
LEMMA BindStep ==
  ASSUME IInv, NEW b \in Client, Bind(b)
  PROVE  IInv'
  <1>1. /\ b \notin bound /\ bound' = bound \cup {b} /\ job' = job /\ wire' = wire
        /\ raised' = raised /\ granted' = granted /\ following' = following
        /\ last'[b] = "none" /\ \A d \in Client \ {b} : last'[d] = last[d]
        /\ closing'[b] = FALSE /\ \A d \in Client \ {b} : closing'[d] = closing[d]
        /\ active'[b] = FALSE /\ \A d \in Client \ {b} : active'[d] = active[d]
        /\ \A d \in Client : knows'[b][d] = "none"
        /\ \A c \in Client \ {b} : knows'[c] = knows[c]
    BY DEF Bind, IInv, Typed, rosters
  <1>2. Typed'
    BY <1>1 DEF IInv, Typed, Bind, Presence
  <1>3. Staged'
    BY <1>1 DEF IInv, Staged, Prepared
  <1>4. OnlyLegit' /\ StrangersApart'
    BY <1>1 DEF IInv, OnlyLegit, StrangersApart
  <1>5. \A d \in Client : (Recorded(d)' <=> Recorded(d)) /\ Due(d)' = Due(d)
    BY <1>1 DEF Recorded, Due
  <1>6. InactiveIsGone'
    <2>1. job[b].at = "idle" /\ Due(b)' = "unavailable"
      BY <1>1 DEF IInv, Staged, Due, Recorded
    <2>2. ASSUME ~raised, NEW d \in Client, ~active'[d]
          PROVE  IF job[d].at \in {"idle", "act"} THEN Due(d)' = "unavailable"
                                                 ELSE job[d].show = "unavailable"
      <3>1. CASE d = b
        BY <2>1, <3>1
      <3>2. CASE d # b
        BY <1>1, <1>5, <2>2, <3>2 DEF IInv, InactiveIsGone
      <3>. QED
        BY <3>1, <3>2
    <2>. QED
      BY <1>1, <2>2 DEF InactiveIsGone
  <1>7. NewsIsDue'
    <2>1. ASSUME NEW c \in Client, NEW d \in Client,
                 Followed(c, d) /\ job[d].at # "route" /\ (Recorded(d)' \/ ~raised)
          PROVE  Current(c, d)'
      <3>1. Current(c, d)
        BY <1>5, <2>1 DEF IInv, NewsIsDue
      <3>. QED
        BY <1>1, <1>5, <3>1 DEF Current
    <2>. QED
      BY <1>1, <2>1 DEF NewsIsDue
  <1>8. NobodyForgotten'
    BY <1>1, <1>5 DEF IInv, NobodyForgotten, WillKnow, Probing
  <1>. QED
    BY <1>2, <1>3, <1>4, <1>6, <1>7, <1>8 DEF IInv

LEMMA SendPresenceStep ==
  ASSUME IInv, NEW b \in Client, NEW s \in Show, SendPresence(b, s)
  PROVE  IInv'
  <1>. DEFINE j == [Idle EXCEPT !.at = "act", !.show = s]
  <1>1. /\ b \in bound /\ ~closing[b] /\ job[b].at = "idle"
        /\ bound' = bound /\ closing' = closing /\ active' = active /\ last' = last
        /\ wire' = wire /\ raised' = raised /\ knows' = knows
        /\ granted' = granted /\ following' = following
    BY DEF SendPresence, rosters, tables
  <1>2. job' = [job EXCEPT ![b] = j]
    BY Zenon DEF SendPresence
  <1>3. j \in Job /\ j.at = "act" /\ j.show = s
    <2>1. Idle \in Job
      BY DEF Idle, Job, Presence
    <2>. QED
      BY <2>1 DEF Job, Presence
  <1>. HIDE DEF j
  <1>4. job'[b] = j /\ \A d \in Client \ {b} : job'[d] = job[d]
    BY <1>2 DEF IInv, Typed
  <1>5. Typed'
    BY <1>1, <1>2, <1>3 DEF IInv, Typed
  <1>6. Staged'
    BY <1>1, <1>3, <1>4 DEF IInv, Staged, Prepared
  <1>7. OnlyLegit' /\ StrangersApart'
    BY <1>1 DEF IInv, OnlyLegit, StrangersApart
  <1>8. \A d \in Client : (Recorded(d)' <=> Recorded(d)) /\ Due(d)' = Due(d)
    BY <1>1 DEF Recorded, Due
  <1>9. InactiveIsGone'
    BY <1>1, <1>3, <1>4, <1>8 DEF IInv, InactiveIsGone
  <1>10. NewsIsDue'
    <2>1. ASSUME NEW c \in Client, NEW d \in Client,
                 Followed(c, d) /\ job'[d].at # "route" /\ (Recorded(d)' \/ ~raised)
          PROVE  Current(c, d)'
      <3>1. job[d].at # "route"
        BY <1>1, <1>4, <2>1
      <3>2. Current(c, d)
        BY <1>8, <2>1, <3>1 DEF IInv, NewsIsDue
      <3>. QED
        BY <1>1, <1>8, <3>2 DEF Current
    <2>. QED
      BY <1>1, <2>1 DEF NewsIsDue
  <1>11. NobodyForgotten'
    <2>1. ASSUME ~raised, NEW c \in Client, NEW d \in Client,
                 c \in bound /\ active[c] /\ Recorded(d)' /\ Followed(c, d)
          PROVE  WillKnow(c, d)'
      <3>1. WillKnow(c, d)
        BY <1>8, <2>1 DEF IInv, NobodyForgotten
      <3>2. c # b => job'[c] = job[c]
        BY <1>4
      <3>3. d # b => job'[d] = job[d]
        BY <1>4
      <3>. QED
        BY <1>1, <3>1, <3>2, <3>3 DEF WillKnow, Probing
    <2>. QED
      BY <1>1, <2>1 DEF NobodyForgotten
  <1>. QED
    BY <1>5, <1>6, <1>7, <1>9, <1>10, <1>11 DEF IInv

LEMMA StreamEndStep ==
  ASSUME IInv, NEW b \in Client, StreamEnd(b)
  PROVE  IInv'
  <1>. DEFINE j == [at |-> "act", show |-> "unavailable", initial |-> FALSE, seen |-> 0,
                    probed |-> <<>>, items |-> <<>>, handlers |-> 0]
  <1>1. /\ b \in bound /\ ~closing[b] /\ job[b].at = "idle"
        /\ active' = active /\ last' = last
        /\ wire' = wire /\ raised' = raised /\ knows' = knows
        /\ granted' = granted /\ following' = following
        /\ closing' = [closing EXCEPT ![b] = TRUE]
    BY DEF StreamEnd, rosters
  <1>2. \/ active[b] /\ bound' = bound /\ job' = [job EXCEPT ![b] = j]
        \/ ~active[b] /\ bound' = bound \ {b} /\ job' = job
    BY DEF StreamEnd, CleanUp, Idle
  <1>3. j \in Job /\ j.at = "act" /\ j.show = "unavailable"
    BY DEF Job, Show, Presence
  <1>. HIDE DEF j
  <1>4. /\ job'[b] = j \/ job'[b].at = "idle"
        /\ \A d \in Client \ {b} : job'[d] = job[d] /\ closing'[d] = closing[d]
        /\ b \notin bound' => job'[b].at = "idle"
    BY <1>1, <1>2 DEF IInv, Typed
  <1>5. Typed'
    BY <1>1, <1>2, <1>3 DEF IInv, Typed
  <1>6. Staged'
    <2>1. ASSUME NEW d \in Client \ {b}
          PROVE  /\ d \notin bound' => job'[d].at = "idle"
                 /\ job'[d].at # "idle" => job'[d].show \in Show
                 /\ closing'[d] /\ job'[d].at # "idle" => job'[d].show = "unavailable"
                 /\ job'[d].at = "loop" =>
                      \A v \in ToSet(job'[d].probed) : <<UserOf[d], v>> \in Follows
                 /\ job'[d].at = "route" => Prepared(d)'
      BY <1>1, <1>2, <1>4 DEF IInv, Staged, Prepared
    <2>2. job'[b].at # "idle" => job'[b].show = "unavailable" /\ job'[b].at = "act"
      BY <1>3, <1>4
    <2>. QED
      BY <1>4, <2>1, <2>2 DEF Staged, Show
  <1>7. OnlyLegit' /\ StrangersApart'
    BY <1>1 DEF IInv, OnlyLegit, StrangersApart
  <1>8. bound' \subseteq bound /\ \A d \in Client : Recorded(d)' => Recorded(d) /\ Due(d)' = Due(d)
    BY <1>1, <1>2 DEF Recorded, Due
  <1>9. ~raised => \A d \in Client : Due(d)' = Due(d)
    <2>1. ASSUME ~raised, ~active[b]
          PROVE  Due(b) = "unavailable"
      BY <1>1, <2>1 DEF IInv, InactiveIsGone
    <2>. QED
      BY <1>1, <1>2, <2>1 DEF Recorded, Due
  <1>10. InactiveIsGone'
    <2>1. ASSUME ~raised, NEW d \in Client, ~active[d]
          PROVE  IF job'[d].at \in {"idle", "act"} THEN Due(d)' = "unavailable"
                                                   ELSE job'[d].show = "unavailable"
      <3>1. Due(d)' = Due(d)
        BY <1>9, <2>1
      <3>2. CASE d = b
        BY <1>1, <1>3, <1>4, <2>1, <3>1, <3>2 DEF IInv, InactiveIsGone
      <3>3. CASE d # b
        BY <1>4, <2>1, <3>1, <3>3 DEF IInv, InactiveIsGone
      <3>. QED
        BY <3>2, <3>3
    <2>. QED
      BY <1>1, <2>1 DEF InactiveIsGone
  <1>11. NewsIsDue'
    <2>1. ASSUME NEW c \in Client, NEW d \in Client,
                 Followed(c, d) /\ job'[d].at # "route" /\ (Recorded(d)' \/ ~raised)
          PROVE  Current(c, d)'
      <3>1. job[d].at # "route" /\ (Recorded(d) \/ ~raised)
        BY <1>1, <1>4, <1>8, <2>1
      <3>2. Current(c, d)
        BY <2>1, <3>1 DEF IInv, NewsIsDue
      <3>3. Due(d)' = Due(d)
        BY <1>8, <1>9, <2>1
      <3>. QED
        BY <1>1, <1>8, <3>2, <3>3 DEF Current
    <2>. QED
      BY <1>1, <2>1 DEF NewsIsDue
  <1>12. NobodyForgotten'
    <2>1. ASSUME ~raised, NEW c \in Client, NEW d \in Client,
                 c \in bound' /\ active[c] /\ Recorded(d)' /\ Followed(c, d)
          PROVE  WillKnow(c, d)'
      <3>1. WillKnow(c, d)
        BY <1>8, <2>1 DEF IInv, NobodyForgotten
      <3>2. c # b => job'[c] = job[c]
        BY <1>4
      <3>3. d # b => job'[d] = job[d]
        BY <1>4
      <3>. QED
        BY <1>1, <3>1, <3>2, <3>3 DEF WillKnow, Probing
    <2>. QED
      BY <1>1, <2>1 DEF NobodyForgotten
  <1>. QED
    BY <1>5, <1>6, <1>7, <1>10, <1>11, <1>12 DEF IInv

LEMMA RaiseStep ==
  ASSUME IInv, NEW b \in Client, Raise(b)
  PROVE  IInv'
  <1>. DEFINE j == [at |-> "idle", show |-> "none", initial |-> FALSE, seen |-> 0,
                    probed |-> <<>>, items |-> <<>>, handlers |-> 0]
  <1>1. /\ job[b].at = "loop" /\ job' = [job EXCEPT ![b] = j] /\ raised' = TRUE
        /\ bound' = bound /\ closing' = closing /\ active' = active /\ last' = last
        /\ wire' = wire /\ knows' = knows
        /\ granted' = granted /\ following' = following
    BY DEF Raise, rosters, tables, Idle
  <1>2. j \in Job /\ j.at = "idle"
    BY DEF Job, Show, Presence
  <1>. HIDE DEF j
  <1>3. job'[b] = j /\ \A d \in Client \ {b} : job'[d] = job[d]
    BY <1>1 DEF IInv, Typed
  <1>4. Typed'
    BY <1>1, <1>2 DEF IInv, Typed
  <1>5. Staged'
    BY <1>1, <1>2, <1>3 DEF IInv, Staged, Prepared
  <1>6. OnlyLegit' /\ StrangersApart'
    BY <1>1 DEF IInv, OnlyLegit, StrangersApart
  <1>7. NewsIsDue'
    <2>1. ASSUME NEW c \in Client, NEW d \in Client,
                 Followed(c, d) /\ job'[d].at # "route" /\ Recorded(d)'
          PROVE  Current(c, d)'
      <3>1. job[d].at # "route" /\ Recorded(d) /\ Due(d)' = Due(d)
        BY <1>1, <1>3, <2>1 DEF Recorded, Due
      <3>2. Current(c, d)
        BY <2>1, <3>1 DEF IInv, NewsIsDue
      <3>. QED
        BY <1>1, <3>1, <3>2 DEF Current
    <2>. QED
      BY <1>1, <2>1 DEF NewsIsDue
  <1>. QED
    BY <1>1, <1>4, <1>5, <1>6, <1>7 DEF IInv, InactiveIsGone, NobodyForgotten

LEMMA SubscriptionsList ==
  ASSUME IInv, NEW u \in User
  PROVE  /\ Subscriptions(u) \in Seq(User)
         /\ \A v : v \in ToSet(Subscriptions(u)) <=> v \in User /\ <<u, v>> \in Follows
         /\ Subscribers(u) \in Seq(User)
         /\ \A v : v \in ToSet(Subscribers(u)) <=> v \in User /\ <<v, u>> \in Follows
  <1>. DEFINE S == {v \in User : <<u, v>> \in following}
              T == {v \in User : <<v, u>> \in granted}
  <1>1. S \subseteq User /\ T \subseteq User /\ IsFiniteSet(User)
    BY PresenceAssumption
  <1>2. IsFiniteSet(S) /\ IsFiniteSet(T)
    BY <1>1, FS_Subset
  <1>3. /\ Subscriptions(u) = SetToSeq(S) /\ Subscribers(u) = SetToSeq(T)
        /\ following = Follows /\ granted = Follows
    BY DEF Subscriptions, Subscribers, IInv, Typed
  <1>4. /\ SetToSeq(S) \in Seq(S) /\ ToSet(SetToSeq(S)) = S
        /\ SetToSeq(T) \in Seq(T) /\ ToSet(SetToSeq(T)) = T
    BY <1>2, ListFacts
  <1>5. \A v : /\ v \in S <=> v \in User /\ <<u, v>> \in Follows
               /\ v \in T <=> v \in User /\ <<v, u>> \in Follows
    BY <1>3
  <1>. HIDE DEF S, T
  <1>6. SetToSeq(S) \in Seq(User) /\ SetToSeq(T) \in Seq(User)
    BY <1>1, <1>4
  <1>. QED
    BY <1>3, <1>4, <1>5, <1>6

LEMMA ActStep ==
  ASSUME IInv, NEW b \in Client, Act(b)
  PROVE  IInv'
  <1>. DEFINE initial == ~active[b]
              probed == IF initial THEN Subscriptions(UserOf[b]) ELSE <<>>
              seen == Cardinality(Resources(UserOf[b]))
              j == [job[b] EXCEPT !.at = "loop", !.initial = initial,
                                  !.probed = probed, !.seen = seen]
  <1>1. /\ job[b].at = "act"
        /\ bound' = bound /\ closing' = closing /\ last' = last
        /\ wire' = wire /\ knows' = knows /\ raised' = raised
        /\ granted' = granted /\ following' = following
        /\ active' = [active EXCEPT ![b] = initial \/ (active[b] /\ job[b].show # "unavailable")]
    BY DEF Act, rosters
  <1>2. job' = [job EXCEPT ![b] = j]
    BY DEF Act
  <1>3. UserOf[b] \in User
    BY PresenceAssumption
  <1>4. initial \in BOOLEAN
    OBVIOUS
  <1>5. /\ probed \in Seq(User)
        /\ \A v \in ToSet(probed) : <<UserOf[b], v>> \in Follows
        /\ initial => \A v \in User : <<UserOf[b], v>> \in Follows => v \in ToSet(probed)
    <2>1. <<>> \in Seq(User) /\ ToSet(<<>>) = {}
      BY DEF ToSet
    <2>. QED
      BY <1>3, <2>1, SubscriptionsList
  <1>6. seen \in Nat
    <2>1. Resources(UserOf[b]) \subseteq Client /\ IsFiniteSet(Client)
      BY PresenceAssumption DEF Resources, IInv, Typed
    <2>. QED
      BY <2>1, FS_Subset, FS_CardinalityType
  <1>. HIDE DEF seen, probed, initial
  <1>7. /\ j \in Job /\ j.at = "loop" /\ j.probed = probed
        /\ j.show = job[b].show
    BY <1>4, <1>5, <1>6 DEF IInv, Typed, Job
  <1>. HIDE DEF j
  <1>8. job'[b] = j /\ \A d \in Client \ {b} : job'[d] = job[d] /\ active'[d] = active[d]
    BY <1>1, <1>2 DEF IInv, Typed
  <1>9. active'[b] <=> (initial \/ (active[b] /\ job[b].show # "unavailable"))
    BY <1>1 DEF IInv, Typed
  <1>10. Typed'
    <2>1. active' \in [Client -> BOOLEAN]
      BY <1>1 DEF IInv, Typed, initial
    <2>. QED
      BY <1>1, <1>2, <1>7, <2>1 DEF IInv, Typed
  <1>11. Staged'
    <2>1. ASSUME NEW d \in Client \ {b}
          PROVE  /\ d \notin bound => job'[d].at = "idle"
                 /\ job'[d].at # "idle" => job'[d].show \in Show
                 /\ closing[d] /\ job'[d].at # "idle" => job'[d].show = "unavailable"
                 /\ job'[d].at = "loop" =>
                      \A v \in ToSet(job'[d].probed) : <<UserOf[d], v>> \in Follows
                 /\ job'[d].at = "route" => Prepared(d)'
      BY <1>1, <1>8 DEF IInv, Staged, Prepared
    <2>2. /\ b \in bound /\ job'[b].at = "loop" /\ job'[b].show \in Show
          /\ closing[b] => job'[b].show = "unavailable"
          /\ \A v \in ToSet(job'[b].probed) : <<UserOf[b], v>> \in Follows
      BY <1>1, <1>5, <1>7, <1>8 DEF IInv, Staged
    <2>. QED
      BY <1>1, <2>1, <2>2 DEF Staged
  <1>12. OnlyLegit' /\ StrangersApart'
    BY <1>1 DEF IInv, OnlyLegit, StrangersApart
  <1>13. \A d \in Client : (Recorded(d)' <=> Recorded(d)) /\ Due(d)' = Due(d)
    BY <1>1 DEF Recorded, Due
  <1>14. InactiveIsGone'
    <2>1. ASSUME ~raised, NEW d \in Client, ~active'[d]
          PROVE  IF job'[d].at \in {"idle", "act"} THEN Due(d)' = "unavailable"
                                                   ELSE job'[d].show = "unavailable"
      <3>1. CASE d = b
        BY <1>7, <1>8, <1>9, <2>1, <3>1 DEF initial
      <3>2. CASE d # b
        BY <1>8, <1>13, <2>1, <3>2 DEF IInv, InactiveIsGone
      <3>. QED
        BY <3>1, <3>2
    <2>. QED
      BY <1>1, <2>1 DEF InactiveIsGone
  <1>15. NewsIsDue'
    <2>1. ASSUME NEW c \in Client, NEW d \in Client,
                 Followed(c, d) /\ job'[d].at # "route" /\ (Recorded(d)' \/ ~raised)
          PROVE  Current(c, d)'
      <3>1. job[d].at # "route"
        BY <1>1, <1>8, <2>1
      <3>2. Current(c, d)
        BY <1>13, <2>1, <3>1 DEF IInv, NewsIsDue
      <3>. QED
        BY <1>1, <1>13, <3>2 DEF Current
    <2>. QED
      BY <1>1, <2>1 DEF NewsIsDue
  <1>16. NobodyForgotten'
    <2>1. ASSUME ~raised, NEW c \in Client, NEW d \in Client,
                 c \in bound /\ active'[c] /\ Recorded(d)' /\ Followed(c, d)
          PROVE  WillKnow(c, d)'
      <3>1. CASE c = b /\ initial
        <4>1. UserOf[d] \in ToSet(probed)
          BY <1>5, <2>1, <3>1, PresenceAssumption DEF Followed
        <4>. QED
          BY <1>7, <1>8, <3>1, <4>1 DEF WillKnow, Probing
      <3>2. CASE ~(c = b /\ initial)
        <4>1. active[c]
          BY <1>8, <2>1, <3>2 DEF initial
        <4>2. WillKnow(c, d)
          BY <1>13, <2>1, <4>1 DEF IInv, NobodyForgotten
        <4>3. c # b => job'[c] = job[c]
          BY <1>8
        <4>4. d # b => job'[d] = job[d]
          BY <1>8
        <4>. QED
          BY <1>1, <4>2, <4>3, <4>4 DEF WillKnow, Probing
      <3>. QED
        BY <3>1, <3>2
    <2>. QED
      BY <1>1, <2>1 DEF NobodyForgotten
  <1>. QED
    BY <1>10, <1>11, <1>12, <1>14, <1>15, <1>16 DEF IInv

LEMMA UserAtFacts ==
  /\ \A u \in User : UserAt(u) = u
  /\ \A c \in Client : UserAt(c) = UserOf[c] /\ UserOf[c] \in User /\ c \notin User
  BY PresenceAssumption DEF UserAt

(* Items that tell the presence of b to each subscriber, and perhaps to the *)
(* user's other resources, and probe the subscriptions.                     *)
Sent(items, b, others, subscribers) ==
  /\ items \in Seq(Stanza)
  /\ \A m \in ToSet(items) :
       /\ m.from = b
       /\ \/ /\ m.kind = "presence" /\ m.show = job[b].show
             /\ m.to \in others \cup ToSet(subscribers)
          \/ m.kind = "probe" /\ m.to \in ToSet(job[b].probed)
  /\ \A v \in ToSet(subscribers) : \E m \in ToSet(items) : m.kind = "presence" /\ m.to = v
  /\ \A u \in ToSet(job[b].probed) : \E m \in ToSet(items) : Probes(m, b, u)

(* So are those that c2s-presence prepares.                                 *)
LEMMA ItemsSent ==
  ASSUME NEW b \in Client, job[b].show \in Presence, job[b].probed \in Seq(User),
         NEW subscribers \in Seq(User), NEW others \in SUBSET Client,
         NEW o \in IF others = {} THEN {b} ELSE others
  PROVE  Sent(BroadcastItems(b, others, o, subscribers) \o PresenceItems(b, subscribers)
              \o ProbeItems(b, job[b].probed), b, others, subscribers)
  <1>. DEFINE probed == job[b].probed
              news == job[b].show
              P == BroadcastItems(b, others, o, subscribers)
              Q == PresenceItems(b, subscribers)
              R == ProbeItems(b, probed)
              Good(m) == /\ m.from = b
                         /\ \/ /\ m.kind = "presence" /\ m.show = news
                               /\ m.to \in others \cup ToSet(subscribers)
                            \/ m.kind = "probe" /\ m.to \in ToSet(probed)
  <1>1. news \in Presence /\ probed \in Seq(User) /\ ToSet(subscribers) \subseteq User
        /\ ToSet(probed) \subseteq User
    BY ToSetTyped
  <1>2. o \in Client /\ (others # {} => o \in others)
    OBVIOUS
  <1>. HIDE DEF probed, news
  <1>3. P \in Seq(Stanza) /\ \A m \in ToSet(P) : Good(m)
    <2>. DEFINE to == IF subscribers = <<>> THEN o ELSE Last(subscribers)
                m == [kind |-> "presence", from |-> b, show |-> news, route |-> o, to |-> to]
    <2>1. P = IF others = {} THEN <<>> ELSE <<m>>
      BY DEF BroadcastItems, news
    <2>2. CASE others = {}
      <3>1. P = <<>>
        BY <2>1, <2>2
      <3>2. P \in Seq(Stanza) /\ ToSet(P) = {}
        BY <3>1 DEF ToSet
      <3>. QED
        BY <3>2
    <2>3. CASE others # {}
      <3>1. to \in User \cup Client /\ to \in others \cup ToSet(subscribers)
        <4>1. CASE subscribers = <<>>
          BY <1>2, <2>3, <4>1
        <4>2. CASE subscribers # <<>>
          <5>1. Len(subscribers) \in 1..Len(subscribers)
            BY <4>2
          <5>2. Last(subscribers) \in ToSet(subscribers)
            BY <5>1, ItemInToSet DEF Last
          <5>. QED
            BY <1>1, <4>2, <5>2
        <4>. QED
          BY <4>1, <4>2
      <3>. HIDE DEF to
      <3>2. m \in Stanza
        BY <1>1, <1>2, <3>1 DEF Stanza
      <3>3. m.kind = "presence" /\ m.from = b /\ m.show = news /\ m.to = to
        OBVIOUS
      <3>. HIDE DEF m
      <3>4. Good(m)
        BY <3>1, <3>3
      <3>5. P = <<m>> /\ P \in Seq(Stanza) /\ ToSet(P) = {m}
        BY <2>1, <2>3, <3>2 DEF ToSet
      <3>. QED
        BY <3>4, <3>5
    <2>. QED
      BY <2>2, <2>3
  <1>4. Q \in Seq(Stanza) /\ (\A m \in ToSet(Q) : Good(m))
        /\ \A v \in ToSet(subscribers) : \E m \in ToSet(Q) : m.kind = "presence" /\ m.to = v
    <2>. DEFINE item(v) == [kind |-> "presence", from |-> b, show |-> news, to |-> v, route |-> v]
    <2>1. Q = [i \in 1..Len(subscribers) |-> item(subscribers[i])]
      BY DEF PresenceItems, news
    <2>2. ASSUME NEW v \in ToSet(subscribers)
          PROVE  item(v) \in Stanza /\ Good(item(v)) /\ item(v).kind = "presence" /\ item(v).to = v
      BY <1>1 DEF Stanza
    <2>. HIDE DEF item
    <2>3. \A i \in 1..Len(subscribers) : subscribers[i] \in ToSet(subscribers)
      BY ItemInToSet
    <2>4. /\ Q \in Seq(Stanza) /\ Len(Q) = Len(subscribers)
          /\ \A i \in 1..Len(subscribers) : Q[i] = item(subscribers[i])
      BY <2>1, <2>2, <2>3
    <2>5. ASSUME NEW m
          PROVE  m \in ToSet(Q) <=> \E v \in ToSet(subscribers) : m = item(v)
      <3>1. m \in ToSet(Q) <=> \E i \in 1..Len(subscribers) : Q[i] = m
        BY <2>4, InToSet
      <3>2. \A v : v \in ToSet(subscribers) <=> \E i \in 1..Len(subscribers) : subscribers[i] = v
        BY InToSet
      <3>. HIDE DEF Q
      <3>. QED
        BY <2>4, <3>1, <3>2
    <2>. QED
      BY <2>2, <2>4, <2>5
  <1>5. R \in Seq(Stanza) /\ (\A m \in ToSet(R) : Good(m))
        /\ \A u \in ToSet(probed) : \E m \in ToSet(R) : Probes(m, b, u)
    <2>. DEFINE item(v) == [kind |-> "probe", from |-> b, show |-> "none", to |-> v, route |-> v]
    <2>1. R = [i \in 1..Len(probed) |-> item(probed[i])]
      BY <1>1 DEF ProbeItems
    <2>2. ASSUME NEW v \in ToSet(probed)
          PROVE  item(v) \in Stanza /\ Good(item(v)) /\ Probes(item(v), b, v)
      BY <1>1 DEF Stanza, Presence, Probes
    <2>. HIDE DEF item
    <2>3. \A i \in 1..Len(probed) : probed[i] \in ToSet(probed)
      BY <1>1, ItemInToSet
    <2>4. /\ R \in Seq(Stanza) /\ Len(R) = Len(probed)
          /\ \A i \in 1..Len(probed) : R[i] = item(probed[i])
      BY <1>1, <2>1, <2>2, <2>3
    <2>5. ASSUME NEW m
          PROVE  m \in ToSet(R) <=> \E v \in ToSet(probed) : m = item(v)
      <3>1. m \in ToSet(R) <=> \E i \in 1..Len(probed) : R[i] = m
        BY <2>4, InToSet
      <3>2. \A v : v \in ToSet(probed) <=> \E i \in 1..Len(probed) : probed[i] = v
        BY <1>1, InToSet
      <3>. HIDE DEF R
      <3>. QED
        BY <2>4, <3>1, <3>2
    <2>. HIDE DEF R, Good
    <2>. QED
      BY <2>2, <2>4, <2>5
  <1>. HIDE DEF P, Q, R, Good
  <1>6. /\ P \o Q \in Seq(Stanza) /\ ToSet(P \o Q) = ToSet(P) \cup ToSet(Q)
        /\ (P \o Q) \o R \in Seq(Stanza)
        /\ ToSet((P \o Q) \o R) = ToSet(P \o Q) \cup ToSet(R)
    <2>1. P \in Seq(Stanza) /\ Q \in Seq(Stanza) /\ R \in Seq(Stanza)
      BY <1>3, <1>4, <1>5
    <2>2. \A s, t \in Seq(Stanza) :
            s \o t \in Seq(Stanza) /\ ToSet(s \o t) = ToSet(s) \cup ToSet(t)
      BY ConcatFacts
    <2>. QED
      BY <2>1, <2>2
  <1>7. /\ P \o Q \o R \in Seq(Stanza)
        /\ \A m \in ToSet(P \o Q \o R) : Good(m)
        /\ \A v \in ToSet(subscribers) :
             \E m \in ToSet(P \o Q \o R) : m.kind = "presence" /\ m.to = v
        /\ \A u \in ToSet(probed) : \E m \in ToSet(P \o Q \o R) : Probes(m, b, u)
    BY <1>3, <1>4, <1>5, <1>6
  <1>. QED
    BY <1>7, Zenon DEF probed, news, P, Q, R, Good, Sent

(* In Presence they go where they may, and to every follower.               *)
Tidings(items, b) ==
  /\ items \in Seq(Stanza)
  /\ \A m \in ToSet(items) :
       Legit(m) /\ m.from = b /\ (m.kind = "presence" => m.show = job[b].show)
  /\ \A v \in User : <<v, UserOf[b]>> \in Follows =>
       \E m \in ToSet(items) : m.kind = "presence" /\ m.to = v
  /\ \A u \in ToSet(job[b].probed) : \E m \in ToSet(items) : Probes(m, b, u)

LEMMA ItemsFacts ==
  ASSUME IInv, NEW b \in Client, job[b].at = "loop",
         NEW others, others \subseteq Resources(UserOf[b]) \ {b},
         NEW o, o \in IF others = {} THEN {b} ELSE others,
         NEW items, items = BroadcastItems(b, others, o, Subscribers(UserOf[b]))
                            \o PresenceItems(b, Subscribers(UserOf[b]))
                            \o ProbeItems(b, job[b].probed)
  PROVE  Tidings(items, b)
  <1>1. /\ UserOf[b] \in User /\ job[b].show \in Show /\ job[b].show \in Presence
        /\ job[b].probed \in Seq(User)
        /\ \A v \in ToSet(job[b].probed) : v \in User /\ <<UserOf[b], v>> \in Follows
    <2>1. job[b].probed \in Seq(User)
      BY DEF IInv, Typed, Job
    <2>2. job[b].show \in Show /\ \A v \in ToSet(job[b].probed) : <<UserOf[b], v>> \in Follows
      BY DEF IInv, Staged
    <2>. QED
      BY <2>1, <2>2, UserAtFacts, ToSetTyped DEF Presence
  <1>2. Subscribers(UserOf[b]) \in Seq(User)
        /\ \A v : v \in ToSet(Subscribers(UserOf[b])) <=> v \in User /\ <<v, UserOf[b]>> \in Follows
    BY <1>1, SubscriptionsList
  <1>3. others \in SUBSET Client /\ \A d \in others : UserOf[d] = UserOf[b]
    BY DEF Resources, IInv, Typed
  <1>4. Sent(items, b, others, Subscribers(UserOf[b]))
    BY <1>1, <1>2, <1>3, ItemsSent
  <1>5. ASSUME NEW m \in ToSet(items)
        PROVE  Legit(m) /\ m.from = b /\ (m.kind = "presence" => m.show = job[b].show)
    <2>1. CASE m.kind = "presence"
      <3>1. m.from = b /\ m.show = job[b].show /\ m.to \in others \cup ToSet(Subscribers(UserOf[b]))
        BY <1>4, <2>1 DEF Sent
      <3>2. UserAt(m.to) = UserOf[b] \/ <<UserAt(m.to), UserOf[b]>> \in Follows
        BY <1>2, <1>3, <3>1, UserAtFacts
      <3>. QED
        BY <1>1, <2>1, <3>1, <3>2 DEF Legit
    <2>2. CASE m.kind # "presence"
      BY <1>1, <1>4, <2>2 DEF Sent, Legit
    <2>. QED
      BY <2>1, <2>2
  <1>. QED
    BY <1>2, <1>4, <1>5 DEF Sent, Tidings

LEMMA RecordStep ==
  ASSUME IInv, NEW b \in Client, Record(b)
  PROVE  IInv'
  <1>. DEFINE u == UserOf[b]
              others == IF Broadcasts(job[b]) THEN Resources(u) \ {b} ELSE {}
              items(o) == BroadcastItems(b, others, o, Subscribers(u))
                          \o PresenceItems(b, Subscribers(u)) \o ProbeItems(b, job[b].probed)
              handlers == Cardinality(others) + Len(Subscribers(u)) + Len(job[b].probed)
              j(o) == [job[b] EXCEPT !.at = "route", !.items = items(o), !.handlers = handlers]
  <1>1. /\ job[b].at = "loop"
        /\ bound' = bound /\ closing' = closing /\ active' = active
        /\ wire' = wire /\ knows' = knows /\ raised' = raised
        /\ granted' = granted /\ following' = following
        /\ last' = [last EXCEPT ![b] = job[b].show]
    BY DEF Record, rosters
  <1>2. PICK o \in IF others = {} THEN {b} ELSE others : job' = [job EXCEPT ![b] = j(o)]
    <2>1. PICK o \in IF others = {} THEN {b} ELSE others :
            job' = [job EXCEPT ![b].at = "route", ![b].items = items(o), ![b].handlers = handlers]
      BY Zenon DEF Record
    <2>2. [job EXCEPT ![b].at = "route", ![b].items = items(o), ![b].handlers = handlers] =
            [job EXCEPT ![b] = j(o)]
      <3>. HIDE DEF items, handlers
      <3>. QED
        BY DEF IInv, Typed
    <2>. QED
      BY <2>1, <2>2, Zenon
  <1>3. others \subseteq Resources(UserOf[b]) \ {b}
    OBVIOUS
  <1>4. /\ items(o) \in Seq(Stanza)
        /\ \A m \in ToSet(items(o)) :
             Legit(m) /\ m.from = b /\ (m.kind = "presence" => m.show = job[b].show)
        /\ \A v \in User : <<v, UserOf[b]>> \in Follows =>
             \E m \in ToSet(items(o)) : m.kind = "presence" /\ m.to = v
        /\ \A v \in ToSet(job[b].probed) : \E m \in ToSet(items(o)) : Probes(m, b, v)
    <2>1. o \in IF others = {} THEN {b} ELSE others
      BY <1>2
    <2>2. items(o) = BroadcastItems(b, others, o, Subscribers(UserOf[b]))
                     \o PresenceItems(b, Subscribers(UserOf[b])) \o ProbeItems(b, job[b].probed)
      OBVIOUS
    <2>. HIDE DEF others, items
    <2>3. Tidings(items(o), b)
      BY <1>1, <1>3, <2>1, <2>2, ItemsFacts, Zenon
    <2>. QED
      BY <2>3, Zenon DEF Tidings
  <1>5. handlers \in Nat
    <2>1. /\ others \subseteq Client /\ IsFiniteSet(Client)
      BY PresenceAssumption DEF Resources, IInv, Typed
    <2>2. Cardinality(others) \in Nat
      BY <2>1, FS_Subset, FS_CardinalityType
    <2>3. UserOf[b] \in User
      BY UserAtFacts
    <2>4. Subscribers(u) \in Seq(User) /\ job[b].probed \in Seq(User)
      BY <2>3, SubscriptionsList DEF IInv, Typed, Job
    <2>. QED
      BY <2>2, <2>4
  <1>. DEFINE i == items(o)
              h == handlers
              k == [job[b] EXCEPT !.at = "route", !.items = i, !.handlers = h]
  <1>6. job' = [job EXCEPT ![b] = k]
    BY <1>2
  <1>. HIDE DEF items, handlers, j
  <1>7. i \in Seq(Stanza) /\ h \in Nat
    BY <1>4, <1>5
  <1>. HIDE DEF i, h
  <1>8. k \in Job /\ k.at = "route" /\ k.items = i /\ k.show = job[b].show
    BY <1>7 DEF IInv, Typed, Job
  <1>. HIDE DEF k
  <1>9. /\ job'[b] = k /\ last'[b] = job[b].show
        /\ \A d \in Client \ {b} : job'[d] = job[d] /\ last'[d] = last[d]
    BY <1>1, <1>6 DEF IInv, Typed
  <1>10. /\ b \in bound /\ job[b].show \in Show
         /\ closing[b] => job[b].show = "unavailable"
    BY <1>1 DEF IInv, Staged
  <1>11. Typed'
    <2>1. job[b].show \in Presence
      BY <1>10 DEF Presence
    <2>. QED
      BY <1>1, <1>6, <1>8, <2>1 DEF IInv, Typed
  <1>12. Staged'
    <2>1. ASSUME NEW d \in Client \ {b}
          PROVE  /\ d \notin bound => job'[d].at = "idle"
                 /\ job'[d].at # "idle" => job'[d].show \in Show
                 /\ closing[d] /\ job'[d].at # "idle" => job'[d].show = "unavailable"
                 /\ job'[d].at = "loop" =>
                      \A v \in ToSet(job'[d].probed) : <<UserOf[d], v>> \in Follows
                 /\ job'[d].at = "route" => Prepared(d)'
      BY <1>1, <1>9 DEF IInv, Staged, Prepared
    <2>2. Prepared(b)'
      BY <1>4, <1>8, <1>9 DEF Prepared, i
    <2>. QED
      BY <1>1, <1>8, <1>9, <1>10, <2>1, <2>2 DEF Staged
  <1>13. OnlyLegit' /\ StrangersApart'
    BY <1>1 DEF IInv, OnlyLegit, StrangersApart
  <1>14. \A d \in Client \ {b} : (Recorded(d)' <=> Recorded(d)) /\ Due(d)' = Due(d)
    BY <1>1, <1>9 DEF Recorded, Due
  <1>15. InactiveIsGone'
    <2>1. ASSUME ~raised, NEW d \in Client, ~active[d]
          PROVE  IF job'[d].at \in {"idle", "act"} THEN Due(d)' = "unavailable"
                                                   ELSE job'[d].show = "unavailable"
      <3>1. CASE d = b
        BY <1>1, <1>8, <1>9, <2>1, <3>1 DEF IInv, InactiveIsGone
      <3>2. CASE d # b
        BY <1>9, <1>14, <2>1, <3>2 DEF IInv, InactiveIsGone
      <3>. QED
        BY <3>1, <3>2
    <2>. QED
      BY <1>1, <2>1 DEF InactiveIsGone
  <1>16. NewsIsDue'
    <2>1. ASSUME NEW c \in Client, NEW d \in Client,
                 Followed(c, d) /\ job'[d].at # "route" /\ (Recorded(d)' \/ ~raised)
          PROVE  Current(c, d)'
      <3>1. d # b /\ job[d].at # "route"
        BY <1>8, <1>9, <2>1
      <3>2. Current(c, d)
        BY <1>14, <2>1, <3>1 DEF IInv, NewsIsDue
      <3>. QED
        BY <1>1, <1>14, <3>1, <3>2 DEF Current
    <2>. QED
      BY <1>1, <2>1 DEF NewsIsDue
  <1>17. NobodyForgotten'
    <2>1. ASSUME ~raised, NEW c \in Client, NEW d \in Client,
                 c \in bound /\ active[c] /\ Recorded(d)' /\ Followed(c, d)
          PROVE  WillKnow(c, d)'
      <3>1. CASE d = b
        BY <1>8, <1>9, <3>1 DEF WillKnow
      <3>2. CASE d # b
        <4>1. WillKnow(c, d)
          BY <1>14, <2>1, <3>2 DEF IInv, NobodyForgotten
        <4>2. Probing(c, UserOf[d]) => Probing(c, UserOf[d])'
          <5>1. CASE c = b
            BY <1>1, <1>4, <1>8, <1>9, <5>1 DEF Probing, i
          <5>2. CASE c # b
            BY <1>9, <5>2 DEF Probing
          <5>. QED
            BY <5>1, <5>2
        <4>. QED
          BY <1>1, <1>9, <3>2, <4>1, <4>2 DEF WillKnow
      <3>. QED
        BY <3>1, <3>2
    <2>. QED
      BY <1>1, <2>1 DEF NobodyForgotten
  <1>. QED
    BY <1>11, <1>12, <1>13, <1>15, <1>16, <1>17 DEF IInv

LEMMA RouteOutStep ==
  ASSUME IInv, NEW b \in Client, RouteOut(b)
  PROVE  IInv'
  <1>. DEFINE j == [at |-> "idle", show |-> "none", initial |-> FALSE, seen |-> 0,
                    probed |-> <<>>, items |-> <<>>, handlers |-> 0]
              x == Reverse(job[b].items)
  <1>1. /\ job[b].at = "route" /\ job' = [job EXCEPT ![b] = j]
        /\ closing' = closing /\ active' = active /\ last' = last
        /\ wire' = wire \o x /\ knows' = knows
        /\ granted' = granted /\ following' = following
        /\ raised => raised'
        /\ raised' \in BOOLEAN
        /\ bound' = bound \/ (closing[b] /\ bound' = bound \ {b})
    BY DEF RouteOut, CleanUp, rosters, Idle, IInv, Typed
  <1>2. j \in Job /\ j.at = "idle"
    BY DEF Job, Show, Presence
  <1>3. /\ b \in bound /\ Prepared(b) /\ job[b].show \in Show /\ last[b] = job[b].show
        /\ closing[b] => last[b] = "unavailable"
    BY <1>1 DEF IInv, Staged, Prepared
  <1>4. /\ x \in Seq(Stanza)
        /\ \A m \in ToSet(x) : Legit(m) /\ m.from = b /\ (m.kind = "presence" => m.show = last[b])
        /\ \A v \in User : <<v, UserOf[b]>> \in Follows =>
             \E m \in ToSet(x) : m.kind = "presence" /\ m.to = v
        /\ \A u : (\E m \in ToSet(job[b].items) : Probes(m, b, u))
                  => \E m \in ToSet(x) : Probes(m, b, u)
    <2>1. job[b].items \in Seq(Stanza)
      BY DEF IInv, Typed, Job
    <2>2. x \in Seq(Stanza) /\ ToSet(x) = ToSet(job[b].items)
      BY <2>1, ReverseFacts
    <2>. HIDE DEF x
    <2>. QED
      BY <1>3, <2>2 DEF Prepared
  <1>. HIDE DEF j, x
  <1>5. job'[b] = j /\ \A d \in Client \ {b} : job'[d] = job[d]
    BY <1>1 DEF IInv, Typed
  <1>6. wire \in Seq(Stanza) /\ wire' \in Seq(Stanza) /\ ToSet(wire') = ToSet(wire) \cup ToSet(x)
    BY <1>1, <1>4, ConcatFacts DEF IInv, Typed
  <1>7. \A c, d \in Client : /\ Silent(wire', c, d) <=> Silent(wire, c, d) /\ Silent(x, c, d)
                             /\ \A v : /\ \A m \in ToSet(x) : Tells(m, c, d) => m.show = v
                                       /\ LatestIs(wire, c, d, v) \/ ~Silent(x, c, d)
                                       => LatestIs(wire', c, d, v)
    BY <1>1, <1>4, <1>6, MoreNews
  <1>8. bound' \subseteq bound /\ \A d \in Client \ {b} : d \in bound' <=> d \in bound
    BY <1>1
  <1>9. \A d \in Client \ {b} : (Recorded(d)' <=> Recorded(d)) /\ Due(d)' = Due(d)
    BY <1>1, <1>8 DEF Recorded, Due
  <1>10. Due(b)' = last[b]
    BY <1>1, <1>3 DEF Recorded, Due, Show
  <1>11. Typed'
    BY <1>1, <1>2, <1>6, <1>8 DEF IInv, Typed
  <1>12. Staged'
    BY <1>1, <1>2, <1>5, <1>8 DEF IInv, Staged, Prepared
  <1>13. OnlyLegit' /\ StrangersApart'
    BY <1>1, <1>4, <1>6 DEF IInv, OnlyLegit, StrangersApart
  <1>14. InactiveIsGone'
    <2>1. ASSUME ~raised', NEW d \in Client, ~active[d]
          PROVE  IF job'[d].at \in {"idle", "act"} THEN Due(d)' = "unavailable"
                                                   ELSE job'[d].show = "unavailable"
      <3>1. CASE d = b
        <4>1. job[b].show = "unavailable"
          BY <1>1, <2>1, <3>1 DEF IInv, InactiveIsGone
        <4>. QED
          BY <1>2, <1>3, <1>5, <1>10, <3>1, <4>1
      <3>2. CASE d # b
        BY <1>1, <1>5, <1>9, <2>1, <3>2 DEF IInv, InactiveIsGone
      <3>. QED
        BY <3>1, <3>2
    <2>. QED
      BY <1>1, <2>1 DEF InactiveIsGone
  <1>15. NewsIsDue'
    <2>1. ASSUME NEW c \in Client, NEW d \in Client,
                 Followed(c, d) /\ job'[d].at # "route" /\ (Recorded(d)' \/ ~raised')
          PROVE  Current(c, d)'
      <3>1. CASE d = b
        <4>1. UserOf[c] \in User /\ <<UserOf[c], UserOf[b]>> \in Follows
          BY <2>1, <3>1, UserAtFacts DEF Followed
        <4>2. ~Silent(x, c, d)
          BY <1>4, <3>1, <4>1 DEF Silent, Tells
        <4>3. \A m \in ToSet(x) : Tells(m, c, d) => m.show = last[b]
          BY <1>4 DEF Tells
        <4>4. LatestIs(wire', c, d, last[b])
          BY <1>7, <4>2, <4>3
        <4>5. ~Silent(wire', c, d)
          BY <1>7, <4>2
        <4>. QED
          BY <1>10, <3>1, <4>4, <4>5 DEF Current
      <3>2. CASE d # b
        <4>1. Silent(x, c, d)
          BY <1>4, <3>2 DEF Silent, Tells
        <4>2. job[d].at # "route" /\ (Recorded(d) \/ ~raised)
          BY <1>1, <1>5, <1>9, <2>1, <3>2
        <4>3. Current(c, d)
          BY <2>1, <4>2 DEF IInv, NewsIsDue
        <4>4. LatestIs(wire', c, d, Due(d))
          BY <1>7, <4>1, <4>3 DEF Current, Silent
        <4>. QED
          BY <1>1, <1>7, <1>8, <1>9, <3>2, <4>3, <4>4 DEF Current
      <3>. QED
        BY <3>1, <3>2
    <2>. QED
      BY <1>1, <2>1 DEF NewsIsDue
  <1>16. NobodyForgotten'
    <2>1. ASSUME ~raised', NEW c \in Client, NEW d \in Client,
                 c \in bound' /\ active[c] /\ Recorded(d)' /\ Followed(c, d)
          PROVE  WillKnow(c, d)'
      <3>1. CASE d = b
        <4>1. UserOf[c] \in User /\ <<UserOf[c], UserOf[b]>> \in Follows
          BY <2>1, <3>1, UserAtFacts DEF Followed
        <4>2. ~Silent(x, c, d)
          BY <1>4, <3>1, <4>1 DEF Silent, Tells
        <4>. QED
          BY <1>7, <4>2 DEF WillKnow
      <3>2. CASE d # b
        <4>1. WillKnow(c, d)
          BY <1>1, <1>8, <1>9, <2>1, <3>2 DEF IInv, NobodyForgotten
        <4>2. Probing(c, UserOf[d]) =>
                Probing(c, UserOf[d])' \/ \E m \in ToSet(wire') : Probes(m, c, UserOf[d])
          <5>1. CASE c = b
            BY <1>1, <1>4, <1>6, <5>1 DEF Probing
          <5>2. CASE c # b
            BY <1>5, <5>2 DEF Probing
          <5>. QED
            BY <5>1, <5>2
        <4>3. \A m \in ToSet(wire) : m \in ToSet(wire')
          BY <1>6
        <4>4. ~Silent(wire, c, d) => ~Silent(wire', c, d)
          BY <1>7
        <4>. QED
          BY <1>1, <1>5, <3>2, <4>1, <4>2, <4>3, <4>4 DEF WillKnow
      <3>. QED
        BY <3>1, <3>2
    <2>. QED
      BY <1>1, <2>1 DEF NobodyForgotten
  <1>. QED
    BY <1>11, <1>12, <1>13, <1>14, <1>15, <1>16 DEF IInv

LEMMA DeliverPresenceStep ==
  ASSUME IInv, DeliverPresence
  PROVE  IInv'
  <1>. DEFINE m == Head(wire)
  <1>1. /\ wire # <<>> /\ m.kind = "presence" /\ wire' = Tail(wire)
        /\ bound' = bound /\ closing' = closing /\ active' = active /\ last' = last
        /\ job' = job /\ raised' = raised
        /\ granted' = granted /\ following' = following
        /\ knows' = [c \in Client |-> IF c \in bound /\ m.to \in {c, UserOf[c]}
                                      THEN [knows[c] EXCEPT ![m.from] = m.show] ELSE knows[c]]
    BY DEF DeliverPresence, rosters, tables
  <1>2. /\ wire \in Seq(Stanza) /\ wire' \in Seq(Stanza)
        /\ ToSet(wire) = {m} \cup ToSet(wire')
    BY <1>1, TailFacts DEF IInv, Typed
  <1>3. Legit(m)
    BY <1>2 DEF IInv, OnlyLegit
  <1>4. /\ m.from \in Client /\ m.show \in Show
        /\ UserAt(m.to) = UserOf[m.from] \/ <<UserAt(m.to), UserOf[m.from]>> \in Follows
    BY <1>1, <1>3 DEF Legit
  <1>5. \A c, d \in Client :
          /\ Silent(wire, c, d) <=> ~Tells(m, c, d) /\ Silent(wire', c, d)
          /\ \A v : LatestIs(wire, c, d, v) =>
               /\ LatestIs(wire', c, d, v)
               /\ Tells(m, c, d) /\ Silent(wire', c, d) => m.show = v
    BY <1>1, <1>2, TailNews
  <1>6. \A c, d \in Client : knows'[c][d] = IF c \in bound /\ Tells(m, c, d) THEN m.show
                                            ELSE knows[c][d]
    BY <1>1 DEF Tells, IInv, Typed
  <1>7. knows' \in [Client -> [Client -> Presence]]
    <2>1. m.show \in Presence
      BY <1>4 DEF Presence
    <2>2. ASSUME NEW c \in Client
          PROVE  [knows[c] EXCEPT ![m.from] = m.show] \in [Client -> Presence]
      BY <1>4, <2>1 DEF IInv, Typed
    <2>. HIDE DEF m
    <2>. QED
      BY <1>1, <2>2 DEF IInv, Typed
  <1>. HIDE DEF m
  <1>8. Typed'
    BY <1>1, <1>2, <1>7 DEF IInv, Typed
  <1>9. Staged'
    BY <1>1 DEF IInv, Staged, Prepared
  <1>10. OnlyLegit'
    BY <1>2 DEF IInv, OnlyLegit
  <1>11. \A d \in Client : (Recorded(d)' <=> Recorded(d)) /\ Due(d)' = Due(d)
    BY <1>1 DEF Recorded, Due
  <1>12. StrangersApart'
    <2>1. ASSUME NEW c \in Client, NEW d \in Client, UserOf[c] # UserOf[d], ~Followed(c, d)
          PROVE  knows'[c][d] = "none"
      <3>1. ASSUME Tells(m, c, d) PROVE FALSE
        <4>1. m.from = d /\ UserAt(m.to) = UserOf[c]
          BY <3>1, UserAtFacts DEF Tells
        <4>. QED
          BY <1>4, <2>1, <4>1 DEF Followed
      <3>. QED
        BY <1>6, <2>1, <3>1 DEF IInv, StrangersApart
    <2>. QED
      BY <2>1 DEF StrangersApart, Followed
  <1>13. InactiveIsGone'
    BY <1>1, <1>11 DEF IInv, InactiveIsGone
  <1>14. NewsIsDue'
    <2>1. ASSUME NEW c \in Client, NEW d \in Client,
                 Followed(c, d) /\ job[d].at # "route" /\ (Recorded(d)' \/ ~raised)
          PROVE  Current(c, d)'
      <3>1. Current(c, d)
        BY <1>11, <2>1 DEF IInv, NewsIsDue
      <3>2. LatestIs(wire', c, d, Due(d)')
        BY <1>5, <1>11, <3>1 DEF Current
      <3>3. ASSUME c \in bound, Silent(wire', c, d)
            PROVE  knows'[c][d] \in {"none", Due(d)'}
        <4>1. CASE Tells(m, c, d)
          BY <1>5, <1>6, <1>11, <3>1, <3>3, <4>1 DEF Current
        <4>2. CASE ~Tells(m, c, d)
          BY <1>5, <1>6, <1>11, <3>1, <3>3, <4>2 DEF Current
        <4>. QED
          BY <4>1, <4>2
      <3>. QED
        BY <1>1, <3>2, <3>3 DEF Current
    <2>. QED
      BY <1>1, <2>1 DEF NewsIsDue
  <1>15. NobodyForgotten'
    <2>1. ASSUME ~raised, NEW c \in Client, NEW d \in Client,
                 c \in bound /\ active[c] /\ Recorded(d)' /\ Followed(c, d)
          PROVE  WillKnow(c, d)'
      <3>1. WillKnow(c, d)
        BY <1>11, <2>1 DEF IInv, NobodyForgotten
      <3>2. knows[c][d] # "none" => knows'[c][d] # "none"
        BY <1>4, <1>6 DEF Show
      <3>3. ~Silent(wire, c, d) => knows'[c][d] # "none" \/ ~Silent(wire', c, d)
        BY <1>4, <1>5, <1>6, <2>1 DEF Show
      <3>4. (\E a \in ToSet(wire) : Probes(a, c, UserOf[d]))
              => \E a \in ToSet(wire') : Probes(a, c, UserOf[d])
        BY <1>1, <1>2 DEF Probes, m
      <3>5. Probing(c, UserOf[d]) => Probing(c, UserOf[d])'
        BY <1>1 DEF Probing
      <3>. QED
        BY <1>1, <3>1, <3>2, <3>3, <3>4, <3>5 DEF WillKnow
    <2>. QED
      BY <1>1, <2>1 DEF NobodyForgotten
  <1>. QED
    BY <1>8, <1>9, <1>10, <1>12, <1>13, <1>14, <1>15 DEF IInv

(* A presence of each of some clients.                                      *)
LEMMA ToldOfEach ==
  ASSUME NEW S \in SUBSET Client, NEW f \in [Client -> Presence], NEW to \in User \cup Client,
         NEW x, x = [i \in DOMAIN SetToSeq(S) |->
                       [kind |-> "presence", from |-> SetToSeq(S)[i],
                        show |-> f[SetToSeq(S)[i]], to |-> to, route |-> to]]
  PROVE  /\ x \in Seq(Stanza)
         /\ \A m : m \in ToSet(x) <=> \E d \in S :
              m = [kind |-> "presence", from |-> d, show |-> f[d], to |-> to, route |-> to]
  <1>. DEFINE list == SetToSeq(S)
              item(d) == [kind |-> "presence", from |-> d, show |-> f[d], to |-> to, route |-> to]
  <1>1. list \in Seq(S) /\ ToSet(list) = S
    <2>1. IsFiniteSet(S)
      BY PresenceAssumption, FS_Subset
    <2>. QED
      BY <2>1, ListFacts
  <1>2. x = [i \in DOMAIN list |-> item(list[i])]
    OBVIOUS
  <1>. HIDE DEF list
  <1>3. \A d \in S : item(d) \in Stanza
    BY DEF Stanza
  <1>. HIDE DEF item
  <1>4. /\ x \in Seq(Stanza) /\ Len(x) = Len(list)
        /\ \A i \in 1..Len(list) : x[i] = item(list[i])
    BY <1>1, <1>2, <1>3
  <1>5. \A d : d \in S <=> \E i \in 1..Len(list) : list[i] = d
    BY <1>1, InToSet
  <1>6. ASSUME NEW m
        PROVE  m \in ToSet(x) <=> \E d \in S : m = item(d)
    <2>1. m \in ToSet(x) <=> \E i \in 1..Len(list) : x[i] = m
      BY <1>4, InToSet
    <2>2. m \in ToSet(x) <=> \E i \in 1..Len(list) : m = item(list[i])
      BY <1>4, <2>1
    <2>. QED
      BY <1>5, <2>2
  <1>. QED
    BY <1>4, <1>6 DEF item

LEMMA DeliverProbeStep ==
  ASSUME IInv, DeliverProbe
  PROVE  IInv'
  <1>. DEFINE m == Head(wire)
              online == {d \in Resources(m.to) : last[d] # "none"}
              answers == SetToSeq(online)
              answer(d) == [kind |-> "presence", from |-> d, show |-> last[d],
                            to |-> m.from, route |-> m.from]
              x == [i \in DOMAIN answers |-> answer(answers[i])]
              w == Tail(wire)
  <1>1. /\ wire # <<>> /\ m.kind = "probe" /\ wire' = w \o x
        /\ bound' = bound /\ closing' = closing /\ active' = active /\ last' = last
        /\ job' = job /\ raised' = raised /\ knows' = knows
        /\ granted' = granted /\ following' = following
    BY DEF DeliverProbe, rosters, tables
  <1>2. /\ wire \in Seq(Stanza) /\ w \in Seq(Stanza)
        /\ ToSet(wire) = {m} \cup ToSet(w)
    BY <1>1, TailFacts DEF IInv, Typed
  <1>3. Legit(m)
    BY <1>2 DEF IInv, OnlyLegit
  <1>4. /\ m.from \in Client /\ m.to \in User /\ <<UserOf[m.from], m.to>> \in Follows
    BY <1>1, <1>3 DEF Legit
  <1>5. online \in SUBSET Client /\ m.from \in User \cup Client /\ last \in [Client -> Presence]
    BY <1>4 DEF Resources, IInv, Typed
  <1>6. \A d : d \in online <=> d \in bound /\ UserOf[d] = m.to /\ last[d] # "none"
    BY DEF Resources
  <1>7. x = [i \in DOMAIN SetToSeq(online) |->
               [kind |-> "presence", from |-> SetToSeq(online)[i],
                show |-> last[SetToSeq(online)[i]], to |-> m.from, route |-> m.from]]
    OBVIOUS
  <1>. HIDE DEF x, answers, online, m
  <1>8. x \in Seq(Stanza) /\ \A a : a \in ToSet(x) <=> \E d \in online : a = answer(d)
    BY <1>5, <1>7, ToldOfEach
  <1>20. ASSUME NEW d \in online
         PROVE  /\ Legit(answer(d))
                /\ answer(d).kind = "presence" /\ answer(d).from = d
                /\ answer(d).show = last[d] /\ answer(d).to = m.from
    <2>1. d \in Client /\ last[d] \in Show /\ UserOf[d] = m.to
      BY <1>5, <1>6 DEF IInv, Typed, Presence
    <2>2. <<UserAt(m.from), UserOf[d]>> \in Follows
      BY <1>4, <2>1, UserAtFacts
    <2>. QED
      BY <2>1, <2>2 DEF Legit
  <1>. HIDE DEF answer
  <1>. HIDE DEF w
  <1>9. wire' \in Seq(Stanza) /\ ToSet(wire') = ToSet(w) \cup ToSet(x)
    BY <1>1, <1>2, <1>8, ConcatFacts
  <1>10. \A c, d \in Client :
           /\ Silent(wire, c, d) <=> Silent(w, c, d)
           /\ \A v : LatestIs(wire, c, d, v) => LatestIs(w, c, d, v)
    <2>1. \A c, d \in Client : ~Tells(m, c, d)
      BY <1>1 DEF Tells
    <2>. QED
      BY <1>1, <1>2, <2>1, TailNews DEF w, m
  <1>11. \A c, d \in Client :
           /\ Silent(wire', c, d) <=> Silent(w, c, d) /\ Silent(x, c, d)
           /\ \A v : /\ \A a \in ToSet(x) : Tells(a, c, d) => a.show = v
                     /\ LatestIs(w, c, d, v) \/ ~Silent(x, c, d)
                     => LatestIs(wire', c, d, v)
    BY <1>1, <1>2, <1>8, MoreNews
  <1>12. Typed'
    BY <1>1, <1>9 DEF IInv, Typed
  <1>13. Staged'
    BY <1>1 DEF IInv, Staged, Prepared
  <1>14. OnlyLegit' /\ StrangersApart'
    BY <1>1, <1>2, <1>8, <1>9, <1>20 DEF IInv, OnlyLegit, StrangersApart
  <1>15. \A d \in Client : (Recorded(d)' <=> Recorded(d)) /\ Due(d)' = Due(d)
    BY <1>1 DEF Recorded, Due
  <1>16. InactiveIsGone'
    BY <1>1, <1>15 DEF IInv, InactiveIsGone
  <1>17. NewsIsDue'
    <2>1. ASSUME NEW c \in Client, NEW d \in Client,
                 Followed(c, d) /\ job[d].at # "route" /\ (Recorded(d)' \/ ~raised)
          PROVE  Current(c, d)'
      <3>1. Current(c, d)
        BY <1>15, <2>1 DEF IInv, NewsIsDue
      <3>2. \A a \in ToSet(x) : Tells(a, c, d) => a.show = Due(d)
        BY <1>6, <1>8, <1>20 DEF Tells, Due, Recorded
      <3>3. LatestIs(wire', c, d, Due(d)')
        BY <1>10, <1>11, <1>15, <3>1, <3>2 DEF Current
      <3>4. Silent(wire', c, d) => Silent(wire, c, d)
        BY <1>10, <1>11
      <3>. QED
        BY <1>1, <1>15, <3>1, <3>3, <3>4 DEF Current
    <2>. QED
      BY <1>1, <2>1 DEF NewsIsDue
  <1>18. NobodyForgotten'
    <2>1. ASSUME ~raised, NEW c \in Client, NEW d \in Client,
                 c \in bound /\ active[c] /\ Recorded(d)' /\ Followed(c, d)
          PROVE  WillKnow(c, d)'
      <3>1. WillKnow(c, d)
        BY <1>15, <2>1 DEF IInv, NobodyForgotten
      <3>2. ~Silent(wire, c, d) => ~Silent(wire', c, d)
        BY <1>10, <1>11
      <3>3. (\E a \in ToSet(wire) : Probes(a, c, UserOf[d]))
              => \/ \E a \in ToSet(wire') : Probes(a, c, UserOf[d])
                 \/ ~Silent(wire', c, d)
        <4>1. ASSUME Probes(m, c, UserOf[d])
              PROVE  ~Silent(wire', c, d)
          <5>1. d \in online
            BY <1>1, <1>6, <1>15, <2>1, <4>1 DEF Probes, Recorded
          <5>2. Tells(answer(d), c, d)
            BY <1>20, <4>1, <5>1 DEF Tells, Probes
          <5>3. answer(d) \in ToSet(x)
            BY <1>8, <5>1
          <5>. QED
            BY <1>11, <5>2, <5>3 DEF Silent
        <4>. QED
          BY <1>2, <1>9, <4>1
      <3>4. Probing(c, UserOf[d]) => Probing(c, UserOf[d])'
        BY <1>1 DEF Probing
      <3>. QED
        BY <1>1, <3>1, <3>2, <3>3, <3>4 DEF WillKnow
    <2>. QED
      BY <1>1, <2>1 DEF NobodyForgotten
  <1>. QED
    BY <1>12, <1>13, <1>14, <1>16, <1>17, <1>18 DEF IInv

-----------------------------------------------------------------------------
LEMMA InitIInv == Init => IInv
  <1>. SUFFICES ASSUME Init PROVE IInv
    OBVIOUS
  <1>1. Idle \in Job /\ Idle.at = "idle"
    BY DEF Idle, Job, Presence
  <1>2. wire = <<>> /\ ToSet(wire) = {} /\ Len(wire) = 0
    BY DEF Init, ToSet
  <1>3. Typed
    <2>1. knows \in [Client -> [Client -> Presence]] /\ last \in [Client -> Presence]
      BY DEF Init, Presence
    <2>2. job \in [Client -> Job]
      BY <1>1, Zenon DEF Init
    <2>3. closing \in [Client -> BOOLEAN] /\ active \in [Client -> BOOLEAN]
      BY DEF Init
    <2>4. /\ granted = Follows /\ following = Follows /\ bound = {} /\ raised = FALSE
          /\ wire \in Seq(Stanza)
      BY <1>2 DEF Init
    <2>. QED
      BY <2>1, <2>2, <2>3, <2>4 DEF Typed
  <1>4. \A d \in Client : job[d].at = "idle" /\ ~Recorded(d) /\ Due(d) = "unavailable"
    BY <1>1 DEF Init, Recorded, Due
  <1>5. Staged /\ InactiveIsGone
    BY <1>4 DEF Init, Staged, InactiveIsGone
  <1>6. OnlyLegit /\ StrangersApart
    BY <1>2 DEF Init, OnlyLegit, StrangersApart
  <1>7. NewsIsDue /\ NobodyForgotten
    BY <1>2 DEF Init, NewsIsDue, NobodyForgotten, Current, LatestIs
  <1>. QED
    BY <1>3, <1>5, <1>6, <1>7 DEF IInv

LEMMA StutterStep == IInv /\ UNCHANGED vars => IInv'
  <1>. SUFFICES ASSUME IInv, UNCHANGED vars PROVE IInv'
    OBVIOUS
  <1>1. /\ granted' = granted /\ following' = following /\ bound' = bound
        /\ closing' = closing /\ active' = active /\ last' = last
        /\ job' = job /\ wire' = wire /\ knows' = knows /\ raised' = raised
    BY DEF vars, rosters, tables
  <1>2. \A d \in Client : (Recorded(d)' <=> Recorded(d)) /\ Due(d)' = Due(d)
    BY <1>1 DEF Recorded, Due
  <1>3. Typed' /\ Staged' /\ OnlyLegit' /\ StrangersApart'
    BY <1>1 DEF IInv, Typed, Staged, Prepared, OnlyLegit, StrangersApart
  <1>4. InactiveIsGone'
    BY <1>1, <1>2 DEF IInv, InactiveIsGone
  <1>5. NewsIsDue'
    BY <1>1, <1>2 DEF IInv, NewsIsDue, Current
  <1>6. NobodyForgotten'
    BY <1>1, <1>2 DEF IInv, NobodyForgotten, WillKnow, Probing
  <1>. QED
    BY <1>3, <1>4, <1>5, <1>6 DEF IInv

LEMMA InvariantHolds == Safety => []IInv
  <1>1. IInv /\ [Next]_vars => IInv'
    BY BindStep, SendPresenceStep, StreamEndStep, ActStep, RaiseStep, RecordStep,
       RouteOutStep, DeliverPresenceStep, DeliverProbeStep, StutterStep
    DEF Next, Deliver, Work
  <1>. QED
    BY <1>1, InitIInv, PTL DEF Safety

-----------------------------------------------------------------------------
(* When all is quiet, a follower knows nothing of a client, or what is due. *)
LEMMA QuietFollowers ==
  ASSUME IInv, Quiet, NEW c \in Client, NEW d \in Client,
         c \in bound, UserOf[c] # UserOf[d], Recorded(d) \/ ~raised
  PROVE  knows[c][d] \in {"none", Due(d)}
  <1>1. Silent(wire, c, d)
    BY DEF Quiet, Silent, ToSet
  <1>2. CASE Followed(c, d)
    BY <1>1, <1>2 DEF Quiet, IInv, NewsIsDue, Current
  <1>3. CASE ~Followed(c, d)
    BY <1>3 DEF IInv, StrangersApart
  <1>. QED
    BY <1>2, <1>3

(* Once all is quiet, what a client was told last of a resource of another  *)
(* user is what the server has recorded last: c2s-presence records before   *)
(* its route-servers send, and s2s-probe answers with what is recorded.     *)
THEOREM NoneOutdatedHolds == Spec => []NoneOutdated
  <1>1. IInv => NoneOutdated
    <2>. SUFFICES ASSUME IInv, Quiet, NEW c \in bound, NEW d \in bound,
                         UserOf[c] # UserOf[d], last[d] # "none", knows[c][d] # "none"
                  PROVE  knows[c][d] = last[d]
      BY DEF NoneOutdated
    <2>1. c \in Client /\ d \in Client /\ Recorded(d) /\ Due(d) = last[d]
      BY DEF IInv, Typed, Recorded, Due
    <2>. QED
      BY <2>1, QuietFollowers
  <1>. QED
    BY <1>1, InvariantHolds, PTL DEF Spec

(* Once all is quiet, and unless a handler has raised, no client shows as   *)
(* online a resource that is gone: stream-end forgets a connection only     *)
(* after its last presence, or when its latest was "unavailable" anyway.    *)
THEOREM GoneIsOfflineHolds == Spec => []GoneIsOffline
  <1>1. IInv => GoneIsOffline
    <2>. SUFFICES ASSUME IInv, Quiet, ~raised, NEW c \in bound, NEW d \in Client \ bound,
                         UserOf[c] # UserOf[d]
                  PROVE  knows[c][d] \in {"none", "unavailable"}
      BY DEF GoneIsOffline
    <2>1. c \in Client /\ d \in Client /\ Due(d) = "unavailable"
      BY DEF IInv, Typed, Recorded, Due
    <2>. QED
      BY <2>1, QuietFollowers
  <1>. QED
    BY <1>1, InvariantHolds, PTL DEF Spec

(* And an active client knows the latest presence of every resource of the  *)
(* users it follows, however the probes of c2s-presence, the presence of    *)
(* the others and the ends of streams interleave.                           *)
THEOREM FollowersInformedHolds == Spec => []FollowersInformed
  <1>1. IInv => FollowersInformed
    <2>. SUFFICES ASSUME IInv, Quiet, ~raised, NEW c \in bound, NEW d \in bound,
                         active[c], <<UserOf[c], UserOf[d]>> \in Follows, last[d] # "none"
                  PROVE  knows[c][d] = last[d]
      BY DEF FollowersInformed
    <2>1. c \in Client /\ d \in Client /\ Recorded(d) /\ Due(d) = last[d]
      BY DEF IInv, Typed, Recorded, Due
    <2>2. Followed(c, d)
      BY DEF Followed
    <2>3. wire = <<>> /\ ToSet(wire) = {} /\ job[c].at = "idle" /\ job[d].at = "idle"
      BY <2>1 DEF Quiet, ToSet
    <2>4. Silent(wire, c, d)
      BY <2>3 DEF Silent
    <2>5. knows[c][d] # "none"
      BY <2>1, <2>2, <2>3, <2>4 DEF IInv, NobodyForgotten, WillKnow, Probing
    <2>6. knows[c][d] \in {"none", Due(d)}
      BY <2>1, <2>2, <2>3, <2>4 DEF IInv, NewsIsDue, Current
    <2>. QED
      BY <2>1, <2>5, <2>6
  <1>. QED
    BY <1>1, InvariantHolds, PTL DEF Spec

-----------------------------------------------------------------------------
(* Following: the inductive invariant.                                      *)

FollowingJob ==
  [at : {"idle", "act", "loop", "list", "listing", "remove", "route"}, show : Presence,
   initial : BOOLEAN, seen : Nat, probed : Seq(User), items : Seq(Stanza), handlers : Nat]

LinkJob == [at : {"idle", "list", "listing", "route"}, pair : (User \X User) \cup {<<>>},
            seen : Nat, items : Seq(Stanza)]

FollowingTyped ==
  /\ granted \subseteq User \X User /\ following \subseteq User \X User
  /\ asked \subseteq User \X User /\ asking \subseteq User \X User
  /\ bound \subseteq Client
  /\ closing \in [Client -> BOOLEAN] /\ active \in [Client -> BOOLEAN]
  /\ last \in [Client -> Presence]
  /\ knows \in [Client -> [Client -> Presence]]
  /\ raised \in BOOLEAN
  /\ job \in [Client -> FollowingJob]
  /\ wire \in Seq(Stanza)
  /\ changing \in [Client -> SUBSET User]
  /\ link \in LinkJob /\ (link.at # "idle" => link.pair \in User \X User)

(* u does not follow v any more, and will not again.                        *)
Over(u, v) == <<u, v>> \notin asked \cup granted

Pair(c, d) == <<UserOf[c], UserOf[d]>>

TellsUser(m, d, u) == m.kind = "presence" /\ m.from = d /\ m.to = u

ChangeKind == {"subscribed", "unsubscribe", "unsubscribed"}

(* What is sent goes to a resource of the same user, or between users of    *)
(* whom the one does not wait for the answer of the other.                  *)
Allowed(m) ==
  \/ /\ m.kind = "presence" /\ m.from \in Client /\ m.show \in Show
     /\ \/ m.to \in Client /\ UserOf[m.to] = UserOf[m.from]
        \/ <<UserAt(m.to), UserOf[m.from]>> \notin asked
  \/ /\ m.kind = "probe" /\ m.from \in Client /\ m.to \in User
     /\ <<UserOf[m.from], m.to>> \notin asked
  \/ m.kind = "subscribed" /\ <<m.to, m.from>> \notin asked
  \/ m.kind \in {"unsubscribe", "unsubscribed"}

(* c2s-presence has prepared the latest presence of d, and its probes.      *)
RoutesPresence(d) ==
  /\ job[d].show = last[d] /\ last[d] \in Show
  /\ closing[d] => last[d] = "unavailable"
  /\ \A m \in ToSet(job[d].items) :
       /\ m.kind \in {"presence", "probe"} /\ m.from = d /\ Allowed(m)
       /\ m.kind = "presence" => m.show = last[d]

Advertises(m, v) ==
  /\ m.kind = "presence" /\ m.from \in Client /\ UserOf[m.from] = v
  /\ m.to \in User /\ m.show \in {"available", "unavailable"}

(* Whoever is told that something is unavailable does not follow any more.  *)
ChangeItem(m, v) ==
  \/ /\ m.kind \in ChangeKind /\ m.from = v
     /\ m.kind = "subscribed" => <<m.to, v>> \notin asked
  \/ /\ Advertises(m, v) /\ <<m.to, v>> \notin asked
     /\ m.show = "unavailable" => Over(m.to, v)

TellsOfAll(items, u, v) ==
  \A d \in bound : UserOf[d] = v => \E m \in ToSet(items) : TellsUser(m, d, u)

(* A change of a subscription, and what goes with it: after an approval the *)
(* presence of all resources that have been bound since before it.  The last*)
(* item is routed first.                                                    *)
RoutesChange(c) ==
  /\ ~closing[c]
  /\ \A m \in ToSet(job[c].items) : ChangeItem(m, UserOf[c])
  /\ \E m \in ToSet(job[c].items) : m.kind \in ChangeKind
  /\ \A i \in 1..Len(job[c].items) :
       job[c].items[i].kind = "subscribed" => i = Len(job[c].items)
  /\ \A m \in ToSet(job[c].items) :
       /\ m.kind = "subscribed"
       /\ <<m.to, UserOf[c]>> \in granted /\ <<m.to, UserOf[c]>> \notin crossed
       => TellsOfAll(job[c].items, m.to, UserOf[c])

(* The handler of an answer or of a removal, on its way to the other user.  *)
Answering(c, u) ==
  /\ changing[c] = {u} /\ ~closing[c]
  /\ job[c].show \in {"available", "unavailable", "none"}
  /\ job[c].show = "available" => <<u, UserOf[c]>> \notin asked
  /\ job[c].show = "unavailable" => Over(u, UserOf[c])
  /\ job[c].at = "remove" =>
       /\ job[c].show = "none"
       /\ \A m \in ToSet(job[c].items) :
            \/ m.kind \in {"unsubscribe", "unsubscribed"} /\ m.from = UserOf[c]
            \/ Advertises(m, UserOf[c]) /\ m.show = "unavailable" /\ m.to = u
       /\ \E m \in ToSet(job[c].items) : m.kind \in ChangeKind
       /\ <<u, UserOf[c]>> \notin crossed => TellsOfAll(job[c].items, u, UserOf[c])

JobStaged(d) ==
  /\ d \notin bound => job[d].at = "idle"
  /\ job[d].at \in {"act", "loop"} =>
       job[d].show \in Show /\ (closing[d] => job[d].show = "unavailable")
  /\ job[d].at = "loop" => \A v \in ToSet(job[d].probed) : <<UserOf[d], v>> \notin asked
  /\ job[d].at = "route" => RoutesPresence(d) \/ RoutesChange(d)
  /\ job[d].at \in {"list", "listing", "remove"} => \E u \in User : Answering(d, u)
  /\ job[d].at \notin {"list", "listing", "remove"} => changing[d] = {}

JobsStaged == \A d \in Client : JobStaged(d)

LinkStaged ==
  /\ link.at # "idle" => Over(link.pair[1], link.pair[2])
  /\ link.at = "route" => \A m \in ToSet(link.items) :
       \/ m.kind = "unsubscribed"
       \/ Advertises(m, link.pair[2]) /\ m.show = "unavailable" /\ m.to = link.pair[1]

WireAllowed == \A m \in ToSet(wire) : Allowed(m)

Exclusive == asked \cap granted = {} /\ asked \cap following = {}

(* c2s-presence is telling of d what is not recorded yet, or not sent.      *)
InNews(d) ==
  \/ job[d].at = "loop"
  \/ job[d].at = "route" /\ \A m \in ToSet(job[d].items) : m.kind \notin ChangeKind

Gone(d) ==
  /\ d \notin bound => last[d] \in {"none", "unavailable"}
  /\ ~active[d] => IF InNews(d) THEN job[d].show = "unavailable" ELSE Due(d) = "unavailable"

GoneWhenInactive == \A d \in Client : Gone(d)

(* Who waits for an answer has been told nothing.                           *)
NotYetTold ==
  \A c, d \in Client :
    UserOf[c] # UserOf[d] /\ Pair(c, d) \in asked => knows[c][d] = "none"

OnItsWay(d, u) ==
  job[d].at = "route" /\ \E m \in ToSet(job[d].items) : TellsUser(m, d, u)

(* Resources of one and the same user that the user has just approved.      *)
Informed(c, d) ==
  /\ Recorded(d) /\ Pair(c, d) \notin crossed
  /\ \/ Pair(c, d) \in following
     \/ \E m \in ToSet(wire) : TellsUser(m, d, UserOf[c])

(* Whoever is granted the presence of d knows what is due, or is about to.  *)
NewsArrives ==
  \A c, d \in Client :
    /\ Pair(c, d) \in granted /\ ~OnItsWay(d, UserOf[c]) /\ d \notin misled
    /\ UserOf[c] # UserOf[d] \/ Informed(c, d)
    => Current(c, d)

(* The handler on the connection c, or on the one to itself, is telling u,  *)
(* or is to tell u, that d is unavailable.                                  *)
Parts(c, u, d) ==
  \/ /\ d \in bound /\ UserOf[c] = UserOf[d]
     /\ u \in changing[c] /\ job[c].show = "unavailable"
  \/ job[c].at = "route" /\ \E m \in ToSet(job[c].items) : TellsUser(m, d, u)

LinkParts(u, d) ==
  \/ d \in bound /\ link.at \in {"list", "listing"} /\ link.pair = <<u, UserOf[d]>>
  \/ link.at = "route" /\ \E m \in ToSet(link.items) : TellsUser(m, d, u)

ToPart(u, d) == LinkParts(u, d) \/ \E c \in Client : Parts(c, u, d)

Hushed(c, d) ==
  /\ LatestIs(wire, c, d, "unavailable")
  /\ c \in bound /\ Silent(wire, c, d) => knows[c][d] \in {"none", "unavailable"}

OverIsTold ==
  \A c, d \in Client :
    /\ UserOf[c] # UserOf[d] /\ Over(UserOf[c], UserOf[d])
    /\ Pair(c, d) \notin crossed /\ d \notin misled /\ ~ToPart(UserOf[c], d)
    => Hushed(c, d)

(* After the approval of v there is presence of d on its way to u.          *)
Announced(w, u, v, d) ==
  \A i \in 1..Len(w) : w[i].kind = "subscribed" /\ w[i].from = v /\ w[i].to = u =>
    \E j \in 1..Len(w) : i < j /\ TellsUser(w[j], d, u)

ApprovalsInform ==
  \A u \in User, d \in Client :
    /\ <<u, UserOf[d]>> \in granted /\ <<u, UserOf[d]>> \notin crossed /\ Recorded(d)
    => OnItsWay(d, u) \/ Announced(wire, u, UserOf[d], d)

Learns(c, d) ==
  \/ knows[c][d] # "none"
  \/ ~Silent(wire, c, d)
  \/ \E m \in ToSet(wire) : Probes(m, c, UserOf[d])
  \/ Probing(c, UserOf[d])
  \/ OnItsWay(d, UserOf[c])

FollowersLearn ==
  \A c, d \in Client :
    /\ c \in bound /\ active[c] /\ Recorded(d) /\ Pair(c, d) \in following
    /\ Pair(c, d) \in granted /\ Pair(c, d) \notin crossed
    => Learns(c, d)

Knowledge == NotYetTold /\ NewsArrives /\ OverIsTold /\ ApprovalsInform /\ FollowersLearn

Consistent ==
  JobsStaged /\ LinkStaged /\ WireAllowed /\ Exclusive /\ GoneWhenInactive /\ Knowledge

(* The users of bound resources have a key in data['resources'].            *)
BoundKnown == \A d \in bound : UserOf[d] \in known

FollowingInv == FollowingTyped /\ BoundKnown /\ (~raised => Consistent)

-----------------------------------------------------------------------------
(* Steps, by what they do to what everybody is told.                        *)

(* Subscriptions only end, but for those that somebody waits for.           *)
Ages ==
  /\ asked' \subseteq asked /\ granted' \subseteq granted \cup asked
  /\ crossed \subseteq crossed' /\ misled \subseteq misled'

(* w, the beginning of the next wire, brings the presence that the wire     *)
(* would bring.                                                             *)
Thins(w) ==
  /\ w \in Seq(Stanza)
  /\ ToSet(w) \subseteq ToSet(wire)
  /\ \A c, d \in Client :
       /\ Silent(w, c, d) <=> Silent(wire, c, d)
       /\ \A v : LatestIs(wire, c, d, v) => LatestIs(w, c, d, v)
  /\ \A u, v \in User, d \in Client : Announced(wire, u, v, d) => Announced(w, u, v, d)

(* Nobody's presence changes, but for those who are telling it; nobody      *)
(* forgets what he was told, but for those who have just been bound.        *)
Keeps ==
  /\ \A c \in Client : \/ knows'[c] = knows[c] /\ (c \in bound' => c \in bound)
                       \/ ~active'[c] /\ \A d \in Client : knows'[c][d] = "none"
  /\ \A d \in Client : \/ (Recorded(d)' => Recorded(d)) /\ Due(d)' = Due(d)
                       \/ \A u \in User : <<u, UserOf[d]>> \in granted' => OnItsWay(d, u)'

(* What begins: subscriptions, active resources, ends of subscriptions.     *)
Begins(w) ==
  /\ \A c, d \in Client :
       /\ Pair(c, d) \in following' /\ Pair(c, d) \notin following
       /\ Pair(c, d) \in granted' /\ Pair(c, d) \notin crossed' /\ Recorded(d)'
       => OnItsWay(d, UserOf[c])' \/ \E m \in ToSet(w) : TellsUser(m, d, UserOf[c])
  /\ \A c \in Client : active'[c] /\ ~active[c] =>
       \A u \in User : <<UserOf[c], u>> \in following' => Probing(c, u)'
  /\ \A u \in User, d \in bound :
       Over(u, UserOf[d])' /\ ~Over(u, UserOf[d]) /\ <<u, UserOf[d]>> \notin crossed'
       => ToPart(u, d)'

(* What x, the end of the next wire, brings, and what it need not bring.    *)
Brings(x) ==
  /\ x \in Seq(Stanza)
  /\ \A c, d \in Client, m \in ToSet(x) : Tells(m, c, d) =>
       /\ Pair(c, d) \in granted' /\ d \notin misled' => m.show = Due(d)'
       /\ UserOf[c] # UserOf[d] /\ Over(UserOf[c], UserOf[d])' /\ Pair(c, d) \notin crossed'
            => m.show = "unavailable"
       /\ UserOf[c] # UserOf[d] => Pair(c, d) \notin asked'
  /\ \A u \in User, d \in Client :
       /\ <<u, UserOf[d]>> \in granted' /\ <<u, UserOf[d]>> \notin crossed' /\ Recorded(d)'
       => Announced(x, u, UserOf[d], d)

Leaves(x) ==
  \A u \in User :
    /\ \A d \in Client : OnItsWay(d, u) =>
         OnItsWay(d, u)' \/ \E m \in ToSet(x) : TellsUser(m, d, u)
    /\ \A d \in Client : ToPart(u, d) /\ <<u, UserOf[d]>> \notin crossed' =>
         ToPart(u, d)' \/ \E m \in ToSet(x) : TellsUser(m, d, u)
    /\ \A c \in Client : Probing(c, u) => Probing(c, u)' \/ \E m \in ToSet(x) : Probes(m, c, u)

(* A probe leaves the wire with its answers.                                *)
Answers(w, x) ==
  \A c, d \in Client, m \in ToSet(wire) :
    Probes(m, c, UserOf[d]) /\ Recorded(d) => m \in ToSet(w) \/ ~Silent(x, c, d)

LEMMA PairFacts ==
  /\ \A c \in Client : UserOf[c] \in User /\ c \notin User
  /\ \A m, d : \A u \in User, c \in Client : TellsUser(m, d, u) /\ UserOf[c] = u => Tells(m, c, d)
  /\ \A m : \A c, d \in Client :
       Allowed(m) /\ Tells(m, c, d) /\ UserOf[c] # UserOf[d] => Pair(c, d) \notin asked
  /\ \A m : \A u \in User, d \in Client :
       Allowed(m) /\ TellsUser(m, d, u) => <<u, UserOf[d]>> \notin asked
  <1>1. \A c \in Client : UserOf[c] \in User /\ c \notin User /\ UserAt(c) = UserOf[c]
    BY UserAtFacts
  <1>2. ASSUME NEW m, NEW c \in Client, NEW d \in Client,
               Allowed(m), Tells(m, c, d), UserOf[c] # UserOf[d]
        PROVE  Pair(c, d) \notin asked
    <2>1. m.from = d /\ (m.to = c \/ m.to = UserOf[c]) /\ m.kind = "presence"
      BY <1>2 DEF Tells
    <2>2. UserAt(m.to) = UserOf[c]
      BY <1>1, <2>1, UserAtFacts
    <2>3. ~(m.to \in Client /\ UserOf[m.to] = UserOf[m.from])
      BY <1>1, <1>2, <2>1
    <2>. QED
      BY <1>2, <2>1, <2>2, <2>3 DEF Allowed, Pair
  <1>3. ASSUME NEW m, NEW u \in User, NEW d \in Client, Allowed(m), TellsUser(m, d, u)
        PROVE  <<u, UserOf[d]>> \notin asked
    BY <1>1, <1>3, UserAtFacts DEF Allowed, TellsUser
  <1>4. \A m, d : \A u \in User, c \in Client :
          TellsUser(m, d, u) /\ UserOf[c] = u => Tells(m, c, d)
    BY DEF Tells, TellsUser
  <1>. QED
    BY <1>1, <1>2, <1>3, <1>4

LEMMA ThinsSelf == FollowingTyped => Thins(wire)
  BY DEF FollowingTyped, Thins

LEMMA TailAnnounced ==
  ASSUME NEW y \in Seq(Stanza), y # <<>>, NEW u, NEW v, NEW d, Announced(y, u, v, d)
  PROVE  Announced(Tail(y), u, v, d)
  <1>. DEFINE w == Tail(y)
  <1>1. /\ w \in Seq(Stanza) /\ Len(y) \in Nat \ {0} /\ Len(w) = Len(y) - 1
        /\ \A k \in 1..Len(w) : w[k] = y[k + 1]
    BY TailFacts
  <1>. HIDE DEF w
  <1>2. ASSUME NEW i \in 1..Len(w), w[i].kind = "subscribed", w[i].from = v, w[i].to = u
        PROVE  \E j \in 1..Len(w) : i < j /\ TellsUser(w[j], d, u)
    <2>1. i + 1 \in 1..Len(y) /\ y[i + 1] = w[i]
      BY <1>1
    <2>2. PICK j \in 1..Len(y) : i + 1 < j /\ TellsUser(y[j], d, u)
      BY <1>2, <2>1 DEF Announced
    <2>3. j - 1 \in 1..Len(w) /\ i < j - 1 /\ (j - 1) + 1 = j
      BY <1>1, <2>2
    <2>4. w[j - 1] = y[j]
      BY <1>1, <2>3
    <2>. QED
      BY <2>2, <2>3, <2>4
  <1>. QED
    BY <1>2 DEF Announced, w

LEMMA ThinsTail ==
  ASSUME FollowingTyped, wire # <<>>, Head(wire).kind # "presence"
  PROVE  Thins(Tail(wire))
  <1>. DEFINE w == Tail(wire)
  <1>1. wire \in Seq(Stanza)
    BY DEF FollowingTyped
  <1>2. /\ w \in Seq(Stanza) /\ Len(wire) \in Nat \ {0} /\ Len(w) = Len(wire) - 1
        /\ Head(wire) = wire[1] /\ \A k \in 1..Len(w) : w[k] = wire[k + 1]
        /\ ToSet(wire) = {Head(wire)} \cup ToSet(w)
    BY <1>1, TailFacts
  <1>3. ASSUME NEW c \in Client, NEW d \in Client
        PROVE  /\ Silent(w, c, d) <=> Silent(wire, c, d)
               /\ \A v : LatestIs(wire, c, d, v) => LatestIs(w, c, d, v)
    <2>1. ~Tells(Head(wire), c, d)
      BY DEF Tells
    <2>. QED
      BY <1>1, <2>1, TailNews
  <1>. HIDE DEF w
  <1>4. \A u, v, d : Announced(wire, u, v, d) => Announced(w, u, v, d)
    BY <1>1, TailAnnounced DEF w
  <1>. QED
    BY <1>2, <1>3, <1>4 DEF w, Thins

LEMMA MoreAnnounced ==
  ASSUME NEW w \in Seq(Stanza), NEW x \in Seq(Stanza), NEW u, NEW v, NEW d,
         Announced(x, u, v, d),
         Announced(w, u, v, d) \/ \E m \in ToSet(x) : TellsUser(m, d, u)
  PROVE  Announced(w \o x, u, v, d)
  <1>. DEFINE y == w \o x
  <1>1. /\ y \in Seq(Stanza) /\ Len(w) \in Nat /\ Len(x) \in Nat /\ Len(y) = Len(w) + Len(x)
        /\ \A k \in 1..Len(y) : y[k] = IF k <= Len(w) THEN w[k] ELSE x[k - Len(w)]
    OBVIOUS
  <1>. HIDE DEF y
  <1>2. \A k \in 1..Len(x) : k + Len(w) \in 1..Len(y) /\ y[k + Len(w)] = x[k]
    <2>1. \A k \in 1..Len(x) : /\ k + Len(w) \in 1..Len(y) /\ ~(k + Len(w) <= Len(w))
                               /\ (k + Len(w)) - Len(w) = k
      BY <1>1
    <2>. QED
      BY <1>1, <2>1
  <1>3. ASSUME NEW i \in 1..Len(y), y[i].kind = "subscribed", y[i].from = v, y[i].to = u
        PROVE  \E j \in 1..Len(y) : i < j /\ TellsUser(y[j], d, u)
    <2>1. CASE i <= Len(w)
      <3>1. i \in 1..Len(w) /\ y[i] = w[i]
        BY <1>1, <2>1
      <3>2. CASE Announced(w, u, v, d)
        <4>1. PICK j \in 1..Len(w) : i < j /\ TellsUser(w[j], d, u)
          BY <1>3, <3>1, <3>2 DEF Announced
        <4>2. j \in 1..Len(y) /\ y[j] = w[j]
          BY <1>1
        <4>. QED
          BY <4>1, <4>2
      <3>3. CASE \E m \in ToSet(x) : TellsUser(m, d, u)
        <4>1. PICK k \in 1..Len(x) : TellsUser(x[k], d, u)
          BY <3>3, InToSet
        <4>2. k + Len(w) \in 1..Len(y) /\ y[k + Len(w)] = x[k]
          BY <1>2
        <4>3. i < k + Len(w)
          BY <1>1, <3>1
        <4>. QED
          BY <4>1, <4>2, <4>3
      <3>. QED
        BY <3>2, <3>3
    <2>2. CASE ~(i <= Len(w))
      <3>1. i - Len(w) \in 1..Len(x) /\ y[i] = x[i - Len(w)]
        BY <1>1, <2>2
      <3>2. PICK k \in 1..Len(x) : i - Len(w) < k /\ TellsUser(x[k], d, u)
        BY <1>3, <3>1 DEF Announced
      <3>3. k + Len(w) \in 1..Len(y) /\ y[k + Len(w)] = x[k]
        BY <1>2
      <3>4. i < k + Len(w)
        BY <1>1, <3>2
      <3>. QED
        BY <3>2, <3>3, <3>4
    <2>. QED
      BY <2>1, <2>2
  <1>. QED
    BY <1>3 DEF Announced, y

(* A step that keeps to these leaves everybody told, or about to be told.   *)
LEMMA KnowledgeStep ==
  ASSUME FollowingTyped, Consistent, Ages, Keeps, NEW w, NEW x, wire' = w \o x,
         Thins(w), Begins(w), Brings(x), Leaves(x), Answers(w, x)
  PROVE  Knowledge'
  <1>1. /\ w \in Seq(Stanza) /\ x \in Seq(Stanza) /\ ToSet(w) \subseteq ToSet(wire)
        /\ ToSet(wire') = ToSet(w) \cup ToSet(x)
    <2>1. w \in Seq(Stanza) /\ x \in Seq(Stanza) /\ ToSet(w) \subseteq ToSet(wire)
      BY DEF Thins, Brings
    <2>. QED
      BY <2>1, ConcatFacts
  <1>2. ASSUME NEW c \in Client, NEW d \in Client
        PROVE  /\ Silent(wire', c, d) <=> Silent(wire, c, d) /\ Silent(x, c, d)
               /\ \A v : /\ \A m \in ToSet(x) : Tells(m, c, d) => m.show = v
                         /\ LatestIs(wire, c, d, v) \/ ~Silent(x, c, d)
                         => LatestIs(wire', c, d, v)
    <2>1. /\ Silent(wire', c, d) <=> Silent(w, c, d) /\ Silent(x, c, d)
          /\ \A v : /\ \A m \in ToSet(x) : Tells(m, c, d) => m.show = v
                    /\ LatestIs(w, c, d, v) \/ ~Silent(x, c, d)
                    => LatestIs(wire', c, d, v)
      BY <1>1, MoreNews
    <2>2. /\ Silent(w, c, d) <=> Silent(wire, c, d)
          /\ \A v : LatestIs(wire, c, d, v) => LatestIs(w, c, d, v)
      BY DEF Thins
    <2>. QED
      BY <2>1, <2>2
  <1>3. \A c, d \in Client : /\ Pair(c, d) \in granted' => Pair(c, d) \in granted \cup asked
                             /\ Pair(c, d) \in asked' => Pair(c, d) \in asked
                             /\ Pair(c, d) \notin crossed' => Pair(c, d) \notin crossed
                             /\ d \notin misled' => d \notin misled
    BY DEF Ages
  <1>4. \A c, d \in Client : UserOf[c] \in User /\ UserOf[d] \in User
    BY PairFacts
  <1>5. ASSUME NEW c \in Client, NEW d \in Client, Pair(c, d) \in asked
        PROVE  /\ UserOf[c] # UserOf[d] => Silent(wire, c, d) /\ knows[c][d] = "none"
               /\ ~\E m \in ToSet(wire) : TellsUser(m, d, UserOf[c])
               /\ Pair(c, d) \notin following
               /\ Announced(wire, UserOf[c], UserOf[d], d)
    <2>1. UserOf[c] # UserOf[d] => Silent(wire, c, d)
      BY <1>5, PairFacts DEF Consistent, WireAllowed, Silent
    <2>2. ~\E m \in ToSet(wire) : TellsUser(m, d, UserOf[c])
      BY <1>4, <1>5, PairFacts DEF Consistent, WireAllowed, Pair
    <2>3. UserOf[c] # UserOf[d] => knows[c][d] = "none"
      BY <1>5 DEF Consistent, Knowledge, NotYetTold
    <2>4. Pair(c, d) \notin following
      BY <1>5 DEF Consistent, Exclusive
    <2>5. ASSUME NEW m \in ToSet(wire), m.kind = "subscribed", m.from = UserOf[d], m.to = UserOf[c]
          PROVE  FALSE
      <3>1. <<m.to, m.from>> \notin asked
        BY <2>5 DEF Consistent, WireAllowed, Allowed
      <3>. QED
        BY <1>5, <2>5, <3>1 DEF Pair
    <2>6. Announced(wire, UserOf[c], UserOf[d], d)
      <3>1. wire \in Seq(Stanza)
        BY DEF FollowingTyped
      <3>2. \A i \in 1..Len(wire) : wire[i] \in ToSet(wire)
        BY <3>1, ItemInToSet
      <3>. QED
        BY <2>5, <3>2 DEF Announced
    <2>. QED
      BY <2>1, <2>2, <2>3, <2>4, <2>6
  <1>6. NotYetTold'
    <2>1. ASSUME NEW c \in Client, NEW d \in Client, UserOf[c] # UserOf[d], Pair(c, d) \in asked'
          PROVE  knows'[c][d] = "none"
      <3>1. knows[c][d] = "none"
        BY <1>3, <1>5, <2>1
      <3>. QED
        BY <3>1 DEF Keeps
    <2>. QED
      BY <2>1 DEF NotYetTold, Pair
  <1>7. NewsArrives'
    <2>1. ASSUME NEW c \in Client, NEW d \in Client,
                 Pair(c, d) \in granted', ~OnItsWay(d, UserOf[c])', d \notin misled',
                 UserOf[c] # UserOf[d] \/ Informed(c, d)'
          PROVE  Current(c, d)'
      <3>1. (Recorded(d)' => Recorded(d)) /\ Due(d)' = Due(d)
        BY <1>4, <2>1 DEF Keeps, Pair
      <3>2. \A m \in ToSet(x) : Tells(m, c, d) => m.show = Due(d)'
        BY <2>1 DEF Brings
      <3>3. CASE ~Silent(x, c, d)
        <4>1. LatestIs(wire', c, d, Due(d)') /\ ~Silent(wire', c, d)
          BY <1>2, <3>2, <3>3
        <4>. QED
          BY <4>1 DEF Current
      <3>4. CASE Silent(x, c, d)
        <4>1. ~\E m \in ToSet(x) : TellsUser(m, d, UserOf[c])
          BY <1>4, <3>4, PairFacts DEF Silent
        <4>2. ~OnItsWay(d, UserOf[c])
          BY <1>4, <2>1, <4>1 DEF Leaves
        <4>3. ASSUME Informed(c, d)'
              PROVE  Informed(c, d)
          <5>1. Recorded(d) /\ Pair(c, d) \notin crossed
            BY <1>3, <3>1, <4>3 DEF Informed, Pair
          <5>2. CASE Pair(c, d) \in following
            BY <5>1, <5>2 DEF Informed
          <5>3. CASE Pair(c, d) \notin following
            <6>1. \E m \in ToSet(w) : TellsUser(m, d, UserOf[c])
              <7>1. CASE Pair(c, d) \in following'
                BY <2>1, <4>3, <5>3, <7>1 DEF Begins, Informed, Pair
              <7>2. CASE Pair(c, d) \notin following'
                BY <1>1, <4>1, <4>3, <7>2 DEF Informed, Pair
              <7>. QED
                BY <7>1, <7>2
            <6>. QED
              BY <1>1, <5>1, <6>1 DEF Informed
          <5>. QED
            BY <5>2, <5>3
        <4>4. /\ LatestIs(wire, c, d, Due(d))
              /\ c \in bound /\ Silent(wire, c, d) => knows[c][d] \in {"none", Due(d)}
          <5>1. CASE Pair(c, d) \in granted
            <6>1. Current(c, d)
              BY <1>3, <2>1, <4>2, <4>3, <5>1 DEF Consistent, Knowledge, NewsArrives
            <6>. QED
              BY <6>1 DEF Current
          <5>2. CASE Pair(c, d) \notin granted
            <6>1. Pair(c, d) \in asked
              BY <1>3, <2>1, <5>2
            <6>2. UserOf[c] # UserOf[d]
              BY <1>5, <2>1, <4>3, <6>1 DEF Informed
            <6>. QED
              BY <1>5, <6>1, <6>2, ItemInToSet DEF LatestIs, Silent, FollowingTyped
          <5>. QED
            BY <5>1, <5>2
        <4>5. LatestIs(wire', c, d, Due(d)')
          BY <1>2, <3>1, <3>2, <4>4
        <4>6. ASSUME c \in bound', Silent(wire', c, d)
              PROVE  knows'[c][d] \in {"none", Due(d)'}
          BY <1>2, <3>1, <4>4, <4>6 DEF Keeps
        <4>. QED
          BY <4>5, <4>6 DEF Current
      <3>. QED
        BY <3>3, <3>4
    <2>. QED
      BY <2>1 DEF NewsArrives, Pair
  <1>8. OverIsTold'
    <2>1. ASSUME NEW c \in Client, NEW d \in Client, UserOf[c] # UserOf[d],
                 Over(UserOf[c], UserOf[d])', Pair(c, d) \notin crossed', d \notin misled',
                 ~ToPart(UserOf[c], d)'
          PROVE  Hushed(c, d)'
      <3>1. \A m \in ToSet(x) : Tells(m, c, d) => m.show = "unavailable"
        BY <2>1 DEF Brings
      <3>2. CASE ~Silent(x, c, d)
        <4>1. LatestIs(wire', c, d, "unavailable") /\ ~Silent(wire', c, d)
          BY <1>2, <3>1, <3>2
        <4>. QED
          BY <4>1 DEF Hushed
      <3>3. CASE Silent(x, c, d)
        <4>1. ~\E m \in ToSet(x) : TellsUser(m, d, UserOf[c])
          BY <1>4, <3>3, PairFacts DEF Silent
        <4>2. ~ToPart(UserOf[c], d)
          BY <1>4, <2>1, <4>1 DEF Leaves, Pair
        <4>3. /\ LatestIs(wire, c, d, "unavailable")
              /\ c \in bound /\ Silent(wire, c, d) => knows[c][d] \in {"none", "unavailable"}
          <5>1. CASE Over(UserOf[c], UserOf[d])
            <6>1. Hushed(c, d)
              BY <1>3, <2>1, <4>2, <5>1 DEF Consistent, Knowledge, OverIsTold
            <6>. QED
              BY <6>1 DEF Hushed
          <5>2. CASE Pair(c, d) \in asked
            BY <1>5, <2>1, <5>2, ItemInToSet DEF LatestIs, Silent, FollowingTyped
          <5>3. CASE ~Over(UserOf[c], UserOf[d]) /\ Pair(c, d) \notin asked
            <6>1. Pair(c, d) \in granted
              BY <5>3 DEF Over, Pair
            <6>2. d \notin bound
              BY <1>4, <2>1, <5>3 DEF Begins, Pair
            <6>3. ~OnItsWay(d, UserOf[c]) /\ Due(d) = "unavailable"
              BY <6>2 DEF Consistent, JobsStaged, JobStaged, OnItsWay, Due, Recorded
            <6>4. Current(c, d)
              BY <1>3, <2>1, <6>1, <6>3 DEF Consistent, Knowledge, NewsArrives
            <6>. QED
              BY <6>3, <6>4 DEF Current
          <5>. QED
            BY <5>1, <5>2, <5>3
        <4>4. LatestIs(wire', c, d, "unavailable")
          BY <1>2, <3>1, <4>3
        <4>5. ASSUME c \in bound', Silent(wire', c, d)
              PROVE  knows'[c][d] \in {"none", "unavailable"}
          BY <1>2, <4>3, <4>5 DEF Keeps
        <4>. QED
          BY <4>4, <4>5 DEF Hushed
      <3>. QED
        BY <3>2, <3>3
    <2>. QED
      BY <2>1 DEF OverIsTold, Pair
  <1>9. ApprovalsInform'
    <2>1. ASSUME NEW u \in User, NEW d \in Client, <<u, UserOf[d]>> \in granted',
                 <<u, UserOf[d]>> \notin crossed', Recorded(d)', ~OnItsWay(d, u)'
          PROVE  Announced(wire', u, UserOf[d], d)
      <3>1. Recorded(d)
        BY <2>1 DEF Keeps
      <3>2. Announced(x, u, UserOf[d], d)
        BY <2>1 DEF Brings
      <3>3. CASE \E m \in ToSet(x) : TellsUser(m, d, u)
        BY <1>1, <3>2, <3>3, MoreAnnounced
      <3>4. CASE ~\E m \in ToSet(x) : TellsUser(m, d, u)
        <4>1. ~OnItsWay(d, u)
          BY <2>1, <3>4 DEF Leaves
        <4>2. Announced(wire, u, UserOf[d], d)
          <5>1. CASE <<u, UserOf[d]>> \in granted
            BY <2>1, <3>1, <4>1, <5>1 DEF Ages, Consistent, Knowledge, ApprovalsInform
          <5>2. CASE <<u, UserOf[d]>> \in asked
            <6>1. wire \in Seq(Stanza)
              BY DEF FollowingTyped
            <6>2. \A i \in 1..Len(wire) : wire[i] \in ToSet(wire)
              BY <6>1, ItemInToSet
            <6>3. ASSUME NEW m \in ToSet(wire), m.kind = "subscribed", m.from = UserOf[d], m.to = u
                  PROVE  FALSE
              <7>1. <<m.to, m.from>> \notin asked
                BY <6>3 DEF Consistent, WireAllowed, Allowed
              <7>. QED
                BY <5>2, <6>3, <7>1
            <6>. QED
              BY <6>2, <6>3 DEF Announced
          <5>. QED
            BY <2>1, <5>1, <5>2 DEF Ages
        <4>3. Announced(w, u, UserOf[d], d)
          BY <1>4, <4>2 DEF Thins
        <4>. QED
          BY <1>1, <3>2, <4>3, MoreAnnounced
      <3>. QED
        BY <3>3, <3>4
    <2>. QED
      BY <2>1 DEF ApprovalsInform
  <1>10. FollowersLearn'
    <2>1. ASSUME NEW c \in Client, NEW d \in Client, c \in bound', active'[c], Recorded(d)',
                 Pair(c, d) \in following', Pair(c, d) \in granted', Pair(c, d) \notin crossed',
                 ~OnItsWay(d, UserOf[c])'
          PROVE  Learns(c, d)'
      <3>1. c \in bound /\ knows'[c] = knows[c]
        BY <2>1 DEF Keeps
      <3>2. Recorded(d)
        BY <1>4, <2>1 DEF Keeps, Pair
      <3>3. \A m : TellsUser(m, d, UserOf[c]) /\ m \in ToSet(wire') => Learns(c, d)'
        BY <1>4, PairFacts DEF Learns, Silent
      <3>4. CASE ~active[c]
        <4>1. Probing(c, UserOf[d])'
          BY <1>4, <2>1, <3>4 DEF Begins, Pair
        <4>. QED
          BY <4>1 DEF Learns
      <3>5. CASE Pair(c, d) \notin following
        <4>1. \E m \in ToSet(w) : TellsUser(m, d, UserOf[c])
          BY <2>1, <3>5 DEF Begins
        <4>. QED
          BY <1>1, <3>3, <4>1
      <3>6. CASE active[c] /\ Pair(c, d) \in following
        <4>1. Pair(c, d) \in granted
          BY <1>3, <1>5, <2>1, <3>6
        <4>2. Learns(c, d)
          BY <1>3, <2>1, <3>1, <3>2, <3>6, <4>1 DEF Consistent, Knowledge, FollowersLearn
        <4>3. CASE knows[c][d] # "none"
          BY <3>1, <4>3 DEF Learns
        <4>4. CASE ~Silent(wire, c, d)
          BY <1>2, <4>4 DEF Learns
        <4>5. CASE \E m \in ToSet(wire) : Probes(m, c, UserOf[d])
          BY <1>1, <1>2, <3>2, <4>5 DEF Answers, Learns
        <4>6. CASE Probing(c, UserOf[d])
          BY <1>1, <1>4, <4>6 DEF Leaves, Learns
        <4>7. CASE OnItsWay(d, UserOf[c])
          <5>1. \E m \in ToSet(x) : TellsUser(m, d, UserOf[c])
            BY <1>4, <2>1, <4>7 DEF Leaves
          <5>. QED
            BY <1>1, <3>3, <5>1
        <4>. QED
          BY <4>2, <4>3, <4>4, <4>5, <4>6, <4>7 DEF Learns
      <3>. QED
        BY <3>4, <3>5, <3>6
    <2>. QED
      BY <2>1 DEF FollowersLearn, Learns, Pair
  <1>. QED
    BY <1>6, <1>7, <1>8, <1>9, <1>10 DEF Knowledge

-----------------------------------------------------------------------------
(* What the handlers of a subscription have to route.                       *)

LEMMA AdvertiseFacts ==
  ASSUME FollowingTyped, NEW u \in User, NEW v \in User, NEW show \in Presence
  PROVE  /\ Advertise(u, v, show) \in Seq(Stanza)
         /\ \A m \in ToSet(Advertise(u, v, show)) :
              /\ m.kind = "presence" /\ m.from \in Client /\ UserOf[m.from] = v
              /\ m.show = show /\ m.to = u
         /\ \A d \in bound : UserOf[d] = v =>
              \E m \in ToSet(Advertise(u, v, show)) : TellsUser(m, d, u)
  <1>. DEFINE S == Resources(v)
              f == [d \in Client |-> show]
              x == Advertise(u, v, show)
              item(d) == [kind |-> "presence", from |-> d, show |-> f[d], to |-> u, route |-> u]
  <1>1. S \in SUBSET Client /\ f \in [Client -> Presence] /\ u \in User \cup Client
    BY DEF Resources, FollowingTyped
  <1>2. S \subseteq Client /\ \A d \in S : UserOf[d] = v
    BY <1>1 DEF Resources
  <1>3. \A d \in bound : UserOf[d] = v => d \in S
    BY DEF Resources
  <1>4. SetToSeq(S) \in Seq(S) /\ DOMAIN SetToSeq(S) = 1..Len(SetToSeq(S))
    <2>1. IsFiniteSet(S)
      BY <1>1, PresenceAssumption, FS_Subset
    <2>2. SetToSeq(S) \in Seq(S)
      BY <2>1, ListFacts
    <2>. HIDE DEF S
    <2>. QED
      BY <2>2
  <1>5. x = [i \in DOMAIN SetToSeq(S) |->
               [kind |-> "presence", from |-> SetToSeq(S)[i], show |-> show, to |-> u, route |-> u]]
    BY DEF Advertise
  <1>. HIDE DEF S, x
  <1>6. \A i \in DOMAIN SetToSeq(S) : f[SetToSeq(S)[i]] = show
    BY <1>1, <1>4
  <1>7. x = [i \in DOMAIN SetToSeq(S) |->
               [kind |-> "presence", from |-> SetToSeq(S)[i], show |-> f[SetToSeq(S)[i]],
                to |-> u, route |-> u]]
    BY <1>5, <1>6
  <1>8. \A d \in S : f[d] = show
    BY <1>1
  <1>. HIDE DEF f
  <1>9. x \in Seq(Stanza) /\ \A m : m \in ToSet(x) <=> \E d \in S : m = item(d)
    BY <1>1, <1>7, ToldOfEach
  <1>10. \A d \in S : /\ item(d).kind = "presence" /\ item(d).from = d
                      /\ item(d).show = show /\ item(d).to = u
    BY <1>8
  <1>. HIDE DEF item
  <1>11. ASSUME NEW m \in ToSet(x)
         PROVE  /\ m.kind = "presence" /\ m.from \in Client /\ UserOf[m.from] = v
                /\ m.show = show /\ m.to = u
    BY <1>2, <1>9, <1>10
  <1>12. ASSUME NEW d \in bound, UserOf[d] = v
         PROVE  \E m \in ToSet(x) : TellsUser(m, d, u)
    <2>1. d \in S
      BY <1>3, <1>12
    <2>. QED
      BY <1>9, <1>10, <2>1 DEF TellsUser
  <1>. QED
    BY <1>9, <1>11, <1>12 DEF x

(* The answer to the end of a subscription, and what goes with it.          *)
LEMMA EndedFacts ==
  ASSUME FollowingTyped, NEW u \in User, NEW v \in User
  PROVE  /\ Ended(u, v) \in Seq(Stanza)
         /\ \A m \in ToSet(Ended(u, v)) :
              \/ m.kind = "unsubscribed"
              \/ Advertises(m, v) /\ m.show = "unavailable" /\ m.to = u
         /\ BoundKnown => \A d \in bound : UserOf[d] = v =>
              \E m \in ToSet(Ended(u, v)) : TellsUser(m, d, u)
  <1>. DEFINE first == [Change("unsubscribed", v, u) EXCEPT !.route = v]
              rest == Advertise(u, v, "unavailable")
  <1>1. first \in Stanza /\ first.kind = "unsubscribed"
    BY DEF Change, Stanza, Presence
  <1>2. /\ rest \in Seq(Stanza)
        /\ \A m \in ToSet(rest) : Advertises(m, v) /\ m.show = "unavailable" /\ m.to = u
        /\ \A d \in bound : UserOf[d] = v => \E m \in ToSet(rest) : TellsUser(m, d, u)
    <2>1. "unavailable" \in Presence
      BY DEF Presence, Show
    <2>. QED
      BY <2>1, AdvertiseFacts DEF Advertises
  <1>3. CASE v \notin known
    <2>1. Ended(u, v) = <<>> /\ <<>> \in Seq(Stanza) /\ ToSet(<<>>) = {}
      BY <1>3 DEF Ended, ToSet
    <2>2. BoundKnown => \A d \in bound : UserOf[d] # v
      BY <1>3 DEF BoundKnown
    <2>. QED
      BY <2>1, <2>2
  <1>4. CASE v \in known
    <2>1. Ended(u, v) = <<first>> \o rest
      BY <1>4 DEF Ended
    <2>. HIDE DEF first, rest
    <2>2. DOMAIN <<first>> = {1} /\ <<first>>[1] = first
      OBVIOUS
    <2>3. ToSet(<<first>>) = {first}
      BY <2>2 DEF ToSet
    <2>4. <<first>> \in Seq(Stanza)
      BY <1>1
    <2>5. rest \in Seq(Stanza)
      BY <1>2
    <2>6. PICK one : one = <<first>>
      OBVIOUS
    <2>7. ToSet(one \o rest) = ToSet(one) \cup ToSet(rest) /\ one \o rest \in Seq(Stanza)
      <3>1. one \in Seq(Stanza)
        BY <2>4, <2>6
      <3>2. ToSet(one \o rest) = ToSet(one) \cup ToSet(rest)
        BY <2>5, <3>1, ConcatFacts, Zenon
      <3>3. one \o rest \in Seq(Stanza)
        BY <2>5, <3>1
      <3>. QED
        BY <3>2, <3>3
    <2>8. /\ ToSet(Ended(u, v)) = {first} \cup ToSet(rest)
          /\ Ended(u, v) \in Seq(Stanza)
      BY <2>1, <2>3, <2>6, <2>7
    <2>9. \A m \in ToSet(Ended(u, v)) : m = first \/ m \in ToSet(rest)
      BY <2>8
    <2>10. \A d \in bound : UserOf[d] = v =>
             \E m \in ToSet(Ended(u, v)) : TellsUser(m, d, u)
      BY <1>2, <2>8
    <2>. QED
      BY <1>1, <1>2, <2>8, <2>9, <2>10
  <1>. QED
    BY <1>3, <1>4

(* The items of the handler of an answer: presence of all resources, and the*)
(* answer, which is routed first.                                           *)
LEMMA ListedFacts ==
  ASSUME FollowingTyped, NEW c \in Client, NEW u \in User,
         job[c].show \in {"available", "unavailable"},
         NEW items, items = Reverse(Listed(c, u))
  PROVE  /\ items \in Seq(Stanza)
         /\ \A m \in ToSet(items) :
              \/ m.kind = Verdict(c) /\ m.from = UserOf[c] /\ m.to = u
              \/ Advertises(m, UserOf[c]) /\ m.to = u /\ m.show = job[c].show
         /\ \E m \in ToSet(items) : m.kind \in ChangeKind
         /\ \A i \in 1..Len(items) : items[i].kind = "subscribed" => i = Len(items)
         /\ TellsOfAll(items, u, UserOf[c])
         /\ Len(Listed(c, u)) \in Nat
  <1>. DEFINE first == Change(Verdict(c), UserOf[c], u)
              rest == Advertise(u, UserOf[c], job[c].show)
              list == <<first>> \o rest
  <1>1. UserOf[c] \in User /\ job[c].show \in Presence
    BY PairFacts DEF Presence, Show
  <1>2. first \in Stanza /\ first.kind = Verdict(c) /\ first.from = UserOf[c] /\ first.to = u
        /\ first.kind \in ChangeKind
    BY <1>1 DEF Change, Verdict, Stanza, Presence, ChangeKind
  <1>3. /\ rest \in Seq(Stanza)
        /\ \A m \in ToSet(rest) : Advertises(m, UserOf[c]) /\ m.to = u /\ m.show = job[c].show
        /\ \A d \in bound : UserOf[d] = UserOf[c] => \E m \in ToSet(rest) : TellsUser(m, d, u)
    BY <1>1, AdvertiseFacts DEF Advertises
  <1>4. list = Listed(c, u)
    BY DEF Listed
  <1>. HIDE DEF first, rest
  <1>5. /\ <<first>> \in Seq(Stanza) /\ ToSet(<<first>>) = {first}
        /\ Len(rest) \in Nat /\ Len(list) = 1 + Len(rest) /\ list[1] = first
        /\ \A k \in 2..Len(list) : k - 1 \in 1..Len(rest) /\ list[k] = rest[k - 1]
    <2>1. <<first>> \in Seq(Stanza) /\ ToSet(<<first>>) = {first}
      BY <1>2 DEF ToSet
    <2>2. Len(rest) \in Nat /\ Len(list) = 1 + Len(rest) /\ list[1] = first
      BY <1>3
    <2>3. \A k \in 2..Len(list) : k - 1 \in 1..Len(rest) /\ list[k] = rest[k - 1]
      BY <1>3
    <2>. QED
      BY <2>1, <2>2, <2>3
  <1>6. list \in Seq(Stanza) /\ ToSet(list) = {first} \cup ToSet(rest)
    <2>1. <<first>> \in Seq(Stanza) /\ rest \in Seq(Stanza)
      BY <1>3, <1>5
    <2>2. ToSet(list) = ToSet(<<first>>) \cup ToSet(rest)
      BY <2>1, ConcatFacts, Zenon
    <2>3. list \in Seq(Stanza)
      BY <2>1, SMT
    <2>4. ToSet(<<first>>) = {first}
      BY <1>5
    <2>. QED
      BY <2>2, <2>3, <2>4
  <1>7. \A k \in 2..Len(list) : list[k].kind = "presence"
    <2>1. \A k \in 1..Len(rest) : rest[k] \in ToSet(rest)
      BY <1>3, ItemInToSet
    <2>. QED
      BY <1>3, <1>5, <2>1 DEF Advertises
  <1>. HIDE DEF list
  <1>8. /\ items \in Seq(Stanza) /\ Len(items) = Len(list) /\ ToSet(items) = ToSet(list)
        /\ \A k \in 1..Len(list) : items[k] = list[Len(list) - k + 1]
    BY <1>4, <1>6, ReverseFacts
  <1>9. ASSUME NEW i \in 1..Len(items), items[i].kind = "subscribed"
        PROVE  i = Len(items)
    <2>1. ~(Len(list) - i + 1 \in 2..Len(list))
      BY <1>7, <1>8, <1>9
    <2>. QED
      BY <1>5, <1>8, <2>1
  <1>10. \A m \in ToSet(items) :
           \/ m.kind = Verdict(c) /\ m.from = UserOf[c] /\ m.to = u
           \/ Advertises(m, UserOf[c]) /\ m.to = u /\ m.show = job[c].show
    BY <1>2, <1>3, <1>6, <1>8
  <1>11. /\ \E m \in ToSet(items) : m.kind \in ChangeKind
         /\ TellsOfAll(items, u, UserOf[c])
    BY <1>2, <1>3, <1>6, <1>8 DEF TellsOfAll
  <1>. QED
    BY <1>4, <1>5, <1>8, <1>9, <1>10, <1>11

(* Those of a removal.                                                      *)
LEMMA PartedFacts ==
  ASSUME FollowingTyped, NEW c \in Client, NEW u \in User,
         NEW items, items = Reverse(Parted(c, u))
  PROVE  /\ items \in Seq(Stanza)
         /\ \A m \in ToSet(items) :
              \/ m.kind \in {"unsubscribe", "unsubscribed"} /\ m.from = UserOf[c]
              \/ Advertises(m, UserOf[c]) /\ m.to = u /\ m.show = "unavailable"
         /\ \E m \in ToSet(items) : m.kind \in ChangeKind
         /\ TellsOfAll(items, u, UserOf[c])
         /\ Len(Parted(c, u)) \in Nat
  <1>. DEFINE one == Change("unsubscribe", UserOf[c], u)
              two == Change("unsubscribed", UserOf[c], u)
              rest == Advertise(u, UserOf[c], "unavailable")
              list == <<one, two>> \o rest
  <1>1. UserOf[c] \in User /\ "unavailable" \in Presence
    BY PairFacts DEF Presence, Show
  <1>2. /\ one \in Stanza /\ one.kind = "unsubscribe" /\ one.from = UserOf[c]
        /\ two \in Stanza /\ two.kind = "unsubscribed" /\ two.from = UserOf[c]
    BY <1>1 DEF Change, Stanza, Presence
  <1>3. /\ rest \in Seq(Stanza)
        /\ \A m \in ToSet(rest) : Advertises(m, UserOf[c]) /\ m.to = u /\ m.show = "unavailable"
        /\ \A d \in bound : UserOf[d] = UserOf[c] => \E m \in ToSet(rest) : TellsUser(m, d, u)
    BY <1>1, AdvertiseFacts DEF Advertises
  <1>4. list = Parted(c, u)
    BY DEF Parted
  <1>. HIDE DEF one, two, rest
  <1>5. <<one, two>> \in Seq(Stanza) /\ ToSet(<<one, two>>) = {one, two}
    <2>1. <<one, two>> \in Seq(Stanza)
      BY <1>2
    <2>2. ToSet(<<one, two>>) = {one, two}
      BY DEF ToSet
    <2>. QED
      BY <2>1, <2>2
  <1>6. list \in Seq(Stanza) /\ ToSet(list) = {one, two} \cup ToSet(rest)
    <2>1. <<one, two>> \in Seq(Stanza) /\ rest \in Seq(Stanza)
      BY <1>3, <1>5
    <2>2. ToSet(list) = ToSet(<<one, two>>) \cup ToSet(rest)
      BY <2>1, ConcatFacts, Zenon
    <2>3. list \in Seq(Stanza)
      BY <2>1, SMT
    <2>4. ToSet(<<one, two>>) = {one, two}
      BY <1>5
    <2>. QED
      BY <2>2, <2>3, <2>4
  <1>. HIDE DEF list
  <1>7. items \in Seq(Stanza) /\ ToSet(items) = ToSet(list)
    BY <1>4, <1>6, ReverseFacts
  <1>8. \A m \in ToSet(items) :
          \/ m.kind \in {"unsubscribe", "unsubscribed"} /\ m.from = UserOf[c]
          \/ Advertises(m, UserOf[c]) /\ m.to = u /\ m.show = "unavailable"
    BY <1>2, <1>3, <1>6, <1>7
  <1>9. /\ \E m \in ToSet(items) : m.kind \in ChangeKind
        /\ TellsOfAll(items, u, UserOf[c])
    BY <1>2, <1>3, <1>6, <1>7 DEF TellsOfAll, ChangeKind
  <1>. QED
    BY <1>4, <1>6, <1>7, <1>8, <1>9

-----------------------------------------------------------------------------
(* Every step keeps the types.                                              *)

LEMMA IdleTyped ==
  /\ Idle \in FollowingJob /\ Idle.at = "idle" /\ Idle.show = "none"
  /\ Idle.items = <<>> /\ ToSet(Idle.items) = {}
  /\ LinkIdle \in LinkJob /\ LinkIdle.at = "idle"
  BY DEF Idle, FollowingJob, LinkIdle, LinkJob, Presence, ToSet

LEMMA FromIdle ==
  /\ \A show \in Presence :
       /\ [Idle EXCEPT !.at = "act", !.show = show] \in FollowingJob
       /\ [Idle EXCEPT !.at = "list", !.show = show] \in FollowingJob
  /\ \A items \in Seq(Stanza) :
       [Idle EXCEPT !.at = "route", !.items = items, !.handlers = 1] \in FollowingJob
  <1>1. /\ Idle = [at |-> Idle.at, show |-> Idle.show, initial |-> Idle.initial,
                  seen |-> Idle.seen, probed |-> Idle.probed, items |-> Idle.items,
                  handlers |-> Idle.handlers]
        /\ Idle.show \in Presence /\ Idle.initial \in BOOLEAN /\ Idle.seen \in Nat
        /\ Idle.probed \in Seq(User) /\ Idle.items \in Seq(Stanza) /\ Idle.handlers \in Nat
    BY DEF Idle, Presence
  <1>2. ASSUME NEW show \in Presence
        PROVE  /\ [Idle EXCEPT !.at = "act", !.show = show] \in FollowingJob
               /\ [Idle EXCEPT !.at = "list", !.show = show] \in FollowingJob
    BY <1>1 DEF FollowingJob
  <1>3. ASSUME NEW items \in Seq(Stanza)
        PROVE  [Idle EXCEPT !.at = "route", !.items = items, !.handlers = 1] \in FollowingJob
    BY <1>1 DEF FollowingJob
  <1>. QED
    BY <1>2, <1>3

(* What the handlers make of their jobs.                                    *)
LEMMA JobEdited ==
  ASSUME NEW j \in FollowingJob
  PROVE  /\ [j EXCEPT !.at = "route"] \in FollowingJob
         /\ \A seen \in Nat : [j EXCEPT !.at = "listing", !.seen = seen] \in FollowingJob
         /\ \A initial \in BOOLEAN, probed \in Seq(User), seen \in Nat :
              [j EXCEPT !.at = "loop", !.initial = initial, !.probed = probed, !.seen = seen]
                \in FollowingJob
         /\ \A items \in Seq(Stanza), handlers \in Nat :
              /\ [j EXCEPT !.at = "route", !.items = items, !.handlers = handlers]
                   \in FollowingJob
              /\ [j EXCEPT !.at = "remove", !.items = items, !.handlers = handlers]
                   \in FollowingJob
  <1>1. [j EXCEPT !.at = "route"] \in FollowingJob
    BY DEF FollowingJob
  <1>2. ASSUME NEW seen \in Nat PROVE [j EXCEPT !.at = "listing", !.seen = seen] \in FollowingJob
    BY DEF FollowingJob
  <1>3. ASSUME NEW initial \in BOOLEAN, NEW probed \in Seq(User), NEW seen \in Nat
        PROVE  [j EXCEPT !.at = "loop", !.initial = initial, !.probed = probed, !.seen = seen]
                 \in FollowingJob
    BY DEF FollowingJob
  <1>4. ASSUME NEW items \in Seq(Stanza), NEW handlers \in Nat
        PROVE  /\ [j EXCEPT !.at = "route", !.items = items, !.handlers = handlers]
                    \in FollowingJob
               /\ [j EXCEPT !.at = "remove", !.items = items, !.handlers = handlers]
                    \in FollowingJob
    BY DEF FollowingJob
  <1>. QED
    BY <1>1, <1>2, <1>3, <1>4

LEMMA LinkEdited ==
  ASSUME NEW p \in User \X User, NEW l, l = [LinkIdle EXCEPT !.at = "list", !.pair = p]
  PROVE  l \in LinkJob /\ l.at = "list" /\ l.pair = p
  <1>1. /\ LinkIdle = [at |-> LinkIdle.at, pair |-> LinkIdle.pair, seen |-> LinkIdle.seen,
                       items |-> LinkIdle.items]
        /\ LinkIdle.seen \in Nat /\ LinkIdle.items \in Seq(Stanza)
    BY DEF LinkIdle
  <1>2. l \in LinkJob
    BY <1>1 DEF LinkJob
  <1>3. l.at = "list" /\ l.pair = p
    BY <1>1
  <1>. QED
    BY <1>2, <1>3

(* The subscribers and the subscriptions that c2s-presence reads.           *)
LEMMA ReadFacts ==
  ASSUME FollowingTyped, NEW u \in User
  PROVE  /\ Subscriptions(u) \in Seq(User)
         /\ \A v : v \in ToSet(Subscriptions(u)) <=> v \in User /\ <<u, v>> \in following
         /\ Subscribers(u) \in Seq(User)
         /\ \A v : v \in ToSet(Subscribers(u)) <=> v \in User /\ <<v, u>> \in granted
         /\ Resources(u) \in SUBSET Client /\ IsFiniteSet(Resources(u))
         /\ Cardinality(Resources(u)) \in Nat
  <1>. DEFINE S == {v \in User : <<u, v>> \in following}
              T == {v \in User : <<v, u>> \in granted}
  <1>1. S \subseteq User /\ T \subseteq User /\ IsFiniteSet(User)
    BY PresenceAssumption
  <1>2. IsFiniteSet(S) /\ IsFiniteSet(T)
    BY <1>1, FS_Subset
  <1>3. Subscriptions(u) = SetToSeq(S) /\ Subscribers(u) = SetToSeq(T)
    BY DEF Subscriptions, Subscribers
  <1>4. /\ SetToSeq(S) \in Seq(S) /\ ToSet(SetToSeq(S)) = S
        /\ SetToSeq(T) \in Seq(T) /\ ToSet(SetToSeq(T)) = T
    BY <1>2, ListFacts
  <1>5. \A v : /\ v \in S <=> v \in User /\ <<u, v>> \in following
               /\ v \in T <=> v \in User /\ <<v, u>> \in granted
    OBVIOUS
  <1>. HIDE DEF S, T
  <1>6. SetToSeq(S) \in Seq(User) /\ SetToSeq(T) \in Seq(User)
    BY <1>1, <1>4
  <1>7. Resources(u) \subseteq Client /\ IsFiniteSet(Client)
    BY PresenceAssumption DEF Resources, FollowingTyped
  <1>8. IsFiniteSet(Resources(u)) /\ Cardinality(Resources(u)) \in Nat
    BY <1>7, FS_Subset, FS_CardinalityType
  <1>. QED
    BY <1>3, <1>4, <1>5, <1>6, <1>7, <1>8

LEMMA ChangeTyped ==
  ASSUME NEW kind \in ChangeKind, NEW u \in User, NEW v \in User
  PROVE  <<Change(kind, u, v)>> \in Seq(Stanza)
  BY DEF Change, ChangeKind, Stanza, Presence

(* The items of c2s-presence, the job as it was.                            *)
LEMMA RecordJob ==
  ASSUME FollowingTyped, NEW b \in Client, Record(b)
  PROVE  \E others \in SUBSET Client, items \in Seq(Stanza), handlers \in Nat :
           /\ \A d \in others : UserOf[d] = UserOf[b]
           /\ Sent(items, b, others, Subscribers(UserOf[b]))
           /\ job' = [job EXCEPT ![b] = [job[b] EXCEPT !.at = "route", !.items = items,
                                                       !.handlers = handlers]]
  <1>. DEFINE u == UserOf[b]
              others == IF Broadcasts(job[b]) THEN Resources(u) \ {b} ELSE {}
              items(o) == BroadcastItems(b, others, o, Subscribers(u))
                          \o PresenceItems(b, Subscribers(u)) \o ProbeItems(b, job[b].probed)
              handlers == Cardinality(others) + Len(Subscribers(u)) + Len(job[b].probed)
  <1>1. PICK o \in IF others = {} THEN {b} ELSE others :
          job' = [job EXCEPT ![b].at = "route", ![b].items = items(o), ![b].handlers = handlers]
    BY Zenon DEF Record
  <1>2. u \in User /\ job[b].probed \in Seq(User) /\ job[b].show \in Presence
    BY PairFacts DEF FollowingTyped, FollowingJob
  <1>3. Subscribers(u) \in Seq(User) /\ Resources(u) \in SUBSET Client
    BY <1>2, ReadFacts
  <1>4. others \in SUBSET Client /\ \A d \in others : UserOf[d] = UserOf[b]
    BY <1>3 DEF Resources
  <1>5. handlers \in Nat
    <2>1. IsFiniteSet(Client)
      BY PresenceAssumption
    <2>2. Cardinality(others) \in Nat
      BY <1>4, <2>1, FS_Subset, FS_CardinalityType
    <2>. QED
      BY <1>2, <1>3, <2>2
  <1>6. o \in IF others = {} THEN {b} ELSE others
    BY <1>1
  <1>. HIDE DEF others, handlers
  <1>7. Sent(items(o), b, others, Subscribers(UserOf[b]))
    BY <1>2, <1>3, <1>4, <1>6, ItemsSent
  <1>8. items(o) \in Seq(Stanza)
    BY <1>7 DEF Sent
  <1>. HIDE DEF items
  <1>9. job' = [job EXCEPT ![b] = [job[b] EXCEPT !.at = "route", !.items = items(o),
                                                  !.handlers = handlers]]
    BY <1>1 DEF FollowingTyped
  <1>. QED
    BY <1>4, <1>5, <1>7, <1>8, <1>9

(* What s2s-probe answers.                                                  *)
LEMMA ProbeAnswers ==
  ASSUME FollowingTyped, DeliverProbe
  PROVE  \E x \in Seq(Stanza) :
           /\ wire' = Tail(wire) \o x
           /\ \A m \in ToSet(x) :
                /\ m.kind = "presence" /\ m.from \in bound /\ m.from \in Client
                /\ UserOf[m.from] = Head(wire).to
                /\ m.show = last[m.from] /\ m.show \in Show /\ m.to = Head(wire).from
           /\ \A d \in bound : UserOf[d] = Head(wire).to /\ last[d] # "none" =>
                \E m \in ToSet(x) : m.kind = "presence" /\ m.from = d /\ m.to = Head(wire).from
  <1>. DEFINE m == Head(wire)
              online == {d \in Resources(m.to) : last[d] # "none"}
              answers == SetToSeq(online)
              answer(d) == [kind |-> "presence", from |-> d, show |-> last[d],
                            to |-> m.from, route |-> m.from]
              x == [i \in DOMAIN answers |-> answer(answers[i])]
  <1>1. wire' = Tail(wire) \o x /\ m \in Stanza
    BY DEF DeliverProbe, FollowingTyped
  <1>2. online \in SUBSET Client /\ m.from \in User \cup Client /\ last \in [Client -> Presence]
    BY <1>1 DEF Resources, FollowingTyped, Stanza
  <1>3. \A d : d \in online <=> d \in bound /\ UserOf[d] = m.to /\ last[d] # "none"
    BY DEF Resources
  <1>4. x = [i \in DOMAIN SetToSeq(online) |->
               [kind |-> "presence", from |-> SetToSeq(online)[i],
                show |-> last[SetToSeq(online)[i]], to |-> m.from, route |-> m.from]]
    OBVIOUS
  <1>. HIDE DEF x, answers, online, m
  <1>5. x \in Seq(Stanza) /\ \A a : a \in ToSet(x) <=> \E d \in online : a = answer(d)
    BY <1>2, <1>4, ToldOfEach
  <1>6. ASSUME NEW d \in online
        PROVE  /\ answer(d).kind = "presence" /\ answer(d).from = d /\ d \in bound
               /\ d \in Client /\ UserOf[d] = m.to
               /\ answer(d).show = last[d] /\ last[d] \in Show /\ answer(d).to = m.from
    BY <1>2, <1>3 DEF Presence
  <1>. HIDE DEF answer
  <1>. QED
    BY <1>1, <1>3, <1>5, <1>6 DEF m

LEMMA PresenceTyped ==
  ASSUME FollowingTyped, UNCHANGED <<asking, asked, changing, link>>,
         \/ Deliver
         \/ \E c \in Client : Bind(c) \/ StreamEnd(c) \/ Work(c)
         \/ \E c \in Client, show \in Show : SendPresence(c, show)
  PROVE  FollowingTyped'
  <1>. DEFINE Rest == /\ granted' = granted /\ following' = following
                      /\ asked' = asked /\ asking' = asking
                      /\ changing' = changing /\ link' = link
  <1>1. Rest
    BY DEF Deliver, DeliverPresence, DeliverProbe, Bind, StreamEnd, Work, Act, Raise, Record,
           RouteOut, SendPresence, rosters
  <1>. HIDE DEF Rest
  <1>2. ASSUME NEW c \in Client, Bind(c) PROVE FollowingTyped'
    BY <1>1, <1>2 DEF Rest, Bind, FollowingTyped, Presence
  <1>3. ASSUME NEW c \in Client, StreamEnd(c) PROVE FollowingTyped'
    <2>1. [Idle EXCEPT !.at = "act", !.show = "unavailable"] \in FollowingJob
      BY FromIdle DEF Presence, Show
    <2>2. job' \in [Client -> FollowingJob] /\ bound' \subseteq bound
      <3>1. CASE active[c]
        BY <1>3, <2>1, <3>1 DEF StreamEnd, FollowingTyped
      <3>2. CASE ~active[c]
        BY <1>3, <3>2 DEF StreamEnd, CleanUp, FollowingTyped
      <3>. QED
        BY <3>1, <3>2
    <2>. QED
      BY <1>1, <1>3, <2>2 DEF Rest, StreamEnd, FollowingTyped
  <1>4. ASSUME NEW c \in Client, NEW show \in Show, SendPresence(c, show) PROVE FollowingTyped'
    <2>1. [Idle EXCEPT !.at = "act", !.show = show] \in FollowingJob
      BY FromIdle DEF Presence
    <2>. QED
      BY <1>1, <1>4, <2>1 DEF Rest, SendPresence, tables, FollowingTyped
  <1>5. ASSUME NEW c \in Client, Act(c) PROVE FollowingTyped'
    <2>. DEFINE probed == IF ~active[c] THEN Subscriptions(UserOf[c]) ELSE <<>>
                seen == Cardinality(Resources(UserOf[c]))
                initial == ~active[c]
                j == [job[c] EXCEPT !.at = "loop", !.initial = initial,
                                    !.probed = probed, !.seen = seen]
    <2>1. job' = [job EXCEPT ![c] = j]
      BY <1>5 DEF Act
    <2>2. probed \in Seq(User) /\ seen \in Nat /\ initial \in BOOLEAN
      BY ReadFacts, PairFacts
    <2>. HIDE DEF probed, seen, initial
    <2>3. j \in FollowingJob
      BY <2>2, JobEdited DEF FollowingTyped
    <2>. HIDE DEF j
    <2>4. active' \in [Client -> BOOLEAN]
      BY <1>5 DEF Act, FollowingTyped
    <2>5. /\ bound' = bound /\ closing' = closing /\ last' = last /\ wire' = wire
          /\ knows' = knows /\ raised' = raised
      BY <1>5 DEF Act
    <2>6. job' \in [Client -> FollowingJob]
      BY <2>1, <2>3 DEF FollowingTyped
    <2>. QED
      BY <1>1, <2>4, <2>5, <2>6 DEF Rest, FollowingTyped
  <1>6. ASSUME NEW c \in Client, Raise(c) PROVE FollowingTyped'
    BY <1>1, <1>6, IdleTyped DEF Rest, Raise, tables, FollowingTyped
  <1>7. ASSUME NEW c \in Client, Record(c) PROVE FollowingTyped'
    <2>1. PICK items \in Seq(Stanza), handlers \in Nat :
            job' = [job EXCEPT ![c] = [job[c] EXCEPT !.at = "route", !.items = items,
                                                     !.handlers = handlers]]
      BY <1>7, RecordJob
    <2>2. [job[c] EXCEPT !.at = "route", !.items = items, !.handlers = handlers] \in FollowingJob
      BY JobEdited DEF FollowingTyped
    <2>3. job[c].show \in Presence
      BY DEF FollowingTyped, FollowingJob
    <2>. QED
      BY <1>1, <1>7, <2>1, <2>2, <2>3 DEF Rest, Record, FollowingTyped
  <1>8. ASSUME NEW c \in Client, RouteOut(c) PROVE FollowingTyped'
    <2>1. wire \o Reverse(job[c].items) \in Seq(Stanza)
      <3>1. job[c].items \in Seq(Stanza)
        BY DEF FollowingTyped, FollowingJob
      <3>2. Reverse(job[c].items) \in Seq(Stanza)
        BY <3>1, ReverseFacts
      <3>. QED
        BY <3>2 DEF FollowingTyped
    <2>2. bound' \subseteq bound /\ raised' \in BOOLEAN
      BY <1>8 DEF RouteOut, CleanUp, FollowingTyped
    <2>. QED
      BY <1>1, <1>8, <2>1, <2>2, IdleTyped DEF Rest, RouteOut, FollowingTyped
  <1>9. ASSUME DeliverPresence PROVE FollowingTyped'
    <2>. DEFINE m == Head(wire)
    <2>1. m \in Stanza /\ Tail(wire) \in Seq(Stanza)
      BY <1>9 DEF DeliverPresence, FollowingTyped
    <2>2. \A c \in Client : [knows[c] EXCEPT ![m.from] = m.show] \in [Client -> Presence]
      BY <2>1 DEF FollowingTyped, Stanza
    <2>3. knows' = [c \in Client |-> IF c \in bound /\ m.to \in {c, UserOf[c]}
                                     THEN [knows[c] EXCEPT ![m.from] = m.show] ELSE knows[c]]
      BY <1>9 DEF DeliverPresence
    <2>. HIDE DEF m
    <2>4. knows' \in [Client -> [Client -> Presence]]
      BY <2>2, <2>3 DEF FollowingTyped
    <2>. QED
      BY <1>1, <1>9, <2>1, <2>4 DEF Rest, DeliverPresence, tables, FollowingTyped
  <1>10. ASSUME DeliverProbe PROVE FollowingTyped'
    <2>1. PICK x \in Seq(Stanza) : wire' = Tail(wire) \o x
      BY <1>10, ProbeAnswers
    <2>2. wire' \in Seq(Stanza)
      <3>1. wire # <<>> /\ wire \in Seq(Stanza)
        BY <1>10 DEF DeliverProbe, FollowingTyped
      <3>2. Tail(wire) \in Seq(Stanza)
        BY <3>1
      <3>. QED
        BY <2>1, <3>2
    <2>. QED
      BY <1>1, <1>10, <2>2 DEF Rest, DeliverProbe, tables, FollowingTyped
  <1>. QED
    BY <1>2, <1>3, <1>4, <1>5, <1>6, <1>7, <1>8, <1>9, <1>10 DEF Deliver, Work

LEMMA SubscriptionTyped ==
  ASSUME FollowingTyped, SubscriptionStep
  PROVE  FollowingTyped'
  <1>. DEFINE Tables == /\ bound' = bound /\ closing' = closing /\ active' = active
                        /\ last' = last /\ knows' = knows
  <1>1. Tables
    BY DEF SubscriptionStep, Subscribed, Unsubscribed, Unsubscribe, RemoveContact, List,
           ListRaise, ListDone, RemoveListed, RemoveRow, S2SSubscribed, S2SUnsubscribed,
           S2SUnsubscribe, LinkList, LinkRaise, LinkDone, LinkRoute, tables, vars
  <1>. HIDE DEF Tables
  <1>2. ASSUME NEW c \in Client, NEW u \in User,
               Subscribed(c, u) \/ Unsubscribed(c, u) \/ Unsubscribe(c, u) \/ RemoveContact(c, u)
        PROVE  FollowingTyped'
    <2>1. /\ [Idle EXCEPT !.at = "list", !.show = "available"] \in FollowingJob
          /\ [Idle EXCEPT !.at = "list", !.show = "unavailable"] \in FollowingJob
          /\ [Idle EXCEPT !.at = "list", !.show = "none"] \in FollowingJob
      BY FromIdle DEF Presence, Show
    <2>2. UserOf[c] \in User
      BY PairFacts
    <2>3. CASE Subscribed(c, u)
      BY <1>1, <2>1, <2>2, <2>3 DEF Tables, Subscribed, FollowingTyped
    <2>4. CASE Unsubscribed(c, u)
      BY <1>1, <2>1, <2>2, <2>4 DEF Tables, Unsubscribed, FollowingTyped
    <2>5. CASE Unsubscribe(c, u)
      <3>1. [Idle EXCEPT !.at = "route", !.items = <<Change("unsubscribe", UserOf[c], u)>>,
                         !.handlers = 1] \in FollowingJob
        BY <2>2, FromIdle, ChangeTyped DEF ChangeKind, Presence
      <3>. QED
        BY <1>1, <2>2, <2>5, <3>1 DEF Tables, Unsubscribe, FollowingTyped
    <2>6. CASE RemoveContact(c, u)
      BY <1>1, <2>1, <2>2, <2>6 DEF Tables, RemoveContact, rosters, FollowingTyped
    <2>. QED
      BY <1>2, <2>3, <2>4, <2>5, <2>6
  <1>3. ASSUME NEW c \in Client,
               List(c) \/ ListRaise(c) \/ ListDone(c) \/ RemoveListed(c) \/ RemoveRow(c)
        PROVE  FollowingTyped'
    <2>1. CASE List(c)
      <3>. DEFINE seen == Cardinality(Resources(UserOf[c]))
      <3>1. seen \in Nat
        BY ReadFacts, PairFacts
      <3>2. job' = [job EXCEPT ![c] = [job[c] EXCEPT !.at = "listing", !.seen = seen]]
        BY <2>1 DEF List
      <3>. HIDE DEF seen
      <3>3. [job[c] EXCEPT !.at = "listing", !.seen = seen] \in FollowingJob
        BY <3>1, JobEdited DEF FollowingTyped
      <3>. QED
        <4>1. job' \in [Client -> FollowingJob]
          BY <3>2, <3>3 DEF FollowingTyped
        <4>2. /\ granted' = granted /\ following' = following /\ asked' = asked
              /\ asking' = asking /\ bound' = bound /\ closing' = closing /\ active' = active
              /\ last' = last /\ knows' = knows /\ raised' = raised /\ wire' = wire
              /\ changing' = changing /\ link' = link
          BY <2>1 DEF List, rosters, tables
        <4>. QED
          BY <4>1, <4>2 DEF FollowingTyped
    <2>2. CASE ListRaise(c)
      BY <1>1, <2>2, IdleTyped DEF Tables, ListRaise, rosters, FollowingTyped
    <2>3. CASE ListDone(c)
      <3>1. PICK u \in changing[c] :
              job' = [job EXCEPT ![c].at = "route", ![c].items = Reverse(Listed(c, u)),
                                 ![c].handlers = Len(Listed(c, u))]
        BY <2>3, Zenon DEF ListDone
      <3>2. u \in User
        BY DEF FollowingTyped
      <3>3. PICK items : items = Reverse(Listed(c, u))
        OBVIOUS
      <3>4. PICK handlers : handlers = Len(Listed(c, u))
        OBVIOUS
      <3>5. UserOf[c] \in User /\ job[c].show \in Presence
        BY PairFacts DEF FollowingTyped, FollowingJob
      <3>6. items \in Seq(Stanza) /\ handlers \in Nat
        <4>1. <<Change(Verdict(c), UserOf[c], u)>> \in Seq(Stanza)
          BY <3>2, <3>5, ChangeTyped DEF Verdict, ChangeKind
        <4>2. Listed(c, u) \in Seq(Stanza)
          BY <3>2, <3>5, <4>1, AdvertiseFacts DEF Listed
        <4>. QED
          BY <3>3, <3>4, <4>2, ReverseFacts
      <3>7. job' = [job EXCEPT ![c] = [job[c] EXCEPT !.at = "route", !.items = items,
                                                      !.handlers = handlers]]
        BY <3>1, <3>3, <3>4 DEF FollowingTyped
      <3>8. [job[c] EXCEPT !.at = "route", !.items = items, !.handlers = handlers]
              \in FollowingJob
        BY <3>6, JobEdited DEF FollowingTyped
      <3>. QED
        BY <1>1, <2>3, <3>7, <3>8 DEF Tables, ListDone, rosters, FollowingTyped
    <2>4. CASE RemoveListed(c)
      <3>1. PICK u \in changing[c] :
              job' = [job EXCEPT ![c].at = "remove", ![c].items = Reverse(Parted(c, u)),
                                 ![c].handlers = Len(Parted(c, u))]
        BY <2>4, Zenon DEF RemoveListed
      <3>2. u \in User
        BY DEF FollowingTyped
      <3>3. PICK items : items = Reverse(Parted(c, u))
        OBVIOUS
      <3>4. PICK handlers : handlers = Len(Parted(c, u))
        OBVIOUS
      <3>6. items \in Seq(Stanza) /\ handlers \in Nat
        BY <3>2, <3>3, <3>4, PartedFacts
      <3>7. job' = [job EXCEPT ![c] = [job[c] EXCEPT !.at = "remove", !.items = items,
                                                      !.handlers = handlers]]
        BY <3>1, <3>3, <3>4 DEF FollowingTyped
      <3>8. [job[c] EXCEPT !.at = "remove", !.items = items, !.handlers = handlers]
              \in FollowingJob
        BY <3>6, JobEdited DEF FollowingTyped
      <3>. QED
        BY <1>1, <2>4, <3>7, <3>8 DEF Tables, RemoveListed, rosters, followingVars, FollowingTyped
    <2>5. CASE RemoveRow(c)
      <3>1. /\ granted' \subseteq granted /\ asked' \subseteq asked
            /\ following' \subseteq following /\ asking' \subseteq asking
        BY <2>5 DEF RemoveRow
      <3>2. job' = [job EXCEPT ![c] = [job[c] EXCEPT !.at = "route"]]
        BY <2>5 DEF RemoveRow
      <3>3. [job[c] EXCEPT !.at = "route"] \in FollowingJob
        BY JobEdited DEF FollowingTyped
      <3>. QED
        BY <1>1, <2>5, <3>1, <3>2, <3>3 DEF Tables, RemoveRow, FollowingTyped
    <2>. QED
      BY <1>3, <2>1, <2>2, <2>3, <2>4, <2>5
  <1>4. ASSUME S2SSubscribed \/ S2SUnsubscribed \/ S2SUnsubscribe PROVE FollowingTyped'
    <2>. DEFINE m == Head(wire)
    <2>1. wire' = Tail(wire) /\ wire' \in Seq(Stanza) /\ m \in Stanza
      <3>1. wire' = Tail(wire) /\ wire # <<>> /\ wire \in Seq(Stanza)
        BY <1>4 DEF S2SSubscribed, S2SUnsubscribed, S2SUnsubscribe, NextIs, FollowingTyped
      <3>. QED
        BY <3>1
    <2>2. CASE S2SSubscribed
      <3>1. following' \subseteq following \cup asking /\ asking' \subseteq asking
        BY <2>2 DEF S2SSubscribed
      <3>. QED
        BY <1>1, <2>1, <2>2, <3>1 DEF Tables, S2SSubscribed, FollowingTyped
    <2>3. CASE S2SUnsubscribed
      BY <1>1, <2>1, <2>3 DEF Tables, S2SUnsubscribed, FollowingTyped
    <2>4. CASE S2SUnsubscribe
      <3>1. asked' \subseteq asked /\ granted' \subseteq granted
        BY <2>4 DEF S2SUnsubscribe
      <3>2. ASSUME NEW p \in User \X User
            PROVE  /\ [LinkIdle EXCEPT !.at = "list", !.pair = p] \in LinkJob
                   /\ [LinkIdle EXCEPT !.at = "list", !.pair = p].pair = p
        BY LinkEdited
      <3>3. link' \in LinkJob /\ (link'.at # "idle" => link'.pair \in User \X User)
        BY <2>4, <3>2 DEF S2SUnsubscribe, FollowingTyped
      <3>. QED
        BY <1>1, <2>1, <2>4, <3>1, <3>3 DEF Tables, S2SUnsubscribe, FollowingTyped
    <2>. QED
      BY <1>4, <2>2, <2>3, <2>4
  <1>5. ASSUME LinkList \/ LinkRaise \/ LinkDone \/ LinkRoute PROVE FollowingTyped'
    <2>1. CASE LinkList
      <3>. DEFINE seen == Cardinality(Resources(link.pair[2]))
      <3>1. seen \in Nat
        <4>1. Resources(link.pair[2]) \subseteq Client /\ IsFiniteSet(Client)
          BY PresenceAssumption DEF Resources, FollowingTyped
        <4>. QED
          BY <4>1, FS_Subset, FS_CardinalityType
      <3>2. link' = [link EXCEPT !.at = "listing", !.seen = seen]
        BY <2>1 DEF LinkList
      <3>. HIDE DEF seen
      <3>3. link' \in LinkJob /\ link'.pair = link.pair /\ link.pair \in User \X User
        BY <2>1, <3>1, <3>2 DEF LinkList, FollowingTyped, LinkJob
      <3>. QED
        BY <1>1, <2>1, <3>3 DEF Tables, LinkList, vars, rosters, FollowingTyped
    <2>2. CASE LinkRaise
      BY <1>1, <2>2, IdleTyped DEF Tables, LinkRaise, rosters, FollowingTyped
    <2>3. CASE LinkDone
      <3>1. PICK items : items = Ended(link.pair[1], link.pair[2])
        OBVIOUS
      <3>2. link' = [link EXCEPT !.at = "route", !.items = items]
        BY <2>3, <3>1 DEF LinkDone
      <3>3. link.pair[1] \in User /\ link.pair[2] \in User
        BY <2>3 DEF LinkDone, FollowingTyped
      <3>4. items \in Seq(Stanza)
        BY <3>1, <3>3, EndedFacts
      <3>5. link' \in LinkJob /\ link'.pair = link.pair /\ link.pair \in User \X User
        BY <2>3, <3>2, <3>4 DEF LinkDone, FollowingTyped, LinkJob
      <3>. QED
        BY <1>1, <2>3, <3>5 DEF Tables, LinkDone, vars, rosters, FollowingTyped
    <2>4. CASE LinkRoute
      <3>1. wire \o link.items \in Seq(Stanza)
        BY DEF FollowingTyped, LinkJob
      <3>. QED
        BY <1>1, <2>4, <3>1, IdleTyped DEF Tables, LinkRoute, rosters, FollowingTyped
    <2>. QED
      BY <1>5, <2>1, <2>2, <2>3, <2>4
  <1>. QED
    BY <1>2, <1>3, <1>4, <1>5 DEF SubscriptionStep

-----------------------------------------------------------------------------
(* What a step leaves as it was.                                            *)

(* The handlers on the connection d do nothing.                             *)
Undisturbed(d) ==
  /\ job'[d] = job[d] /\ changing'[d] = changing[d]
  /\ closing'[d] = closing[d] /\ active'[d] = active[d]
  /\ last'[d] = last[d] /\ (d \in bound' <=> d \in bound)

(* Who is bound too late to be told of is counted among the crossed.        *)
Heeds ==
  \A b \in bound' \ bound : Removing(UserOf[b]) \cup Approving(UserOf[b]) \subseteq crossed'

LEMMA Aging ==
  ASSUME Ages
  PROVE  /\ \A m : Allowed(m) => Allowed(m)'
         /\ \A u, v : Over(u, v) => Over(u, v)'
         /\ \A m, v : ChangeItem(m, v) => ChangeItem(m, v)'
  <1>1. \A u, v : Over(u, v) => Over(u, v)'
    BY DEF Ages, Over
  <1>2. \A m : Allowed(m) => Allowed(m)'
    BY DEF Ages, Allowed
  <1>3. \A m, v : ChangeItem(m, v) => ChangeItem(m, v)'
    BY <1>1 DEF Ages, ChangeItem
  <1>. QED
    BY <1>1, <1>2, <1>3

LEMMA ApprovingHas ==
  ASSUME NEW c \in Client, job[c].at = "route",
         NEW m \in ToSet(job[c].items), m.kind = "subscribed"
  PROVE  <<m.to, UserOf[c]>> \in Approving(UserOf[c])
  BY DEF Approving

LEMMA RemovingHas ==
  ASSUME NEW c \in Client, job[c].at \in {"listing", "remove"}, job[c].show = "none",
         NEW u \in changing[c]
  PROVE  <<u, UserOf[c]>> \in Removing(UserOf[c])
  BY DEF Removing

LEMMA PartingHas ==
  ASSUME NEW v
  PROVE  /\ \A c \in Client : \A u \in changing[c] :
              UserOf[c] = v /\ job[c].show = "unavailable" => <<u, v>> \in Parting(v)
         /\ \A u : link.at \in {"list", "listing"} /\ link.pair = <<u, v>>
                   => <<u, v>> \in Parting(v)
  BY DEF Parting

LEMMA UndisturbedStays ==
  ASSUME FollowingTyped, Consistent, Ages, Heeds, NEW d \in Client, Undisturbed(d)
  PROVE  JobStaged(d)' /\ Gone(d)'
  <1>1. JobStaged(d) /\ Gone(d)
    BY DEF Consistent, JobsStaged, GoneWhenInactive
  <1>2. Gone(d)'
    <2>1. (InNews(d)' <=> InNews(d)) /\ Due(d)' = Due(d)
      BY DEF Undisturbed, InNews, Due, Recorded
    <2>. QED
      BY <1>1, <2>1 DEF Undisturbed, Gone
  <1>3. ASSUME NEW items, NEW u, TellsOfAll(items, u, UserOf[d]),
               <<u, UserOf[d]>> \in Removing(UserOf[d]) \cup Approving(UserOf[d]),
               <<u, UserOf[d]>> \notin crossed'
        PROVE  TellsOfAll(items, u, UserOf[d])'
    BY <1>3 DEF TellsOfAll, Heeds
  <1>4. RoutesPresence(d) => RoutesPresence(d)'
    BY Aging DEF Undisturbed, RoutesPresence
  <1>5. ASSUME job[d].at = "route", RoutesChange(d)
        PROVE  RoutesChange(d)'
    <2>1. \A m \in ToSet(job[d].items) : ChangeItem(m, UserOf[d])'
      BY <1>5, Aging DEF RoutesChange
    <2>2. ASSUME NEW m \in ToSet(job[d].items), m.kind = "subscribed",
                 <<m.to, UserOf[d]>> \in granted', <<m.to, UserOf[d]>> \notin crossed'
          PROVE  TellsOfAll(job[d].items, m.to, UserOf[d])'
      <3>1. ChangeItem(m, UserOf[d])
        BY <1>5 DEF RoutesChange
      <3>2. <<m.to, UserOf[d]>> \notin asked
        BY <2>2, <3>1 DEF ChangeItem
      <3>3. <<m.to, UserOf[d]>> \in granted /\ <<m.to, UserOf[d]>> \notin crossed
        BY <2>2, <3>2 DEF Ages
      <3>4. TellsOfAll(job[d].items, m.to, UserOf[d])
        BY <1>5, <2>2, <3>3 DEF RoutesChange
      <3>5. <<m.to, UserOf[d]>> \in Approving(UserOf[d])
        BY <1>5, <2>2, ApprovingHas
      <3>6. \A items, u : /\ TellsOfAll(items, u, UserOf[d])
                          /\ <<u, UserOf[d]>> \in Approving(UserOf[d])
                          /\ <<u, UserOf[d]>> \notin crossed'
                          => TellsOfAll(items, u, UserOf[d])'
        BY <1>3
      <3>7. PICK items : items = job[d].items
        OBVIOUS
      <3>8. TellsOfAll(items, m.to, UserOf[d])'
        BY <2>2, <3>4, <3>5, <3>6, <3>7
      <3>9. items = job'[d].items
        BY <3>7 DEF Undisturbed
      <3>. QED
        BY <3>7, <3>8 DEF TellsOfAll, Undisturbed
    <2>. QED
      BY <1>5, <2>1, <2>2 DEF RoutesChange, Undisturbed
  <1>6. ASSUME NEW u \in User, Answering(d, u), job[d].at \in {"list", "listing", "remove"}
        PROVE  Answering(d, u)'
    <2>1. /\ job[d].show = "available" => <<u, UserOf[d]>> \notin asked'
          /\ job[d].show = "unavailable" => Over(u, UserOf[d])'
      BY <1>6, Aging DEF Answering, Ages
    <2>2. ASSUME job[d].at = "remove", <<u, UserOf[d]>> \notin crossed'
          PROVE  TellsOfAll(job[d].items, u, UserOf[d])'
      <3>1. TellsOfAll(job[d].items, u, UserOf[d])
        BY <1>6, <2>2 DEF Answering, Ages
      <3>2. <<u, UserOf[d]>> \in Removing(UserOf[d])
        BY <1>6, <2>2, RemovingHas DEF Answering
      <3>3. PICK items : items = job[d].items
        OBVIOUS
      <3>4. TellsOfAll(items, u, UserOf[d])'
        BY <1>3, <2>2, <3>1, <3>2, <3>3
      <3>. QED
        BY <3>3, <3>4 DEF TellsOfAll, Undisturbed
    <2>. QED
      BY <1>6, <2>1, <2>2 DEF Answering, Undisturbed
  <1>7. JobStaged(d)'
    <2>1. /\ d \notin bound' => job'[d].at = "idle"
          /\ job'[d].at \in {"act", "loop"} =>
               job'[d].show \in Show /\ (closing'[d] => job'[d].show = "unavailable")
          /\ job'[d].at \notin {"list", "listing", "remove"} => changing'[d] = {}
      BY <1>1 DEF JobStaged, Undisturbed
    <2>2. job'[d].at = "loop" => \A v \in ToSet(job'[d].probed) : <<UserOf[d], v>> \notin asked'
      BY <1>1 DEF JobStaged, Undisturbed, Ages
    <2>3. job'[d].at = "route" => RoutesPresence(d)' \/ RoutesChange(d)'
      BY <1>1, <1>4, <1>5 DEF JobStaged, Undisturbed
    <2>4. job'[d].at \in {"list", "listing", "remove"} => \E u \in User : Answering(d, u)'
      BY <1>1, <1>6 DEF JobStaged, Undisturbed
    <2>. QED
      BY <2>1, <2>2, <2>3, <2>4 DEF JobStaged
  <1>. QED
    BY <1>2, <1>7

LEMMA StagedStep ==
  ASSUME FollowingTyped, Consistent, Ages, Heeds, NEW B \in SUBSET Client,
         \A d \in Client \ B : Undisturbed(d),
         \A d \in B : JobStaged(d)' /\ Gone(d)'
  PROVE  JobsStaged' /\ GoneWhenInactive'
  <1>1. \A d \in Client : JobStaged(d)' /\ Gone(d)'
    BY UndisturbedStays
  <1>. QED
    BY <1>1 DEF JobsStaged, GoneWhenInactive

LEMMA LinkStays ==
  ASSUME Consistent, Ages, link' = link
  PROVE  LinkStaged'
  BY Aging DEF Consistent, LinkStaged

LEMMA WireStep ==
  ASSUME Consistent, Ages, NEW w \in Seq(Stanza), NEW x \in Seq(Stanza), wire' = w \o x,
         ToSet(w) \subseteq ToSet(wire), \A m \in ToSet(x) : Allowed(m)'
  PROVE  WireAllowed'
  <1>1. ToSet(wire') = ToSet(w) \cup ToSet(x)
    BY ConcatFacts
  <1>. QED
    BY <1>1, Aging DEF Consistent, WireAllowed

LEMMA UndisturbedTells ==
  ASSUME NEW d \in Client, Undisturbed(d)
  PROVE  /\ (Recorded(d)' <=> Recorded(d)) /\ Due(d)' = Due(d)
         /\ \A u : /\ OnItsWay(d, u)' <=> OnItsWay(d, u)
                   /\ Probing(d, u)' <=> Probing(d, u)
  BY DEF Undisturbed, Recorded, Due, OnItsWay, Probing

LEMMA PartsStay ==
  ASSUME NEW B \in SUBSET Client, \A c \in Client \ B : Undisturbed(c), NEW u, NEW d \in Client,
         d \in bound => d \in bound', LinkParts(u, d) => LinkParts(u, d)', ToPart(u, d)
  PROVE  ToPart(u, d)' \/ \E c \in B : Parts(c, u, d) /\ ~Parts(c, u, d)'
  <1>1. \A c \in Client \ B : Parts(c, u, d) => Parts(c, u, d)'
    BY DEF Parts, Undisturbed
  <1>. QED
    BY <1>1 DEF ToPart

(* A handler on the connection b that sends nothing yet.                    *)
Handles(b) ==
  /\ \A d \in Client \ {b} : Undisturbed(d)
  /\ wire' = wire /\ knows' = knows /\ link' = link /\ crossed' = crossed /\ misled' = misled
  /\ bound' = bound
  /\ asked' \subseteq asked /\ granted' \subseteq granted \cup asked
  /\ following' \subseteq following
  /\ job[b].at # "route"
  /\ \/ last'[b] = last[b]
     \/ \A u \in User : <<u, UserOf[b]>> \in granted' => OnItsWay(b, u)'
  /\ \A u \in User :
       /\ Probing(b, u) => Probing(b, u)'
       /\ active'[b] /\ ~active[b] /\ <<UserOf[b], u>> \in following' => Probing(b, u)'
       /\ \A d \in bound :
            /\ <<u, UserOf[d]>> \notin crossed
            /\ Parts(b, u, d) \/ (Over(u, UserOf[d])' /\ ~Over(u, UserOf[d]))
            => Parts(b, u, d)'

LEMMA NothingSent ==
  ASSUME FollowingTyped, Consistent, Ages, Keeps, NEW w, wire' = w,
         Thins(w), Begins(w), Leaves(<<>>), Answers(w, <<>>)
  PROVE  Knowledge'
  <1>. DEFINE none == <<>>
  <1>1. none \in Seq(Stanza) /\ Len(none) = 0 /\ ToSet(none) = {}
    BY DEF ToSet
  <1>2. wire' = w \o none
    BY DEF Thins
  <1>. HIDE DEF none
  <1>3. \A u, v, d : Announced(none, u, v, d)
    BY <1>1 DEF Announced
  <1>4. Brings(none)
    BY <1>1, <1>3 DEF Brings
  <1>5. Leaves(none) /\ Answers(w, none)
    BY DEF none
  <1>. QED
    BY <1>2, <1>4, <1>5, KnowledgeStep

LEMMA AllPresent ==
  ASSUME FollowingTyped
  PROVE  Answers(wire, <<>>)
  BY DEF Answers

LEMMA HandlerStep ==
  ASSUME FollowingTyped, Consistent, NEW b \in Client, Handles(b),
         JobStaged(b)', Gone(b)', Exclusive'
  PROVE  Consistent'
  <1>1. Ages /\ Heeds
    BY DEF Handles, Ages, Heeds
  <1>2. JobsStaged' /\ GoneWhenInactive'
    <2>1. {b} \in SUBSET Client /\ \A d \in {b} : JobStaged(d)' /\ Gone(d)'
      OBVIOUS
    <2>2. \A d \in Client \ {b} : Undisturbed(d)
      BY DEF Handles
    <2>. QED
      BY <1>1, <2>1, <2>2, StagedStep, Zenon
  <1>3. LinkStaged' /\ WireAllowed'
    <2>1. LinkStaged'
      BY <1>1, LinkStays DEF Handles
    <2>2. WireAllowed'
      BY <1>1, Aging DEF Handles, Consistent, WireAllowed
    <2>. QED
      BY <2>1, <2>2
  <1>4. \A d \in Client \ {b} :
          /\ (Recorded(d)' <=> Recorded(d)) /\ Due(d)' = Due(d)
          /\ \A u : /\ OnItsWay(d, u)' <=> OnItsWay(d, u)
                    /\ Probing(d, u)' <=> Probing(d, u)
    BY UndisturbedTells DEF Handles
  <1>5. Keeps
    <2>1. last'[b] = last[b] => (Recorded(b)' <=> Recorded(b)) /\ Due(b)' = Due(b)
      BY DEF Handles, Recorded, Due
    <2>2. \A d \in Client : \/ (Recorded(d)' => Recorded(d)) /\ Due(d)' = Due(d)
                            \/ \A u \in User : <<u, UserOf[d]>> \in granted' => OnItsWay(d, u)'
      BY <1>4, <2>1 DEF Handles
    <2>. QED
      BY <2>2 DEF Handles, Keeps
  <1>6. ASSUME NEW u \in User, NEW d \in Client, <<u, UserOf[d]>> \notin crossed, ToPart(u, d)
        PROVE  ToPart(u, d)'
    <2>1. LinkParts(u, d) => LinkParts(u, d)'
      BY DEF Handles, LinkParts
    <2>2. Parts(b, u, d) => Parts(b, u, d)'
      <3>1. CASE d \in bound
        BY <1>6, <3>1 DEF Handles
      <3>2. CASE d \notin bound
        BY <3>2 DEF Handles, Parts
      <3>. QED
        BY <3>1, <3>2
    <2>3. /\ {b} \in SUBSET Client /\ \A c \in Client \ {b} : Undisturbed(c)
          /\ d \in bound => d \in bound'
      BY DEF Handles
    <2>4. ToPart(u, d)' \/ \E c \in {b} : Parts(c, u, d) /\ ~Parts(c, u, d)'
      BY <1>6, <2>1, <2>3, PartsStay, Zenon
    <2>. QED
      BY <2>2, <2>4
  <1>7. Leaves(<<>>)
    <2>1. \A u : ~OnItsWay(b, u)
      BY DEF Handles, OnItsWay
    <2>2. ASSUME NEW u \in User
          PROVE  /\ \A d \in Client : OnItsWay(d, u) => OnItsWay(d, u)'
                 /\ \A d \in Client : ToPart(u, d) /\ <<u, UserOf[d]>> \notin crossed' =>
                      ToPart(u, d)'
                 /\ \A c \in Client : Probing(c, u) => Probing(c, u)'
      <3>1. \A d \in Client : OnItsWay(d, u) => OnItsWay(d, u)'
        BY <1>4, <2>1
      <3>2. \A d \in Client : ToPart(u, d) /\ <<u, UserOf[d]>> \notin crossed' => ToPart(u, d)'
        BY <1>6 DEF Handles
      <3>3. \A c \in Client : Probing(c, u) => Probing(c, u)'
        BY <1>4 DEF Handles
      <3>. QED
        BY <3>1, <3>2, <3>3
    <2>. QED
      BY <2>2 DEF Leaves
  <1>8. Begins(wire)
    <2>1. \A c \in Client : active'[c] /\ ~active[c] => c = b
      BY DEF Handles, Undisturbed
    <2>2. \A c \in Client : active'[c] /\ ~active[c] =>
            \A u \in User : <<UserOf[c], u>> \in following' => Probing(c, u)'
      BY <2>1 DEF Handles
    <2>3. \A u \in User, d \in bound :
            Over(u, UserOf[d])' /\ ~Over(u, UserOf[d]) /\ <<u, UserOf[d]>> \notin crossed'
            => Parts(b, u, d)'
      BY DEF Handles
    <2>4. \A u \in User, d \in bound :
            Over(u, UserOf[d])' /\ ~Over(u, UserOf[d]) /\ <<u, UserOf[d]>> \notin crossed'
            => ToPart(u, d)'
      BY <2>3 DEF ToPart
    <2>5. following' \subseteq following
      BY DEF Handles
    <2>. QED
      BY <2>2, <2>4, <2>5 DEF Begins
  <1>9. Knowledge'
    <2>1. wire' = wire
      BY DEF Handles
    <2>. QED
      BY <1>1, <1>5, <1>7, <1>8, <2>1, NothingSent, ThinsSelf, AllPresent
  <1>. QED
    BY <1>2, <1>3, <1>9 DEF Consistent

(* The same for s2s-subscription.                                           *)
Links(w) ==
  /\ \A d \in Client : Undisturbed(d)
  /\ wire' = w /\ knows' = knows /\ crossed' = crossed /\ misled' = misled /\ bound' = bound
  /\ asked' \subseteq asked /\ granted' \subseteq granted
  /\ \A c, d \in Client :
       /\ Pair(c, d) \in following' /\ Pair(c, d) \notin following
       /\ Pair(c, d) \in granted /\ Pair(c, d) \notin crossed /\ Recorded(d)
       => OnItsWay(d, UserOf[c]) \/ \E m \in ToSet(w) : TellsUser(m, d, UserOf[c])
  /\ \A u \in User, d \in Client :
       /\ LinkParts(u, d) => LinkParts(u, d)'
       /\ d \in bound /\ Over(u, UserOf[d])' /\ ~Over(u, UserOf[d]) => LinkParts(u, d)'

LEMMA LinkStep ==
  ASSUME FollowingTyped, Consistent, NEW w, Links(w), Thins(w), Answers(w, <<>>),
         LinkStaged', Exclusive'
  PROVE  Consistent'
  <1>1. Ages /\ Heeds
    BY DEF Links, Ages, Heeds
  <1>2. JobsStaged' /\ GoneWhenInactive'
    <2>1. \A d \in Client \ {} : Undisturbed(d)
      BY DEF Links
    <2>2. {} \in SUBSET Client /\ \A d \in {} : JobStaged(d)' /\ Gone(d)'
      OBVIOUS
    <2>. QED
      BY <1>1, <2>1, <2>2, StagedStep, Zenon
  <1>3. WireAllowed'
    BY <1>1, Aging DEF Links, Thins, Consistent, WireAllowed
  <1>4. \A d \in Client :
          /\ (Recorded(d)' <=> Recorded(d)) /\ Due(d)' = Due(d)
          /\ \A u : /\ OnItsWay(d, u)' <=> OnItsWay(d, u)
                    /\ Probing(d, u)' <=> Probing(d, u)
    BY UndisturbedTells DEF Links
  <1>5. Keeps
    BY <1>4 DEF Links, Keeps
  <1>6. ASSUME NEW u \in User, NEW d \in Client, ToPart(u, d)
        PROVE  ToPart(u, d)'
    <2>1. {} \in SUBSET Client /\ \A c \in Client \ {} : Undisturbed(c)
      BY DEF Links
    <2>2. (LinkParts(u, d) => LinkParts(u, d)') /\ (d \in bound => d \in bound')
      BY DEF Links
    <2>3. ToPart(u, d)' \/ \E c \in {} : Parts(c, u, d) /\ ~Parts(c, u, d)'
      BY <1>6, <2>1, <2>2, PartsStay, Zenon
    <2>. QED
      BY <2>3
  <1>7. Leaves(<<>>)
    BY <1>4, <1>6 DEF Leaves
  <1>8. Begins(w)
    <2>1. \A c, d \in Client :
            /\ Pair(c, d) \in following' /\ Pair(c, d) \notin following
            /\ Pair(c, d) \in granted' /\ Pair(c, d) \notin crossed' /\ Recorded(d)'
            => OnItsWay(d, UserOf[c])' \/ \E m \in ToSet(w) : TellsUser(m, d, UserOf[c])
      BY <1>4 DEF Links
    <2>2. \A c \in Client : ~(active'[c] /\ ~active[c])
      BY DEF Links, Undisturbed
    <2>3. \A u \in User, d \in bound :
            Over(u, UserOf[d])' /\ ~Over(u, UserOf[d]) /\ <<u, UserOf[d]>> \notin crossed'
            => ToPart(u, d)'
      BY DEF Links, ToPart, FollowingTyped
    <2>. QED
      BY <2>1, <2>2, <2>3 DEF Begins
  <1>9. Knowledge'
    <2>1. wire' = w
      BY DEF Links
    <2>. QED
      BY <1>1, <1>5, <1>7, <1>8, <2>1, NothingSent
  <1>. QED
    BY <1>2, <1>3, <1>9 DEF Consistent

-----------------------------------------------------------------------------
(* The steps, one by one.  First what the handlers make of their jobs.      *)

LEMMA IdleFields ==
  ASSUME NEW show, NEW items
  PROVE  /\ [Idle EXCEPT !.at = "act", !.show = show].at = "act"
         /\ [Idle EXCEPT !.at = "act", !.show = show].show = show
         /\ [Idle EXCEPT !.at = "list", !.show = show].at = "list"
         /\ [Idle EXCEPT !.at = "list", !.show = show].show = show
         /\ [Idle EXCEPT !.at = "route", !.items = items, !.handlers = 1].at = "route"
         /\ [Idle EXCEPT !.at = "route", !.items = items, !.handlers = 1].items = items
  <1>1. Idle = [at |-> Idle.at, show |-> Idle.show, initial |-> Idle.initial,
                seen |-> Idle.seen, probed |-> Idle.probed, items |-> Idle.items,
                handlers |-> Idle.handlers]
    BY DEF Idle
  <1>. QED
    BY <1>1

LEMMA JobFields ==
  ASSUME NEW j \in FollowingJob, NEW initial, NEW probed, NEW seen, NEW items, NEW handlers
  PROVE  LET loops == [j EXCEPT !.at = "loop", !.initial = initial, !.probed = probed,
                                !.seen = seen]
             lists == [j EXCEPT !.at = "listing", !.seen = seen]
             routes == [j EXCEPT !.at = "route", !.items = items, !.handlers = handlers]
             removes == [j EXCEPT !.at = "remove", !.items = items, !.handlers = handlers]
             goes == [j EXCEPT !.at = "route"]
         IN /\ loops.at = "loop" /\ loops.probed = probed /\ loops.show = j.show
            /\ lists.at = "listing" /\ lists.show = j.show
            /\ routes.at = "route" /\ routes.items = items /\ routes.show = j.show
            /\ removes.at = "remove" /\ removes.items = items /\ removes.show = j.show
            /\ goes.at = "route" /\ goes.items = j.items /\ goes.show = j.show
  BY DEF FollowingJob

LEMMA SendPresenceKeeps ==
  ASSUME FollowingTyped, Consistent, NEW b \in Client, NEW s \in Show, SendPresence(b, s),
         UNCHANGED <<followingVars, misled, crossed>>
  PROVE  Consistent'
  <1>. DEFINE j == [Idle EXCEPT !.at = "act", !.show = s]
  <1>1. /\ b \in bound /\ ~closing[b] /\ job[b].at = "idle"
        /\ bound' = bound /\ closing' = closing /\ active' = active /\ last' = last
        /\ wire' = wire /\ knows' = knows /\ granted' = granted /\ following' = following
        /\ asked' = asked /\ changing' = changing /\ link' = link
        /\ misled' = misled /\ crossed' = crossed
    BY DEF SendPresence, rosters, tables, followingVars
  <1>2. job' = [job EXCEPT ![b] = j]
    BY Zenon DEF SendPresence
  <1>3. j.at = "act" /\ j.show = s
    BY IdleFields
  <1>. HIDE DEF j
  <1>4. job'[b] = j /\ \A d \in Client \ {b} : job'[d] = job[d]
    BY <1>2 DEF FollowingTyped
  <1>5. JobStaged(b) /\ Gone(b)
    BY DEF Consistent, JobsStaged, GoneWhenInactive
  <1>6. JobStaged(b)'
    BY <1>1, <1>3, <1>4, <1>5 DEF JobStaged
  <1>7. Gone(b)'
    <2>1. ~InNews(b) /\ ~InNews(b)' /\ Due(b)' = Due(b)
      BY <1>1, <1>3, <1>4 DEF InNews, Due, Recorded
    <2>. QED
      BY <1>1, <1>5, <2>1 DEF Gone
  <1>8. Handles(b)
    <2>1. \A d \in Client \ {b} : Undisturbed(d)
      BY <1>1, <1>4 DEF Undisturbed
    <2>2. \A u : ~Probing(b, u)
      BY <1>1 DEF Probing
    <2>3. \A u, d : ~Parts(b, u, d)
      BY <1>1, <1>5 DEF Parts, JobStaged
    <2>4. \A u, v : Over(u, v)' <=> Over(u, v)
      BY <1>1 DEF Over
    <2>. QED
      BY <1>1, <2>1, <2>2, <2>3, <2>4 DEF Handles
  <1>9. Exclusive'
    BY <1>1 DEF Consistent, Exclusive
  <1>. QED
    BY <1>6, <1>7, <1>8, <1>9, HandlerStep

LEMMA ActKeeps ==
  ASSUME FollowingTyped, Consistent, NEW b \in Client, Act(b),
         UNCHANGED <<followingVars, misled, crossed>>
  PROVE  Consistent'
  <1>. DEFINE probed == IF ~active[b] THEN Subscriptions(UserOf[b]) ELSE <<>>
              j == [job[b] EXCEPT !.at = "loop", !.initial = ~active[b],
                                  !.probed = probed, !.seen = Cardinality(Resources(UserOf[b]))]
  <1>1. /\ job[b].at = "act"
        /\ bound' = bound /\ closing' = closing /\ last' = last
        /\ wire' = wire /\ knows' = knows /\ granted' = granted /\ following' = following
        /\ asked' = asked /\ changing' = changing /\ link' = link
        /\ misled' = misled /\ crossed' = crossed
    BY DEF Act, rosters, followingVars
  <1>2. job' = [job EXCEPT ![b] = j]
    BY DEF Act
  <1>3. j.at = "loop" /\ j.probed = probed /\ j.show = job[b].show
    BY JobFields DEF FollowingTyped
  <1>4. /\ active'[b] <=> (~active[b] \/ (active[b] /\ job[b].show # "unavailable"))
        /\ \A d \in Client \ {b} : active'[d] = active[d]
    BY DEF Act, FollowingTyped
  <1>5. /\ ~active[b] => \A v : v \in ToSet(probed) <=> v \in User /\ <<UserOf[b], v>> \in following
        /\ active[b] => ToSet(probed) = {}
    <2>1. ~active[b] => \A v : v \in ToSet(probed) <=> v \in User /\ <<UserOf[b], v>> \in following
      BY PairFacts, ReadFacts
    <2>2. active[b] => ToSet(probed) = {}
      BY DEF ToSet
    <2>. QED
      BY <2>1, <2>2
  <1>. HIDE DEF j, probed
  <1>6. job'[b] = j /\ \A d \in Client \ {b} : job'[d] = job[d]
    BY <1>2 DEF FollowingTyped
  <1>7. JobStaged(b) /\ Gone(b)
    BY DEF Consistent, JobsStaged, GoneWhenInactive
  <1>8. JobStaged(b)'
    <2>1. \A v \in ToSet(j.probed) : <<UserOf[b], v>> \notin asked
      BY <1>3, <1>5 DEF Consistent, Exclusive
    <2>. QED
      BY <1>1, <1>3, <1>6, <1>7, <2>1 DEF JobStaged
  <1>9. Gone(b)'
    <2>1. InNews(b)'
      BY <1>3, <1>6 DEF InNews
    <2>. QED
      BY <1>1, <1>3, <1>4, <1>6, <1>7, <2>1 DEF Gone
  <1>10. Handles(b)
    <2>1. \A d \in Client \ {b} : Undisturbed(d)
      BY <1>1, <1>4, <1>6 DEF Undisturbed
    <2>2. \A u : ~Probing(b, u)
      BY <1>1 DEF Probing
    <2>3. ~active[b] => \A u \in User : <<UserOf[b], u>> \in following => Probing(b, u)'
      BY <1>3, <1>5, <1>6 DEF Probing
    <2>4. \A u, d : ~Parts(b, u, d)
      BY <1>1, <1>7 DEF Parts, JobStaged
    <2>5. \A u, v : Over(u, v)' <=> Over(u, v)
      BY <1>1 DEF Over
    <2>. QED
      BY <1>1, <2>1, <2>2, <2>3, <2>4, <2>5 DEF Handles
  <1>11. Exclusive'
    BY <1>1 DEF Consistent, Exclusive
  <1>. QED
    BY <1>8, <1>9, <1>10, <1>11, HandlerStep

LEMMA RecordKeeps ==
  ASSUME FollowingTyped, Consistent, NEW b \in Client, Record(b),
         UNCHANGED <<followingVars, misled, crossed>>
  PROVE  Consistent'
  <1>1. /\ job[b].at = "loop" /\ last' = [last EXCEPT ![b] = job[b].show]
        /\ bound' = bound /\ closing' = closing /\ active' = active
        /\ wire' = wire /\ knows' = knows /\ granted' = granted /\ following' = following
        /\ asked' = asked /\ changing' = changing /\ link' = link
        /\ misled' = misled /\ crossed' = crossed
    BY DEF Record, rosters, followingVars
  <1>2. PICK others \in SUBSET Client, items \in Seq(Stanza), handlers \in Nat :
          /\ \A d \in others : UserOf[d] = UserOf[b]
          /\ Sent(items, b, others, Subscribers(UserOf[b]))
          /\ job' = [job EXCEPT ![b] = [job[b] EXCEPT !.at = "route", !.items = items,
                                                      !.handlers = handlers]]
    BY RecordJob
  <1>. DEFINE j == [job[b] EXCEPT !.at = "route", !.items = items, !.handlers = handlers]
  <1>3. j.at = "route" /\ j.items = items /\ j.show = job[b].show
    BY JobFields DEF FollowingTyped
  <1>4. job' = [job EXCEPT ![b] = j]
    BY <1>2
  <1>. HIDE DEF j
  <1>5. job'[b] = j /\ \A d \in Client \ {b} : job'[d] = job[d]
    BY <1>4 DEF FollowingTyped
  <1>6. last'[b] = job[b].show /\ \A d \in Client \ {b} : last'[d] = last[d]
    BY <1>1 DEF FollowingTyped
  <1>7. JobStaged(b) /\ Gone(b) /\ b \in bound
    BY <1>1 DEF Consistent, JobsStaged, GoneWhenInactive, JobStaged
  <1>8. \A v : v \in ToSet(Subscribers(UserOf[b])) <=> v \in User /\ <<v, UserOf[b]>> \in granted
    BY PairFacts, ReadFacts
  <1>9. /\ \A m \in ToSet(items) :
             /\ m.kind \in {"presence", "probe"} /\ m.from = b /\ Allowed(m)
             /\ m.kind = "presence" => m.show = job[b].show
        /\ \A u \in User : <<u, UserOf[b]>> \in granted =>
             \E m \in ToSet(items) : TellsUser(m, b, u)
        /\ \A u \in ToSet(job[b].probed) : \E m \in ToSet(items) : Probes(m, b, u)
    <2>1. /\ job[b].show \in Show
          /\ \A v \in ToSet(job[b].probed) : v \in User /\ <<UserOf[b], v>> \notin asked
      <3>1. job[b].probed \in Seq(User)
        BY DEF FollowingTyped, FollowingJob
      <3>2. \A v \in ToSet(job[b].probed) : v \in User
        BY <3>1, ToSetTyped
      <3>. QED
        BY <1>1, <1>7, <3>2 DEF JobStaged
    <2>2. ASSUME NEW m \in ToSet(items)
          PROVE  /\ m.kind \in {"presence", "probe"} /\ m.from = b /\ Allowed(m)
                 /\ m.kind = "presence" => m.show = job[b].show
      <3>1. /\ m.from = b
            /\ \/ /\ m.kind = "presence" /\ m.show = job[b].show
                  /\ m.to \in others \cup ToSet(Subscribers(UserOf[b]))
               \/ m.kind = "probe" /\ m.to \in ToSet(job[b].probed)
        BY <1>2 DEF Sent
      <3>2. CASE m.kind = "presence" /\ m.to \in others
        BY <1>2, <2>1, <3>1, <3>2 DEF Allowed
      <3>3. CASE m.kind = "presence" /\ m.to \in ToSet(Subscribers(UserOf[b]))
        <4>1. m.to \in User /\ <<m.to, UserOf[b]>> \notin asked
          BY <1>8, <3>3 DEF Consistent, Exclusive
        <4>2. UserAt(m.to) = m.to
          BY <4>1 DEF UserAt
        <4>. QED
          BY <2>1, <3>1, <3>3, <4>1, <4>2 DEF Allowed
      <3>4. CASE m.kind = "probe" /\ m.to \in ToSet(job[b].probed)
        BY <2>1, <3>1, <3>4 DEF Allowed
      <3>. QED
        BY <3>1, <3>2, <3>3, <3>4
    <2>3. ASSUME NEW u \in User, <<u, UserOf[b]>> \in granted
          PROVE  \E m \in ToSet(items) : TellsUser(m, b, u)
      <3>1. \E m \in ToSet(items) : m.kind = "presence" /\ m.to = u
        BY <1>2, <1>8, <2>3 DEF Sent
      <3>. QED
        BY <2>2, <3>1 DEF TellsUser
    <2>4. \A u \in ToSet(job[b].probed) : \E m \in ToSet(items) : Probes(m, b, u)
      BY <1>2 DEF Sent
    <2>. QED
      BY <2>2, <2>3, <2>4
  <1>10. JobStaged(b)'
    <2>1. RoutesPresence(b)'
      <3>1. job[b].show \in Show /\ (closing[b] => job[b].show = "unavailable")
        BY <1>1, <1>7 DEF JobStaged
      <3>2. \A m \in ToSet(items) : Allowed(m)'
        BY <1>1, <1>9 DEF Allowed
      <3>. QED
        BY <1>1, <1>3, <1>5, <1>6, <1>9, <3>1, <3>2 DEF RoutesPresence
    <2>. QED
      BY <1>1, <1>3, <1>5, <1>7, <2>1 DEF JobStaged
  <1>11. Gone(b)'
    <2>1. InNews(b) /\ InNews(b)'
      BY <1>1, <1>3, <1>5, <1>9 DEF InNews, ChangeKind
    <2>. QED
      BY <1>1, <1>3, <1>5, <1>7, <2>1 DEF Gone
  <1>12. Handles(b)
    <2>1. \A d \in Client \ {b} : Undisturbed(d)
      BY <1>1, <1>5, <1>6 DEF Undisturbed
    <2>2. \A u \in User : <<u, UserOf[b]>> \in granted => OnItsWay(b, u)'
      BY <1>3, <1>5, <1>9 DEF OnItsWay
    <2>3. \A u \in User : Probing(b, u) => Probing(b, u)'
      BY <1>1, <1>3, <1>5, <1>9 DEF Probing
    <2>4. \A u, d : ~Parts(b, u, d)
      BY <1>1, <1>7 DEF Parts, JobStaged
    <2>5. \A u, v : Over(u, v)' <=> Over(u, v)
      BY <1>1 DEF Over
    <2>. QED
      BY <1>1, <2>1, <2>2, <2>3, <2>4, <2>5 DEF Handles
  <1>13. Exclusive'
    BY <1>1 DEF Consistent, Exclusive
  <1>. QED
    BY <1>10, <1>11, <1>12, <1>13, HandlerStep

LEMMA AnswerKeeps ==
  ASSUME FollowingTyped, Consistent, NEW b \in Client, NEW u \in User,
         Subscribed(b, u) \/ Unsubscribed(b, u) \/ RemoveContact(b, u),
         UNCHANGED <<misled, crossed>>
  PROVE  Consistent'
  <1>. DEFINE pair == <<u, UserOf[b]>>
  <1>1. /\ ~closing[b] /\ job[b].at = "idle" /\ b \in bound
        /\ bound' = bound /\ closing' = closing /\ active' = active /\ last' = last
        /\ wire' = wire /\ knows' = knows /\ following' = following /\ link' = link
        /\ misled' = misled /\ crossed' = crossed
        /\ changing' = [changing EXCEPT ![b] = {u}]
    BY DEF Subscribed, Unsubscribed, RemoveContact, MayChange, tables, rosters
  <1>2. PICK show \in {"available", "unavailable", "none"} :
          /\ job' = [job EXCEPT ![b] = [Idle EXCEPT !.at = "list", !.show = show]]
          /\ \/ show = "available" /\ asked' = asked \ {pair} /\ granted' = granted \cup {pair}
                /\ pair \in asked
             \/ show = "unavailable" /\ asked' = asked \ {pair} /\ granted' = granted \ {pair}
             \/ show = "none" /\ asked' = asked /\ granted' = granted
    BY DEF Subscribed, Unsubscribed, RemoveContact, rosters
  <1>. DEFINE j == [Idle EXCEPT !.at = "list", !.show = show]
  <1>3. j.at = "list" /\ j.show = show
    BY IdleFields
  <1>4. job' = [job EXCEPT ![b] = j]
    BY <1>2
  <1>. HIDE DEF j
  <1>5. /\ job'[b] = j /\ changing'[b] = {u}
        /\ \A d \in Client \ {b} : job'[d] = job[d] /\ changing'[d] = changing[d]
    BY <1>1, <1>4 DEF FollowingTyped
  <1>6. JobStaged(b) /\ Gone(b)
    BY DEF Consistent, JobsStaged, GoneWhenInactive
  <1>7. JobStaged(b)'
    <2>1. Answering(b, u)'
      BY <1>1, <1>2, <1>3, <1>5 DEF Answering, Over
    <2>. QED
      BY <1>1, <1>3, <1>5, <2>1 DEF JobStaged
  <1>8. Gone(b)'
    <2>1. ~InNews(b) /\ ~InNews(b)' /\ Due(b)' = Due(b)
      BY <1>1, <1>3, <1>5 DEF InNews, Due, Recorded
    <2>. QED
      BY <1>1, <1>6, <2>1 DEF Gone
  <1>9. Handles(b)
    <2>1. \A d \in Client \ {b} : Undisturbed(d)
      BY <1>1, <1>5 DEF Undisturbed
    <2>2. \A v : ~Probing(b, v)
      BY <1>1 DEF Probing
    <2>3. \A v, d : ~Parts(b, v, d)
      BY <1>1, <1>6 DEF Parts, JobStaged
    <2>4. ASSUME NEW v \in User, NEW d \in bound, Over(v, UserOf[d])', ~Over(v, UserOf[d])
          PROVE  Parts(b, v, d)'
      <3>1. show = "unavailable" /\ <<v, UserOf[d]>> = pair
        BY <1>2, <2>4 DEF Over
      <3>2. v = u /\ UserOf[d] = UserOf[b]
        BY <3>1
      <3>. QED
        BY <1>1, <1>3, <1>5, <3>1, <3>2 DEF Parts
    <2>5. asked' \subseteq asked /\ granted' \subseteq granted \cup asked
      BY <1>2
    <2>. QED
      BY <1>1, <2>1, <2>2, <2>3, <2>4, <2>5 DEF Handles
  <1>10. Exclusive'
    BY <1>1, <1>2 DEF Consistent, Exclusive
  <1>. QED
    BY <1>7, <1>8, <1>9, <1>10, HandlerStep

LEMMA UnsubscribeKeeps ==
  ASSUME FollowingTyped, Consistent, NEW b \in Client, NEW u \in User, Unsubscribe(b, u),
         UNCHANGED <<misled, crossed>>
  PROVE  Consistent'
  <1>. DEFINE item == Change("unsubscribe", UserOf[b], u)
              items == <<item>>
              j == [Idle EXCEPT !.at = "route", !.items = items, !.handlers = 1]
  <1>1. /\ ~closing[b] /\ job[b].at = "idle" /\ b \in bound
        /\ bound' = bound /\ closing' = closing /\ active' = active /\ last' = last
        /\ wire' = wire /\ knows' = knows /\ link' = link /\ changing' = changing
        /\ misled' = misled /\ crossed' = crossed
        /\ granted' = granted /\ asked' = asked /\ following' \subseteq following
    BY DEF Unsubscribe, MayChange, tables
  <1>2. job' = [job EXCEPT ![b] = j]
    BY DEF Unsubscribe
  <1>3. j.at = "route" /\ j.items = items
    BY IdleFields
  <1>4. /\ ToSet(items) = {item} /\ item.kind = "unsubscribe" /\ item.from = UserOf[b]
        /\ Len(items) = 1 /\ items[1] = item
    BY DEF ToSet, Change
  <1>. HIDE DEF j, items, item
  <1>5. job'[b] = j /\ \A d \in Client \ {b} : job'[d] = job[d]
    BY <1>2 DEF FollowingTyped
  <1>6. JobStaged(b) /\ Gone(b)
    BY DEF Consistent, JobsStaged, GoneWhenInactive
  <1>7. JobStaged(b)'
    <2>1. RoutesChange(b)'
      <3>1. ChangeItem(item, UserOf[b])'
        BY <1>4 DEF ChangeItem, ChangeKind
      <3>2. \A m \in ToSet(items) : m = item
        BY <1>4
      <3>3. \A i \in 1..Len(items) : items[i].kind # "subscribed"
        BY <1>4
      <3>. QED
        BY <1>1, <1>3, <1>4, <1>5, <3>1, <3>2, <3>3 DEF RoutesChange, ChangeKind
    <2>. QED
      BY <1>1, <1>3, <1>5, <1>6, <2>1 DEF JobStaged
  <1>8. Gone(b)'
    <2>1. ~InNews(b) /\ ~InNews(b)' /\ Due(b)' = Due(b)
      BY <1>1, <1>3, <1>4, <1>5 DEF InNews, Due, Recorded, ChangeKind
    <2>. QED
      BY <1>1, <1>6, <2>1 DEF Gone
  <1>9. Handles(b)
    <2>1. \A d \in Client \ {b} : Undisturbed(d)
      BY <1>1, <1>5 DEF Undisturbed
    <2>2. \A v : ~Probing(b, v)
      BY <1>1 DEF Probing
    <2>3. \A v, d : ~Parts(b, v, d)
      BY <1>1, <1>6 DEF Parts, JobStaged
    <2>4. \A v, w : Over(v, w)' <=> Over(v, w)
      BY <1>1 DEF Over
    <2>. QED
      BY <1>1, <2>1, <2>2, <2>3, <2>4 DEF Handles
  <1>10. Exclusive'
    BY <1>1 DEF Consistent, Exclusive
  <1>. QED
    BY <1>7, <1>8, <1>9, <1>10, HandlerStep

LEMMA ListKeeps ==
  ASSUME FollowingTyped, Consistent, NEW b \in Client, List(b), UNCHANGED <<misled, crossed>>
  PROVE  Consistent'
  <1>. DEFINE j == [job[b] EXCEPT !.at = "listing", !.seen = Cardinality(Resources(UserOf[b]))]
  <1>1. /\ job[b].at = "list"
        /\ bound' = bound /\ closing' = closing /\ active' = active /\ last' = last
        /\ wire' = wire /\ knows' = knows /\ link' = link /\ changing' = changing
        /\ misled' = misled /\ crossed' = crossed
        /\ granted' = granted /\ asked' = asked /\ following' = following
    BY DEF List, tables, rosters
  <1>2. job' = [job EXCEPT ![b] = j]
    BY DEF List
  <1>3. j.at = "listing" /\ j.show = job[b].show
    BY JobFields DEF FollowingTyped
  <1>. HIDE DEF j
  <1>4. job'[b] = j /\ \A d \in Client \ {b} : job'[d] = job[d]
    BY <1>2 DEF FollowingTyped
  <1>5. JobStaged(b) /\ Gone(b)
    BY DEF Consistent, JobsStaged, GoneWhenInactive
  <1>6. \A v, w : Over(v, w)' <=> Over(v, w)
    BY <1>1 DEF Over
  <1>7. JobStaged(b)'
    <2>1. PICK u \in User : Answering(b, u)
      BY <1>1, <1>5 DEF JobStaged
    <2>2. Answering(b, u)'
      BY <1>1, <1>3, <1>4, <1>6, <2>1 DEF Answering
    <2>. QED
      BY <1>1, <1>3, <1>4, <1>5, <2>2 DEF JobStaged
  <1>8. Gone(b)'
    <2>1. ~InNews(b) /\ ~InNews(b)' /\ Due(b)' = Due(b)
      BY <1>1, <1>3, <1>4 DEF InNews, Due, Recorded
    <2>. QED
      BY <1>1, <1>5, <2>1 DEF Gone
  <1>9. Handles(b)
    <2>1. \A d \in Client \ {b} : Undisturbed(d)
      BY <1>1, <1>4 DEF Undisturbed
    <2>2. \A v : ~Probing(b, v)
      BY <1>1 DEF Probing
    <2>3. \A v, d : Parts(b, v, d) => Parts(b, v, d)'
      BY <1>1, <1>3, <1>4 DEF Parts
    <2>4. active'[b] <=> active[b]
      BY <1>1
    <2>. QED
      BY <1>1, <1>6, <2>1, <2>2, <2>3, <2>4 DEF Handles
  <1>10. Exclusive'
    BY <1>1 DEF Consistent, Exclusive
  <1>. QED
    BY <1>7, <1>8, <1>9, <1>10, HandlerStep

LEMMA ListDoneKeeps ==
  ASSUME FollowingTyped, Consistent, NEW b \in Client, ListDone(b), UNCHANGED <<misled, crossed>>
  PROVE  Consistent'
  <1>1. /\ job[b].at = "listing" /\ job[b].show # "none"
        /\ bound' = bound /\ closing' = closing /\ active' = active /\ last' = last
        /\ wire' = wire /\ knows' = knows /\ link' = link
        /\ changing' = [changing EXCEPT ![b] = {}]
        /\ misled' = misled /\ crossed' = crossed
        /\ granted' = granted /\ asked' = asked /\ following' = following
    BY DEF ListDone, tables, rosters
  <1>2. JobStaged(b) /\ Gone(b)
    BY DEF Consistent, JobsStaged, GoneWhenInactive
  <1>3. PICK u \in changing[b] :
          job' = [job EXCEPT ![b].at = "route", ![b].items = Reverse(Listed(b, u)),
                             ![b].handlers = Len(Listed(b, u))]
    BY Zenon DEF ListDone
  <1>4. u \in User /\ Answering(b, u)
    <2>1. PICK v \in User : Answering(b, v)
      BY <1>1, <1>2 DEF JobStaged
    <2>. QED
      BY <2>1 DEF Answering
  <1>5. PICK items : items = Reverse(Listed(b, u))
    OBVIOUS
  <1>6. PICK handlers : handlers = Len(Listed(b, u))
    OBVIOUS
  <1>. DEFINE j == [job[b] EXCEPT !.at = "route", !.items = items, !.handlers = handlers]
  <1>7. job' = [job EXCEPT ![b] = j]
    BY <1>3, <1>5, <1>6 DEF FollowingTyped
  <1>8. j.at = "route" /\ j.items = items /\ j.show = job[b].show
    BY JobFields DEF FollowingTyped
  <1>. HIDE DEF j
  <1>9. /\ job'[b] = j /\ changing'[b] = {}
        /\ \A d \in Client \ {b} : job'[d] = job[d] /\ changing'[d] = changing[d]
    BY <1>1, <1>7 DEF FollowingTyped
  <1>10. /\ ~closing[b] /\ job[b].show \in {"available", "unavailable"} /\ changing[b] = {u}
         /\ job[b].show = "available" => <<u, UserOf[b]>> \notin asked
         /\ job[b].show = "unavailable" => Over(u, UserOf[b])
    BY <1>1, <1>4 DEF Answering
  <1>11. /\ \A m \in ToSet(items) :
              \/ m.kind = Verdict(b) /\ m.from = UserOf[b] /\ m.to = u
              \/ Advertises(m, UserOf[b]) /\ m.to = u /\ m.show = job[b].show
         /\ \E m \in ToSet(items) : m.kind \in ChangeKind
         /\ \A i \in 1..Len(items) : items[i].kind = "subscribed" => i = Len(items)
         /\ TellsOfAll(items, u, UserOf[b])
    BY <1>4, <1>5, <1>10, ListedFacts
  <1>12. \A v, w : Over(v, w)' <=> Over(v, w)
    BY <1>1 DEF Over
  <1>13. JobStaged(b)'
    <2>1. RoutesChange(b)'
      <3>1. <<u, UserOf[b]>> \notin asked
        BY <1>10 DEF Over
      <3>2. ASSUME NEW m \in ToSet(items)
            PROVE  ChangeItem(m, UserOf[b])'
        <4>1. CASE m.kind = Verdict(b) /\ m.from = UserOf[b] /\ m.to = u
          BY <1>1, <3>1, <4>1 DEF Verdict, ChangeItem, ChangeKind
        <4>2. CASE Advertises(m, UserOf[b]) /\ m.to = u /\ m.show = job[b].show
          BY <1>1, <1>10, <1>12, <3>1, <4>2 DEF ChangeItem
        <4>. QED
          BY <1>11, <4>1, <4>2
      <3>3. \A m \in ToSet(items) : m.kind = "subscribed" => m.to = u
        BY <1>11 DEF Advertises
      <3>4. TellsOfAll(items, u, UserOf[b])'
        BY <1>1, <1>11 DEF TellsOfAll
      <3>5. \A m \in ToSet(items) : m.kind = "subscribed" => TellsOfAll(items, m.to, UserOf[b])'
        BY <3>3, <3>4 DEF TellsOfAll
      <3>. QED
        BY <1>1, <1>8, <1>9, <1>10, <1>11, <3>2, <3>5 DEF RoutesChange, TellsOfAll
    <2>. QED
      BY <1>1, <1>2, <1>8, <1>9, <2>1 DEF JobStaged
  <1>14. Gone(b)'
    <2>1. ~InNews(b) /\ ~InNews(b)' /\ Due(b)' = Due(b)
      BY <1>1, <1>8, <1>9, <1>11 DEF InNews, Due, Recorded
    <2>. QED
      BY <1>1, <1>2, <2>1 DEF Gone
  <1>15. Handles(b)
    <2>1. \A d \in Client \ {b} : Undisturbed(d)
      BY <1>1, <1>9 DEF Undisturbed
    <2>2. \A v : ~Probing(b, v)
      BY <1>1 DEF Probing
    <2>3. ASSUME NEW v, NEW d \in Client, Parts(b, v, d)
          PROVE  Parts(b, v, d)'
      <3>1. d \in bound /\ UserOf[d] = UserOf[b] /\ v = u
        BY <1>1, <1>10, <2>3 DEF Parts
      <3>2. \E m \in ToSet(items) : TellsUser(m, d, u)
        BY <1>11, <3>1 DEF TellsOfAll
      <3>. QED
        BY <1>8, <1>9, <3>1, <3>2 DEF Parts
    <2>4. active'[b] <=> active[b]
      BY <1>1
    <2>5. bound \subseteq Client
      BY DEF FollowingTyped
    <2>. QED
      BY <1>1, <1>12, <2>1, <2>2, <2>3, <2>4, <2>5 DEF Handles
  <1>16. Exclusive'
    BY <1>1 DEF Consistent, Exclusive
  <1>. QED
    BY <1>13, <1>14, <1>15, <1>16, HandlerStep

LEMMA RemoveListedKeeps ==
  ASSUME FollowingTyped, Consistent, NEW b \in Client, RemoveListed(b),
         UNCHANGED <<misled, crossed>>
  PROVE  Consistent'
  <1>1. /\ job[b].at = "listing" /\ job[b].show = "none"
        /\ bound' = bound /\ closing' = closing /\ active' = active /\ last' = last
        /\ wire' = wire /\ knows' = knows /\ link' = link /\ changing' = changing
        /\ misled' = misled /\ crossed' = crossed
        /\ granted' = granted /\ asked' = asked /\ following' = following
    BY DEF RemoveListed, tables, rosters, followingVars
  <1>2. JobStaged(b) /\ Gone(b)
    BY DEF Consistent, JobsStaged, GoneWhenInactive
  <1>3. PICK u \in changing[b] :
          job' = [job EXCEPT ![b].at = "remove", ![b].items = Reverse(Parted(b, u)),
                             ![b].handlers = Len(Parted(b, u))]
    BY Zenon DEF RemoveListed
  <1>4. u \in User /\ Answering(b, u)
    <2>1. PICK v \in User : Answering(b, v)
      BY <1>1, <1>2 DEF JobStaged
    <2>. QED
      BY <2>1 DEF Answering
  <1>5. PICK items : items = Reverse(Parted(b, u))
    OBVIOUS
  <1>6. PICK handlers : handlers = Len(Parted(b, u))
    OBVIOUS
  <1>. DEFINE j == [job[b] EXCEPT !.at = "remove", !.items = items, !.handlers = handlers]
  <1>7. job' = [job EXCEPT ![b] = j]
    BY <1>3, <1>5, <1>6 DEF FollowingTyped
  <1>8. j.at = "remove" /\ j.items = items /\ j.show = "none"
    BY <1>1, JobFields DEF FollowingTyped
  <1>. HIDE DEF j
  <1>9. job'[b] = j /\ \A d \in Client \ {b} : job'[d] = job[d]
    BY <1>7 DEF FollowingTyped
  <1>10. /\ \A m \in ToSet(items) :
              \/ m.kind \in {"unsubscribe", "unsubscribed"} /\ m.from = UserOf[b]
              \/ Advertises(m, UserOf[b]) /\ m.to = u /\ m.show = "unavailable"
         /\ \E m \in ToSet(items) : m.kind \in ChangeKind
         /\ TellsOfAll(items, u, UserOf[b])
    BY <1>4, <1>5, PartedFacts
  <1>11. \A v, w : Over(v, w)' <=> Over(v, w)
    BY <1>1 DEF Over
  <1>12. JobStaged(b)'
    <2>1. Answering(b, u)'
      <3>1. TellsOfAll(items, u, UserOf[b])'
        BY <1>1, <1>10 DEF TellsOfAll
      <3>. QED
        BY <1>1, <1>4, <1>8, <1>9, <1>10, <3>1 DEF Answering, TellsOfAll
    <2>. QED
      BY <1>1, <1>2, <1>4, <1>8, <1>9, <2>1 DEF JobStaged
  <1>13. Gone(b)'
    <2>1. ~InNews(b) /\ ~InNews(b)' /\ Due(b)' = Due(b)
      BY <1>1, <1>8, <1>9 DEF InNews, Due, Recorded
    <2>. QED
      BY <1>1, <1>2, <2>1 DEF Gone
  <1>14. Handles(b)
    <2>1. \A d \in Client \ {b} : Undisturbed(d)
      BY <1>1, <1>9 DEF Undisturbed
    <2>2. \A v : ~Probing(b, v)
      BY <1>1 DEF Probing
    <2>3. \A v, d : ~Parts(b, v, d)
      BY <1>1 DEF Parts
    <2>4. active'[b] <=> active[b]
      BY <1>1
    <2>. QED
      BY <1>1, <1>11, <2>1, <2>2, <2>3, <2>4 DEF Handles
  <1>15. Exclusive'
    BY <1>1 DEF Consistent, Exclusive
  <1>. QED
    BY <1>12, <1>13, <1>14, <1>15, HandlerStep

LEMMA RemoveRowKeeps ==
  ASSUME FollowingTyped, Consistent, NEW b \in Client, RemoveRow(b), UNCHANGED <<misled, crossed>>
  PROVE  Consistent'
  <1>1. /\ job[b].at = "remove"
        /\ bound' = bound /\ closing' = closing /\ active' = active /\ last' = last
        /\ wire' = wire /\ knows' = knows /\ link' = link
        /\ changing' = [changing EXCEPT ![b] = {}]
        /\ misled' = misled /\ crossed' = crossed
    BY DEF RemoveRow, tables
  <1>2. JobStaged(b) /\ Gone(b)
    BY DEF Consistent, JobsStaged, GoneWhenInactive
  <1>3. PICK u \in changing[b] :
          /\ granted' = granted \ {<<u, UserOf[b]>>} /\ asked' = asked \ {<<u, UserOf[b]>>}
          /\ following' = following \ {<<UserOf[b], u>>}
    BY DEF RemoveRow
  <1>4. u \in User /\ Answering(b, u) /\ changing[b] = {u}
    <2>1. PICK v \in User : Answering(b, v)
      BY <1>1, <1>2 DEF JobStaged
    <2>. QED
      BY <2>1 DEF Answering
  <1>. DEFINE j == [job[b] EXCEPT !.at = "route"]
  <1>5. job' = [job EXCEPT ![b] = j]
    BY DEF RemoveRow
  <1>6. j.at = "route" /\ j.items = job[b].items
    BY JobFields DEF FollowingTyped
  <1>. HIDE DEF j
  <1>7. /\ job'[b] = j /\ changing'[b] = {}
        /\ \A d \in Client \ {b} : job'[d] = job[d] /\ changing'[d] = changing[d]
    BY <1>1, <1>5 DEF FollowingTyped
  <1>8. /\ ~closing[b] /\ job[b].show = "none"
        /\ \A m \in ToSet(job[b].items) :
             \/ m.kind \in {"unsubscribe", "unsubscribed"} /\ m.from = UserOf[b]
             \/ Advertises(m, UserOf[b]) /\ m.show = "unavailable" /\ m.to = u
        /\ \E m \in ToSet(job[b].items) : m.kind \in ChangeKind
        /\ <<u, UserOf[b]>> \notin crossed => TellsOfAll(job[b].items, u, UserOf[b])
    BY <1>1, <1>4 DEF Answering
  <1>9. /\ Over(u, UserOf[b])' /\ asked' \subseteq asked /\ granted' \subseteq granted
        /\ \A v, w : Over(v, w)' /\ ~Over(v, w) => v = u /\ w = UserOf[b]
    BY <1>3 DEF Over
  <1>10. JobStaged(b)'
    <2>1. RoutesChange(b)'
      <3>1. ASSUME NEW m \in ToSet(job[b].items)
            PROVE  ChangeItem(m, UserOf[b])' /\ m.kind # "subscribed"
        <4>1. CASE m.kind \in {"unsubscribe", "unsubscribed"} /\ m.from = UserOf[b]
          BY <4>1 DEF ChangeItem, ChangeKind
        <4>2. CASE Advertises(m, UserOf[b]) /\ m.show = "unavailable" /\ m.to = u
          BY <1>9, <4>2 DEF ChangeItem, Advertises, Over
        <4>. QED
          BY <1>8, <4>1, <4>2
      <3>2. job[b].items \in Seq(Stanza)
        BY DEF FollowingTyped, FollowingJob
      <3>3. \A i \in 1..Len(job[b].items) : job[b].items[i] \in ToSet(job[b].items)
        BY <3>2, ItemInToSet
      <3>. QED
        BY <1>1, <1>6, <1>7, <1>8, <3>1, <3>3 DEF RoutesChange
    <2>. QED
      BY <1>1, <1>2, <1>6, <1>7, <2>1 DEF JobStaged
  <1>11. Gone(b)'
    <2>1. ~InNews(b) /\ ~InNews(b)' /\ Due(b)' = Due(b)
      BY <1>1, <1>6, <1>7, <1>8 DEF InNews, Due, Recorded
    <2>. QED
      BY <1>1, <1>2, <2>1 DEF Gone
  <1>12. Handles(b)
    <2>1. \A d \in Client \ {b} : Undisturbed(d)
      BY <1>1, <1>7 DEF Undisturbed
    <2>2. \A v : ~Probing(b, v)
      BY <1>1 DEF Probing
    <2>3. \A v, d : ~Parts(b, v, d)
      BY <1>1, <1>8 DEF Parts
    <2>4. ASSUME NEW v \in User, NEW d \in bound, Over(v, UserOf[d])', ~Over(v, UserOf[d]),
                 <<v, UserOf[d]>> \notin crossed
          PROVE  Parts(b, v, d)'
      <3>1. v = u /\ UserOf[d] = UserOf[b]
        BY <1>9, <2>4
      <3>2. \E m \in ToSet(job[b].items) : TellsUser(m, d, u)
        BY <1>8, <2>4, <3>1 DEF TellsOfAll
      <3>. QED
        BY <1>6, <1>7, <3>1, <3>2 DEF Parts
    <2>5. (active'[b] <=> active[b]) /\ following' \subseteq following
      BY <1>1, <1>3
    <2>. QED
      BY <1>1, <1>9, <2>1, <2>2, <2>3, <2>4, <2>5 DEF Handles
  <1>13. Exclusive'
    BY <1>3 DEF Consistent, Exclusive
  <1>. QED
    BY <1>10, <1>11, <1>12, <1>13, HandlerStep

(* A new resource is not told of anything, nor is anybody of it.            *)
LEMMA BindsKeeps ==
  ASSUME FollowingTyped, Consistent, NEW b \in Client, Binds(b)
  PROVE  Consistent'
  <1>1. /\ b \notin bound /\ bound' = bound \cup {b} /\ job' = job /\ wire' = wire
        /\ granted' = granted /\ following' = following /\ asked' = asked
        /\ changing' = changing /\ link' = link /\ misled' = misled
        /\ last'[b] = "none" /\ \A d \in Client \ {b} : last'[d] = last[d]
        /\ closing'[b] = FALSE /\ \A d \in Client \ {b} : closing'[d] = closing[d]
        /\ active'[b] = FALSE /\ \A d \in Client \ {b} : active'[d] = active[d]
        /\ \A d \in Client : knows'[b][d] = "none"
        /\ \A c \in Client \ {b} : knows'[c] = knows[c]
        /\ crossed' = crossed \cup Removing(UserOf[b]) \cup Approving(UserOf[b])
    BY DEF Binds, Bind, FollowingTyped, rosters, followingVars
  <1>2. Ages /\ Heeds
    BY <1>1 DEF Ages, Heeds
  <1>3. JobStaged(b)
    BY DEF Consistent, JobsStaged
  <1>4. job[b].at = "idle" /\ changing[b] = {}
    BY <1>1, <1>3 DEF JobStaged
  <1>5. JobStaged(b)' /\ Gone(b)'
    <2>1. ~InNews(b)' /\ Due(b)' = "unavailable"
      BY <1>1, <1>4 DEF InNews, Due, Recorded
    <2>. QED
      BY <1>1, <1>4, <2>1 DEF JobStaged, Gone
  <1>6. \A d \in Client \ {b} : Undisturbed(d)
    BY <1>1 DEF Undisturbed
  <1>7. JobsStaged' /\ GoneWhenInactive'
    <2>1. {b} \in SUBSET Client /\ \A d \in {b} : JobStaged(d)' /\ Gone(d)'
      BY <1>5
    <2>. QED
      BY <1>2, <1>6, <2>1, StagedStep, Zenon
  <1>8. LinkStaged' /\ WireAllowed' /\ Exclusive'
    <2>1. LinkStaged'
      BY <1>1, <1>2, LinkStays
    <2>2. WireAllowed'
      BY <1>1, <1>2, Aging DEF Consistent, WireAllowed
    <2>. QED
      BY <1>1, <2>1, <2>2 DEF Consistent, Exclusive
  <1>9. \A d \in Client : /\ Recorded(d)' => Recorded(d)
                          /\ Due(d)' = Due(d)
    BY <1>1 DEF Recorded, Due
  <1>10. \A d \in Client : \A u : /\ OnItsWay(d, u)' <=> OnItsWay(d, u)
                                  /\ Probing(d, u)' <=> Probing(d, u)
                                  /\ ToPart(u, d) => ToPart(u, d)'
    BY <1>1 DEF OnItsWay, Probing, ToPart, Parts, LinkParts
  <1>11. \A u, v : Over(u, v)' <=> Over(u, v)
    BY <1>1 DEF Over
  <1>12. Keeps
    BY <1>1, <1>9 DEF Keeps
  <1>13. Leaves(<<>>)
    BY <1>10 DEF Leaves
  <1>14. Begins(wire)
    <2>1. \A c \in Client : ~(active'[c] /\ ~active[c])
      BY <1>1
    <2>. QED
      BY <1>1, <1>11, <2>1 DEF Begins
  <1>15. Knowledge'
    BY <1>1, <1>2, <1>12, <1>13, <1>14, NothingSent, ThinsSelf, AllPresent
  <1>. QED
    BY <1>7, <1>8, <1>15 DEF Consistent

(* The end of a stream.                                                     *)
LEMMA EndsKeeps ==
  ASSUME FollowingTyped, Consistent, NEW b \in Client, Ends(b)
  PROVE  Consistent'
  <1>. DEFINE j == [Idle EXCEPT !.at = "act", !.show = "unavailable"]
  <1>1. /\ b \in bound /\ ~closing[b] /\ job[b].at = "idle"
        /\ closing' = [closing EXCEPT ![b] = TRUE] /\ active' = active /\ last' = last
        /\ wire' = wire /\ knows' = knows /\ granted' = granted /\ following' = following
        /\ asked' = asked /\ changing' = changing /\ link' = link
        /\ misled' = misled
        /\ crossed' = crossed \cup (IF b \in bound' THEN {} ELSE Parting(UserOf[b]))
    BY DEF Ends, StreamEnd, rosters, followingVars
  <1>2. \/ active[b] /\ bound' = bound /\ job' = [job EXCEPT ![b] = j]
        \/ ~active[b] /\ bound' = bound \ {b} /\ job' = job
    BY DEF Ends, StreamEnd, CleanUp
  <1>3. j.at = "act" /\ j.show = "unavailable"
    BY IdleFields
  <1>. HIDE DEF j
  <1>4. /\ \/ active[b] /\ b \in bound' /\ job'[b] = j
           \/ ~active[b] /\ b \notin bound' /\ job'[b] = job[b]
        /\ closing'[b] = TRUE
        /\ \A d \in Client \ {b} :
             job'[d] = job[d] /\ closing'[d] = closing[d] /\ (d \in bound' <=> d \in bound)
    BY <1>1, <1>2 DEF FollowingTyped
  <1>5. Ages /\ Heeds
    BY <1>1, <1>2 DEF Ages, Heeds
  <1>6. JobStaged(b) /\ Gone(b) /\ changing[b] = {}
    BY <1>1 DEF Consistent, JobsStaged, GoneWhenInactive, JobStaged
  <1>7. JobStaged(b)'
    BY <1>1, <1>3, <1>4, <1>6 DEF JobStaged, Show
  <1>8. ~active[b] => Due(b) = "unavailable"
    BY <1>1, <1>6 DEF Gone, InNews
  <1>9. Due(b)' = Due(b) /\ (Recorded(b)' => Recorded(b))
    BY <1>1, <1>4, <1>8 DEF Due, Recorded
  <1>10. Gone(b)'
    <2>1. ~InNews(b)'
      BY <1>1, <1>3, <1>4 DEF InNews
    <2>2. b \notin bound' => last[b] \in {"none", "unavailable"}
      BY <1>1, <1>4, <1>8 DEF Due, Recorded
    <2>. QED
      BY <1>1, <1>4, <1>8, <1>9, <2>1, <2>2 DEF Gone
  <1>11. \A d \in Client \ {b} : Undisturbed(d)
    BY <1>1, <1>4 DEF Undisturbed
  <1>12. JobsStaged' /\ GoneWhenInactive'
    <2>1. {b} \in SUBSET Client /\ \A d \in {b} : JobStaged(d)' /\ Gone(d)'
      BY <1>7, <1>10
    <2>. QED
      BY <1>5, <1>11, <2>1, StagedStep, Zenon
  <1>13. LinkStaged' /\ WireAllowed' /\ Exclusive'
    <2>1. LinkStaged'
      BY <1>1, <1>5, LinkStays
    <2>2. WireAllowed'
      BY <1>1, <1>5, Aging DEF Consistent, WireAllowed
    <2>. QED
      BY <1>1, <2>1, <2>2 DEF Consistent, Exclusive
  <1>14. Keeps
    <2>1. \A d \in Client : (Recorded(d)' => Recorded(d)) /\ Due(d)' = Due(d)
      BY <1>9, <1>11, UndisturbedTells
    <2>2. bound' \subseteq bound
      BY <1>2
    <2>. QED
      BY <1>1, <2>1, <2>2 DEF Keeps
  <1>15. \A u : ~OnItsWay(b, u) /\ ~Probing(b, u) /\ \A d : ~Parts(b, u, d)
    BY <1>1, <1>6 DEF OnItsWay, Probing, Parts
  <1>16. ASSUME NEW u \in User, NEW d \in Client, ToPart(u, d), <<u, UserOf[d]>> \notin crossed'
         PROVE  ToPart(u, d)'
    <2>1. CASE d \in bound => d \in bound'
      <3>1. /\ {b} \in SUBSET Client /\ \A c \in Client \ {b} : Undisturbed(c)
            /\ LinkParts(u, d) => LinkParts(u, d)'
        BY <1>1, <1>11, <2>1 DEF LinkParts
      <3>2. ToPart(u, d)' \/ \E c \in {b} : Parts(c, u, d) /\ ~Parts(c, u, d)'
        BY <1>16, <2>1, <3>1, PartsStay, Zenon
      <3>. QED
        BY <1>15, <3>2
    <2>2. CASE d \in bound /\ d \notin bound'
      <3>1. d = b /\ b \notin bound' /\ job' = job
        BY <1>2, <1>4, <2>2
      <3>2. <<u, UserOf[b]>> \notin Parting(UserOf[b])
        BY <1>1, <1>16, <3>1
      <3>3. /\ \A c \in Client : UserOf[c] = UserOf[b] /\ u \in changing[c]
                                 => job[c].show # "unavailable"
            /\ ~(link.at \in {"list", "listing"} /\ link.pair = <<u, UserOf[b]>>)
        BY <3>2, PartingHas
      <3>. QED
        BY <1>1, <1>16, <3>1, <3>3 DEF ToPart, Parts, LinkParts
    <2>. QED
      BY <2>1, <2>2
  <1>17. Leaves(<<>>)
    <2>1. \A d \in Client : \A u : /\ OnItsWay(d, u) => OnItsWay(d, u)'
                                   /\ Probing(d, u) => Probing(d, u)'
      BY <1>11, <1>15, UndisturbedTells
    <2>. QED
      BY <1>16, <2>1 DEF Leaves
  <1>18. Begins(wire)
    <2>1. \A u, v : Over(u, v)' <=> Over(u, v)
      BY <1>1 DEF Over
    <2>. QED
      BY <1>1, <2>1 DEF Begins
  <1>19. Knowledge'
    BY <1>1, <1>5, <1>14, <1>17, <1>18, NothingSent, ThinsSelf, AllPresent
  <1>. QED
    BY <1>12, <1>13, <1>19 DEF Consistent

(* What comes of the items of the handlers on the connection b.             *)
Routing(b) ==
  /\ wire' = wire \o Reverse(job[b].items)
  /\ job' = [job EXCEPT ![b] = Idle]
  /\ bound' = (IF closing[b] THEN bound \ {b} ELSE bound)
  /\ closing' = closing /\ active' = active /\ last' = last
  /\ knows' = knows /\ granted' = granted /\ following' = following
  /\ asked' = asked /\ changing' = changing /\ link' = link
  /\ misled' = misled \cup Misleading(job[b].items)
  /\ crossed' = crossed \cup Ungranted(job[b].items)
                        \cup (IF b \in bound' THEN {} ELSE Parting(UserOf[b]))

LEMMA ShownFacts ==
  ASSUME NEW items \in Seq(Stanza), NEW m \in ToSet(items), m.show \in {"available", "away"}
  PROVE  /\ last[m.from] = m.show \/ m.from \in Misleading(items)
         /\ UserAt(m.to) # UserOf[m.from] /\ <<UserAt(m.to), UserOf[m.from]>> \notin granted
              => <<UserAt(m.to), UserOf[m.from]>> \in Ungranted(items)
  <1>1. m \in Shown(items)
    BY InToSet DEF Shown
  <1>. HIDE DEF Shown
  <1>2. last[m.from] = m.show \/ m.from \in Misleading(items)
    BY <1>1 DEF Misleading
  <1>3. <<UserAt(m.to), UserOf[m.from]>> \in {<<UserAt(n.to), UserOf[n.from]>> : n \in Shown(items)}
    BY <1>1
  <1>. QED
    BY <1>2, <1>3 DEF Ungranted

LEMMA RoutedFacts ==
  ASSUME FollowingTyped, Consistent, NEW b \in Client, job[b].at = "route", Routing(b)
  PROVE  /\ \A m \in ToSet(job[b].items) : Allowed(m)
         /\ Brings(Reverse(job[b].items))
         /\ Gone(b)' /\ Due(b)' = Due(b) /\ (Recorded(b)' => Recorded(b))
  <1>. DEFINE items == job[b].items
              x == Reverse(items)
  <1>1. items \in Seq(Stanza)
    BY DEF FollowingTyped, FollowingJob
  <1>2. /\ x \in Seq(Stanza) /\ Len(x) = Len(items) /\ ToSet(x) = ToSet(items)
        /\ \A k \in 1..Len(items) : x[k] = items[Len(items) - k + 1]
        /\ Len(items) \in Nat
    BY <1>1, ReverseFacts
  <1>. HIDE DEF x
  <1>3. /\ b \in bound /\ (RoutesPresence(b) \/ RoutesChange(b)) /\ Gone(b)
        /\ \A d \in Client : Gone(d)
    BY DEF Consistent, JobsStaged, JobStaged, GoneWhenInactive
  <1>4. ASSUME NEW m \in ToSet(items)
        PROVE  Allowed(m)
    <2>1. CASE RoutesPresence(b)
      BY <2>1 DEF RoutesPresence
    <2>2. CASE RoutesChange(b)
      <3>1. ChangeItem(m, UserOf[b])
        BY <2>2 DEF RoutesChange
      <3>2. CASE m.kind \in ChangeKind
        BY <3>1, <3>2 DEF ChangeItem, Advertises, ChangeKind, Allowed
      <3>3. CASE Advertises(m, UserOf[b]) /\ <<m.to, UserOf[b]>> \notin asked
        <4>1. UserAt(m.to) = m.to
          BY <3>3 DEF Advertises, UserAt
        <4>. QED
          BY <3>3, <4>1 DEF Advertises, Allowed, Show
      <3>. QED
        BY <3>1, <3>2, <3>3 DEF ChangeItem
    <2>. QED
      BY <1>3, <2>1, <2>2
  <1>5. closing[b] => RoutesPresence(b) /\ last[b] = "unavailable"
    BY <1>3 DEF RoutesPresence, RoutesChange
  <1>6. Due(b)' = Due(b) /\ (Recorded(b)' => Recorded(b))
    BY <1>3, <1>5 DEF Routing, Due, Recorded
  <1>7. Gone(b)'
    <2>1. ~InNews(b)'
      BY IdleTyped DEF Routing, FollowingTyped, InNews
    <2>2. b \notin bound' => last[b] \in {"none", "unavailable"}
      BY <1>3, <1>5 DEF Routing
    <2>3. ASSUME ~active[b]
          PROVE  Due(b) = "unavailable"
      <3>1. CASE RoutesPresence(b)
        <4>1. InNews(b)
          BY <3>1 DEF InNews, RoutesPresence, ChangeKind
        <4>2. job[b].show = "unavailable" /\ last[b] = job[b].show
          BY <1>3, <2>3, <3>1, <4>1 DEF Gone, RoutesPresence
        <4>. QED
          BY <4>2 DEF Due
      <3>2. CASE RoutesChange(b)
        <4>1. ~InNews(b)
          BY <3>2 DEF InNews, RoutesChange
        <4>. QED
          BY <1>3, <2>3, <4>1 DEF Gone
      <3>. QED
        BY <1>3, <3>1, <3>2
    <2>. QED
      BY <1>6, <2>1, <2>2, <2>3 DEF Routing, Gone
  <1>8. ASSUME NEW c \in Client, NEW d \in Client, NEW m \in ToSet(items), Tells(m, c, d)
        PROVE  /\ Pair(c, d) \in granted' /\ d \notin misled' => m.show = Due(d)'
               /\ UserOf[c] # UserOf[d] /\ Over(UserOf[c], UserOf[d])' /\ Pair(c, d) \notin crossed'
                    => m.show = "unavailable"
               /\ UserOf[c] # UserOf[d] => Pair(c, d) \notin asked'
    <2>1. m.kind = "presence" /\ m.from = d /\ UserAt(m.to) = UserOf[c] /\ m.to \in {c, UserOf[c]}
      BY <1>8, UserAtFacts DEF Tells
    <2>2. m.show \in Show
      BY <1>4, <2>1 DEF Allowed
    <2>3. ASSUME Pair(c, d) \in granted, d \notin misled'
          PROVE  m.show = Due(d)'
      <3>1. CASE RoutesPresence(b)
        <4>1. d = b /\ m.show = last[b] /\ last[b] # "none"
          BY <2>1, <3>1 DEF RoutesPresence, Show
        <4>2. m.show = Due(b)
          BY <1>3, <4>1 DEF Due, Recorded
        <4>. QED
          BY <1>6, <4>1, <4>2
      <3>2. CASE RoutesChange(b)
        <4>1. ChangeItem(m, UserOf[b]) /\ ~closing[b]
          BY <3>2 DEF RoutesChange
        <4>2. Advertises(m, UserOf[b]) /\ (m.show = "unavailable" => Over(m.to, UserOf[b]))
          BY <2>1, <4>1 DEF ChangeItem, ChangeKind
        <4>3. m.to = UserOf[c] /\ UserOf[d] = UserOf[b]
          BY <2>1, <4>2, PairFacts DEF Advertises
        <4>4. m.show = "available"
          BY <2>3, <4>2, <4>3 DEF Advertises, Over, Pair
        <4>5. last[d] = "available"
          <5>1. d \notin Misleading(items)
            BY <2>3 DEF Routing
          <5>. QED
            BY <1>1, <2>1, <4>4, <5>1, ShownFacts
        <4>6. d \in bound
          BY <1>3, <4>5 DEF Gone
        <4>. QED
          BY <4>1, <4>4, <4>5, <4>6 DEF Routing, Due, Recorded
      <3>. QED
        BY <1>3, <3>1, <3>2
    <2>4. ASSUME UserOf[c] # UserOf[d], Over(UserOf[c], UserOf[d])', Pair(c, d) \notin crossed'
          PROVE  m.show = "unavailable"
      <3>1. <<UserAt(m.to), UserOf[m.from]>> = Pair(c, d)
        BY <2>1 DEF Pair
      <3>2. Pair(c, d) \notin granted /\ Pair(c, d) \notin Ungranted(items)
        BY <2>4 DEF Routing, Over, Pair
      <3>3. ~(m.show \in {"available", "away"})
        BY <1>1, <2>1, <2>4, <3>1, <3>2, ShownFacts
      <3>. QED
        BY <2>2, <3>3 DEF Show
    <2>5. UserOf[c] # UserOf[d] => Pair(c, d) \notin asked
      BY <1>4, <1>8, PairFacts
    <2>. QED
      BY <2>3, <2>4, <2>5 DEF Routing
  <1>9. ASSUME NEW u \in User, NEW d \in Client, <<u, UserOf[d]>> \in granted',
               <<u, UserOf[d]>> \notin crossed', Recorded(d)'
        PROVE  Announced(x, u, UserOf[d], d)
    <2>1. ASSUME NEW i \in 1..Len(x), x[i].kind = "subscribed", x[i].from = UserOf[d],
                 x[i].to = u
          PROVE  \E j \in 1..Len(x) : i < j /\ TellsUser(x[j], d, u)
      <3>1. /\ Len(items) - i + 1 \in 1..Len(items) /\ x[i] = items[Len(items) - i + 1]
            /\ x[i] \in ToSet(items)
        BY <1>2, ItemInToSet
      <3>2. RoutesChange(b)
        BY <1>3, <2>1, <3>1 DEF RoutesPresence
      <3>3. Len(items) - i + 1 = Len(items)
        BY <2>1, <3>1, <3>2 DEF RoutesChange
      <3>4. UserOf[d] = UserOf[b]
        <4>1. ChangeItem(x[i], UserOf[b])
          BY <3>1, <3>2 DEF RoutesChange
        <4>. QED
          BY <2>1, <4>1 DEF ChangeItem, Advertises
      <3>5. <<u, UserOf[b]>> \in granted /\ <<u, UserOf[b]>> \notin crossed /\ d \in bound
        BY <1>9, <3>4 DEF Routing, Recorded
      <3>6. TellsOfAll(items, u, UserOf[b])
        BY <2>1, <3>1, <3>2, <3>5 DEF RoutesChange
      <3>7. PICK m \in ToSet(items) : TellsUser(m, d, u)
        BY <3>4, <3>5, <3>6 DEF TellsOfAll
      <3>8. PICK j \in 1..Len(x) : x[j] = m
        BY <1>2, <3>7, InToSet
      <3>9. j # i
        BY <2>1, <3>7, <3>8 DEF TellsUser
      <3>10. i < j
        BY <1>2, <3>3, <3>9
      <3>. QED
        BY <3>7, <3>8, <3>10
    <2>. QED
      BY <2>1 DEF Announced
  <1>10. Brings(x)
    BY <1>2, <1>8, <1>9 DEF Brings
  <1>. QED
    BY <1>4, <1>6, <1>7, <1>10 DEF x

(* The last handlers: what they have prepared goes out.                     *)
LEMMA RoutesKeeps ==
  ASSUME FollowingTyped, Consistent, NEW b \in Client, Routes(b), ~raised'
  PROVE  Consistent'
  <1>. DEFINE x == Reverse(job[b].items)
  <1>1. Routing(b) /\ job[b].at = "route"
    BY DEF Routes, RouteOut, CleanUp, Routing, rosters, followingVars
  <1>2. /\ \A m \in ToSet(job[b].items) : Allowed(m)
        /\ Brings(x)
        /\ Gone(b)' /\ Due(b)' = Due(b) /\ (Recorded(b)' => Recorded(b))
    BY <1>1, RoutedFacts
  <1>3. x \in Seq(Stanza) /\ ToSet(x) = ToSet(job[b].items) /\ wire' = wire \o x
    <2>1. job[b].items \in Seq(Stanza)
      BY DEF FollowingTyped, FollowingJob
    <2>. QED
      BY <1>1, <2>1, ReverseFacts DEF Routing
  <1>. HIDE DEF x
  <1>4. /\ job'[b].at = "idle" /\ \A d \in Client \ {b} : job'[d] = job[d]
        /\ bound' \subseteq bound /\ \A d \in Client \ {b} : d \in bound' <=> d \in bound
        /\ asked' = asked /\ granted' = granted /\ following' = following
        /\ changing' = changing /\ link' = link
        /\ crossed \subseteq crossed' /\ misled \subseteq misled'
        /\ knows' = knows /\ active' = active
        /\ b \notin bound' => Parting(UserOf[b]) \subseteq crossed'
    BY <1>1, IdleTyped DEF Routing, FollowingTyped
  <1>5. Ages /\ Heeds
    BY <1>4 DEF Ages, Heeds
  <1>6. \A d \in Client \ {b} : Undisturbed(d)
    BY <1>1, <1>4 DEF Routing, Undisturbed
  <1>7. JobStaged(b) /\ changing[b] = {} /\ b \in bound
    BY <1>1 DEF Consistent, JobsStaged, JobStaged
  <1>8. JobsStaged' /\ GoneWhenInactive'
    <2>1. JobStaged(b)'
      BY <1>4, <1>7 DEF JobStaged
    <2>2. {b} \in SUBSET Client /\ \A d \in {b} : JobStaged(d)' /\ Gone(d)'
      BY <1>2, <2>1
    <2>. QED
      BY <1>5, <1>6, <2>2, StagedStep, Zenon
  <1>9. LinkStaged' /\ WireAllowed' /\ Exclusive'
    <2>1. LinkStaged'
      BY <1>4, <1>5, LinkStays
    <2>2. \A m \in ToSet(x) : Allowed(m)'
      BY <1>2, <1>3, <1>5, Aging
    <2>3. wire \in Seq(Stanza)
      BY DEF FollowingTyped
    <2>4. WireAllowed'
      BY <1>3, <1>5, <2>2, <2>3, WireStep
    <2>. QED
      BY <1>4, <2>1, <2>4 DEF Consistent, Exclusive
  <1>10. Keeps
    <2>1. \A d \in Client : (Recorded(d)' => Recorded(d)) /\ Due(d)' = Due(d)
      BY <1>2, <1>6, UndisturbedTells
    <2>. QED
      BY <1>4, <2>1 DEF Keeps
  <1>11. \A u, d : Parts(b, u, d) \/ (d = b /\ OnItsWay(b, u)) =>
           \E m \in ToSet(x) : TellsUser(m, d, u)
    BY <1>3, <1>7 DEF Parts, OnItsWay
  <1>12. ASSUME NEW u \in User, NEW d \in Client, ToPart(u, d), <<u, UserOf[d]>> \notin crossed'
         PROVE  ToPart(u, d)' \/ \E m \in ToSet(x) : TellsUser(m, d, u)
    <2>1. CASE d \in bound => d \in bound'
      <3>1. /\ {b} \in SUBSET Client /\ \A c \in Client \ {b} : Undisturbed(c)
            /\ LinkParts(u, d) => LinkParts(u, d)'
        BY <1>4, <1>6, <2>1 DEF LinkParts
      <3>2. ToPart(u, d)' \/ \E c \in {b} : Parts(c, u, d) /\ ~Parts(c, u, d)'
        BY <1>12, <2>1, <3>1, PartsStay, Zenon
      <3>. QED
        BY <1>11, <3>2
    <2>2. CASE d \in bound /\ d \notin bound'
      <3>1. d = b /\ b \notin bound'
        BY <1>4, <2>2 DEF FollowingTyped
      <3>2. <<u, UserOf[b]>> \notin Parting(UserOf[b])
        BY <1>4, <1>12, <3>1
      <3>3. /\ \A c \in Client : UserOf[c] = UserOf[b] /\ u \in changing[c]
                                 => job[c].show # "unavailable"
            /\ ~(link.at \in {"list", "listing"} /\ link.pair = <<u, UserOf[b]>>)
        BY <3>2, PartingHas
      <3>4. CASE LinkParts(u, b)
        BY <1>4, <3>1, <3>3, <3>4 DEF ToPart, LinkParts
      <3>5. ASSUME NEW c \in Client, Parts(c, u, b)
            PROVE  ToPart(u, b)' \/ \E m \in ToSet(x) : TellsUser(m, b, u)
        <4>1. CASE c = b
          BY <1>11, <3>5, <4>1
        <4>2. CASE c # b
          <5>1. Parts(c, u, b)'
            BY <1>4, <3>3, <3>5, <4>2 DEF Parts
          <5>. QED
            BY <5>1 DEF ToPart
        <4>. QED
          BY <4>1, <4>2
      <3>. QED
        BY <1>12, <3>1, <3>4, <3>5 DEF ToPart
    <2>. QED
      BY <2>1, <2>2
  <1>13. Leaves(x)
    <2>1. ASSUME NEW u \in User, NEW d \in Client, OnItsWay(d, u)
          PROVE  OnItsWay(d, u)' \/ \E m \in ToSet(x) : TellsUser(m, d, u)
      BY <1>6, <1>11, <2>1, UndisturbedTells
    <2>2. ASSUME NEW u \in User, NEW c \in Client, Probing(c, u)
          PROVE  Probing(c, u)' \/ \E m \in ToSet(x) : Probes(m, c, u)
      <3>1. CASE c = b
        BY <1>1, <1>3, <2>2, <3>1 DEF Probing
      <3>2. CASE c # b
        BY <1>6, <2>2, <3>2, UndisturbedTells
      <3>. QED
        BY <3>1, <3>2
    <2>. QED
      BY <1>12, <2>1, <2>2 DEF Leaves
  <1>14. Begins(wire)
    <2>1. \A u, v : Over(u, v)' <=> Over(u, v)
      BY <1>4 DEF Over
    <2>. QED
      BY <1>4, <2>1 DEF Begins
  <1>15. Answers(wire, x)
    BY DEF Answers
  <1>16. Knowledge'
    BY <1>2, <1>3, <1>5, <1>10, <1>13, <1>14, <1>15, KnowledgeStep, ThinsSelf
  <1>. QED
    BY <1>8, <1>9, <1>16 DEF Consistent

(* The answers to a probe.                                                  *)
LEMMA AnswersProbeKeeps ==
  ASSUME FollowingTyped, Consistent, AnswersProbe
  PROVE  Consistent'
  <1>. DEFINE p == Head(wire)
              w == Tail(wire)
  <1>1. /\ wire # <<>> /\ wire \in Seq(Stanza) /\ p.kind = "probe"
        /\ bound' = bound /\ closing' = closing /\ active' = active /\ last' = last
        /\ job' = job /\ knows' = knows /\ granted' = granted /\ following' = following
        /\ asked' = asked /\ changing' = changing /\ link' = link /\ misled' = misled
        /\ crossed' = crossed \cup Ungranted(SubSeq(wire', Len(wire), Len(wire')))
    BY DEF AnswersProbe, DeliverProbe, FollowingTyped, rosters, tables, followingVars
  <1>2. PICK x \in Seq(Stanza) :
          /\ wire' = w \o x
          /\ \A m \in ToSet(x) :
               /\ m.kind = "presence" /\ m.from \in bound /\ m.from \in Client
               /\ UserOf[m.from] = p.to
               /\ m.show = last[m.from] /\ m.show \in Show /\ m.to = p.from
          /\ \A d \in bound : UserOf[d] = p.to /\ last[d] # "none" =>
               \E m \in ToSet(x) : m.kind = "presence" /\ m.from = d /\ m.to = p.from
    BY ProbeAnswers DEF AnswersProbe
  <1>3. /\ w \in Seq(Stanza) /\ ToSet(wire) = {p} \cup ToSet(w)
        /\ Len(wire) \in Nat \ {0} /\ Len(w) = Len(wire) - 1
    BY <1>1, TailFacts
  <1>4. Thins(w)
    BY <1>1, ThinsTail
  <1>. HIDE DEF w
  <1>5. SubSeq(wire', Len(wire), Len(wire')) = x
    <2>1. Len(wire) = Len(w) + 1
      BY <1>3
    <2>. QED
      BY <1>2, <1>3, <2>1, RestOfConcat
  <1>6. crossed' = crossed \cup Ungranted(x)
    BY <1>1, <1>5
  <1>7. Ages /\ Heeds
    BY <1>1, <1>6 DEF Ages, Heeds
  <1>8. p.from \in Client /\ p.to \in User /\ <<UserOf[p.from], p.to>> \notin asked
    BY <1>1, <1>3 DEF Consistent, WireAllowed, Allowed
  <1>. HIDE DEF p
  <1>9. \A d \in Client : Undisturbed(d)
    BY <1>1 DEF Undisturbed
  <1>10. JobsStaged' /\ GoneWhenInactive'
    BY <1>7, <1>9, UndisturbedStays DEF JobsStaged, GoneWhenInactive
  <1>11. LinkStaged' /\ WireAllowed' /\ Exclusive'
    <2>1. LinkStaged'
      BY <1>1, <1>7, LinkStays
    <2>2. ASSUME NEW m \in ToSet(x)
          PROVE  Allowed(m)'
      <3>1. /\ m.kind = "presence" /\ m.from \in Client /\ m.show \in Show
            /\ UserOf[m.from] = p.to /\ m.to = p.from
        BY <1>2
      <3>2. UserAt(m.to) = UserOf[p.from]
        BY <1>8, <3>1, UserAtFacts
      <3>. QED
        BY <1>1, <1>8, <3>1, <3>2 DEF Allowed
    <2>3. ToSet(w) \subseteq ToSet(wire)
      BY <1>3
    <2>4. WireAllowed'
      BY <1>2, <1>3, <1>7, <2>2, <2>3, WireStep
    <2>. QED
      BY <1>1, <2>1, <2>4 DEF Consistent, Exclusive
  <1>12. Keeps
    BY <1>1, <1>9, UndisturbedTells DEF Keeps
  <1>13. Leaves(x)
    <2>1. \A u, d : ToPart(u, d) => ToPart(u, d)'
      BY <1>1 DEF ToPart, Parts, LinkParts
    <2>. QED
      BY <1>9, <2>1, UndisturbedTells DEF Leaves
  <1>14. Begins(w)
    <2>1. \A u, v : Over(u, v)' <=> Over(u, v)
      BY <1>1 DEF Over
    <2>. QED
      BY <1>1, <2>1 DEF Begins
  <1>15. Brings(x)
    <2>1. ASSUME NEW c \in Client, NEW d \in Client, NEW m \in ToSet(x), Tells(m, c, d)
          PROVE  /\ m.show = Due(d)'
                 /\ UserOf[c] # UserOf[d] /\ Over(UserOf[c], UserOf[d])'
                    /\ Pair(c, d) \notin crossed' => m.show = "unavailable"
                 /\ UserOf[c] # UserOf[d] => Pair(c, d) \notin asked'
      <3>1. /\ m.from = d /\ d \in bound /\ m.show = last[d] /\ m.show \in Show
            /\ UserAt(m.to) = UserOf[c] /\ m.to = p.from /\ UserOf[d] = p.to
        BY <1>2, <2>1, UserAtFacts DEF Tells
      <3>2. m.show = Due(d)'
        BY <1>1, <3>1 DEF Due, Recorded, Show
      <3>3. Pair(c, d) \notin asked
        BY <1>8, <3>1, UserAtFacts DEF Pair
      <3>4. ASSUME UserOf[c] # UserOf[d], Over(UserOf[c], UserOf[d])', Pair(c, d) \notin crossed'
            PROVE  m.show = "unavailable"
        <4>1. Pair(c, d) \notin granted /\ Pair(c, d) \notin Ungranted(x)
          BY <1>1, <1>6, <3>4 DEF Over, Pair
        <4>2. ~(m.show \in {"available", "away"})
          BY <3>1, <3>4, <4>1, ShownFacts DEF Pair
        <4>. QED
          BY <3>1, <4>2 DEF Show
      <3>. QED
        BY <1>1, <3>2, <3>3, <3>4
    <2>2. \A u, v, d : Announced(x, u, v, d)
      <3>1. \A i \in 1..Len(x) : x[i].kind = "presence"
        BY <1>2, ItemInToSet
      <3>. QED
        BY <3>1 DEF Announced
    <2>. QED
      BY <2>1, <2>2 DEF Brings
  <1>16. Answers(w, x)
    <2>1. ASSUME NEW c \in Client, NEW d \in Client, NEW m \in ToSet(wire),
                 Probes(m, c, UserOf[d]), Recorded(d), m \notin ToSet(w)
          PROVE  ~Silent(x, c, d)
      <3>1. p.from = c /\ p.to = UserOf[d]
        BY <1>3, <2>1 DEF Probes
      <3>2. \E a \in ToSet(x) : a.kind = "presence" /\ a.from = d /\ a.to = c
        BY <1>2, <2>1, <3>1 DEF Recorded
      <3>. QED
        BY <3>2 DEF Silent, Tells
    <2>. QED
      BY <2>1 DEF Answers
  <1>17. Knowledge'
    BY <1>2, <1>4, <1>7, <1>12, <1>13, <1>14, <1>15, <1>16, KnowledgeStep
  <1>. QED
    BY <1>10, <1>11, <1>17 DEF Consistent

-----------------------------------------------------------------------------
(* s2s-subscription and s2s-presence.                                       *)

LEMMA TailOfChange ==
  ASSUME FollowingTyped, wire # <<>>, Head(wire).kind \in ChangeKind
  PROVE  /\ Thins(Tail(wire)) /\ Answers(Tail(wire), <<>>)
         /\ Head(wire) \in ToSet(wire)
  <1>1. ToSet(wire) = {Head(wire)} \cup ToSet(Tail(wire))
    BY TailFacts DEF FollowingTyped
  <1>2. Head(wire).kind \notin {"presence", "probe"}
    BY DEF ChangeKind
  <1>3. Thins(Tail(wire))
    BY <1>2, ThinsTail
  <1>4. Answers(Tail(wire), <<>>)
    BY <1>1, <1>2 DEF Answers, Probes
  <1>. QED
    BY <1>1, <1>3, <1>4

LEMMA S2SSubscribedKeeps ==
  ASSUME FollowingTyped, Consistent, S2SSubscribed, UNCHANGED <<misled, crossed>>
  PROVE  Consistent'
  <1>. DEFINE m == Head(wire)
              w == Tail(wire)
              pair == <<m.to, m.from>>
  <1>1. /\ wire # <<>> /\ m.kind = "subscribed" /\ wire' = w
        /\ bound' = bound /\ closing' = closing /\ active' = active /\ last' = last
        /\ job' = job /\ knows' = knows /\ granted' = granted /\ asked' = asked
        /\ changing' = changing /\ link' = link /\ misled' = misled /\ crossed' = crossed
        /\ following' \subseteq following \cup {pair}
    BY DEF S2SSubscribed, NextIs, tables
  <1>2. /\ wire \in Seq(Stanza) /\ w \in Seq(Stanza) /\ Len(wire) \in Nat \ {0}
        /\ Len(w) = Len(wire) - 1 /\ m = wire[1] /\ \A k \in 1..Len(w) : w[k] = wire[k + 1]
    BY <1>1, TailFacts DEF FollowingTyped
  <1>3. Thins(w) /\ Answers(w, <<>>) /\ m \in ToSet(wire)
    BY <1>1, TailOfChange DEF ChangeKind
  <1>. HIDE DEF m, w
  <1>4. pair \notin asked
    BY <1>1, <1>3 DEF Consistent, WireAllowed, Allowed
  <1>5. ASSUME NEW c \in Client, NEW d \in Client,
               Pair(c, d) \in following', Pair(c, d) \notin following,
               Pair(c, d) \in granted, Pair(c, d) \notin crossed, Recorded(d),
               ~OnItsWay(d, UserOf[c])
        PROVE  \E n \in ToSet(w) : TellsUser(n, d, UserOf[c])
    <2>1. Pair(c, d) = pair
      BY <1>1, <1>5
    <2>2. m.to = UserOf[c] /\ m.from = UserOf[d]
      BY <2>1 DEF Pair
    <2>3. Announced(wire, UserOf[c], UserOf[d], d)
      BY <1>5, PairFacts DEF Consistent, Knowledge, ApprovalsInform, Pair
    <2>4. PICK j \in 1..Len(wire) : 1 < j /\ TellsUser(wire[j], d, UserOf[c])
      <3>1. 1 \in 1..Len(wire)
        BY <1>2
      <3>. QED
        BY <1>1, <1>2, <2>2, <2>3, <3>1 DEF Announced
    <2>5. j - 1 \in 1..Len(w) /\ (j - 1) + 1 = j
      BY <1>2, <2>4
    <2>6. w[j - 1] \in ToSet(w) /\ w[j - 1] = wire[j]
      BY <1>2, <2>5, ItemInToSet
    <2>. QED
      BY <2>4, <2>6
  <1>6. Links(w)
    <2>1. \A d \in Client : Undisturbed(d)
      BY <1>1 DEF Undisturbed
    <2>2. \A u, v : Over(u, v)' <=> Over(u, v)
      BY <1>1 DEF Over
    <2>3. \A u, d : LinkParts(u, d) => LinkParts(u, d)'
      BY <1>1 DEF LinkParts
    <2>. QED
      BY <1>1, <1>5, <2>1, <2>2, <2>3 DEF Links
  <1>7. LinkStaged'
    BY <1>1 DEF Consistent, LinkStaged, Over
  <1>8. Exclusive'
    BY <1>1, <1>4 DEF Consistent, Exclusive
  <1>. QED
    BY <1>3, <1>6, <1>7, <1>8, LinkStep

LEMMA S2SUnsubscribedKeeps ==
  ASSUME FollowingTyped, Consistent, S2SUnsubscribed, UNCHANGED <<misled, crossed>>
  PROVE  Consistent'
  <1>. DEFINE w == Tail(wire)
  <1>1. /\ wire # <<>> /\ Head(wire).kind = "unsubscribed" /\ wire' = w
        /\ bound' = bound /\ closing' = closing /\ active' = active /\ last' = last
        /\ job' = job /\ knows' = knows /\ granted' = granted /\ asked' = asked
        /\ changing' = changing /\ link' = link /\ misled' = misled /\ crossed' = crossed
        /\ following' \subseteq following
    BY DEF S2SUnsubscribed, NextIs, tables
  <1>2. Thins(w) /\ Answers(w, <<>>)
    BY <1>1, TailOfChange DEF ChangeKind
  <1>. HIDE DEF w
  <1>3. Links(w)
    <2>1. \A d \in Client : Undisturbed(d)
      BY <1>1 DEF Undisturbed
    <2>2. \A u, v : Over(u, v)' <=> Over(u, v)
      BY <1>1 DEF Over
    <2>3. \A u, d : LinkParts(u, d) => LinkParts(u, d)'
      BY <1>1 DEF LinkParts
    <2>. QED
      BY <1>1, <2>1, <2>2, <2>3 DEF Links
  <1>4. LinkStaged'
    BY <1>1 DEF Consistent, LinkStaged, Over
  <1>5. Exclusive'
    BY <1>1 DEF Consistent, Exclusive
  <1>. QED
    BY <1>2, <1>3, <1>4, <1>5, LinkStep

LEMMA S2SUnsubscribeKeeps ==
  ASSUME FollowingTyped, Consistent, S2SUnsubscribe, UNCHANGED <<misled, crossed>>
  PROVE  Consistent'
  <1>. DEFINE w == Tail(wire)
              pair == <<Head(wire).from, Head(wire).to>>
  <1>1. /\ wire # <<>> /\ Head(wire).kind = "unsubscribe" /\ wire' = w /\ link.at = "idle"
        /\ bound' = bound /\ closing' = closing /\ active' = active /\ last' = last
        /\ job' = job /\ knows' = knows /\ following' = following
        /\ granted' = granted \ {pair} /\ asked' = asked \ {pair}
        /\ changing' = changing /\ misled' = misled /\ crossed' = crossed
    BY DEF S2SUnsubscribe, NextIs, tables
  <1>2. link' = IF pair \in asked \cup granted
                THEN [LinkIdle EXCEPT !.at = "list", !.pair = pair] ELSE link
    BY DEF S2SUnsubscribe
  <1>3. Thins(w) /\ Answers(w, <<>>)
    BY <1>1, TailOfChange DEF ChangeKind
  <1>. HIDE DEF w
  <1>4. pair \in asked \cup granted => link'.at = "list" /\ link'.pair = pair
    <2>1. ASSUME pair \in asked \cup granted
          PROVE  link'.at = "list" /\ link'.pair = pair
      <3>1. pair \in User \X User
        BY <2>1 DEF FollowingTyped
      <3>. QED
        BY <1>2, <2>1, <3>1, LinkEdited
    <2>. QED
      BY <2>1
  <1>. HIDE DEF pair
  <1>5. /\ pair \notin asked' \cup granted'
        /\ \A u, v : Over(u, v)' /\ ~Over(u, v) => <<u, v>> = pair /\ pair \in asked \cup granted
    BY <1>1 DEF Over
  <1>6. Links(w)
    <2>1. \A d \in Client : Undisturbed(d)
      BY <1>1 DEF Undisturbed
    <2>2. \A u, d : ~LinkParts(u, d)
      BY <1>1 DEF LinkParts
    <2>3. \A u \in User, d \in Client :
            d \in bound /\ Over(u, UserOf[d])' /\ ~Over(u, UserOf[d]) => LinkParts(u, d)'
      BY <1>1, <1>4, <1>5 DEF LinkParts
    <2>4. asked' \subseteq asked /\ granted' \subseteq granted
      BY <1>1
    <2>. QED
      BY <1>1, <2>1, <2>2, <2>3, <2>4 DEF Links
  <1>7. LinkStaged'
    <2>1. CASE pair \in asked \cup granted
      <3>1. pair = <<pair[1], pair[2]>>
        BY <2>1 DEF FollowingTyped
      <3>. QED
        BY <1>4, <1>5, <2>1, <3>1 DEF LinkStaged, Over
    <2>2. CASE pair \notin asked \cup granted
      BY <1>1, <1>2, <2>2 DEF LinkStaged
    <2>. QED
      BY <2>1, <2>2
  <1>8. Exclusive'
    BY <1>1 DEF Consistent, Exclusive
  <1>. QED
    BY <1>3, <1>6, <1>7, <1>8, LinkStep

(* The handler of the end of a subscription, on the connection to itself.   *)
LEMMA LinkListKeeps ==
  ASSUME FollowingTyped, BoundKnown, Consistent, LinkList \/ LinkDone,
         UNCHANGED <<misled, crossed>>
  PROVE  Consistent'
  <1>1. /\ bound' = bound /\ closing' = closing /\ active' = active /\ last' = last
        /\ job' = job /\ knows' = knows /\ granted' = granted /\ asked' = asked
        /\ wire' = wire /\ following' = following
        /\ changing' = changing /\ misled' = misled /\ crossed' = crossed
        /\ link.at \in {"list", "listing"}
    BY DEF LinkList, LinkDone, vars, tables, rosters
  <1>2. Thins(wire) /\ Answers(wire, <<>>)
    BY ThinsSelf, AllPresent
  <1>3. \A u, v : Over(u, v)' <=> Over(u, v)
    BY <1>1 DEF Over
  <1>4. Over(link.pair[1], link.pair[2]) /\ link.pair \in User \X User
    BY <1>1 DEF Consistent, LinkStaged, FollowingTyped
  <1>5. /\ LinkStaged'
        /\ \A u, d : LinkParts(u, d) => LinkParts(u, d)'
    <2>1. CASE LinkList
      <3>1. link'.at = "listing" /\ link'.pair = link.pair
        BY <2>1 DEF LinkList, FollowingTyped, LinkJob
      <3>. QED
        BY <1>1, <1>3, <1>4, <3>1 DEF LinkStaged, LinkParts
    <2>2. CASE LinkDone
      <3>1. PICK items : items = Ended(link.pair[1], link.pair[2])
        OBVIOUS
      <3>2. link' = [link EXCEPT !.at = "route", !.items = items]
        BY <2>2, <3>1 DEF LinkDone
      <3>3. link'.at = "route" /\ link'.pair = link.pair /\ link'.items = items
        BY <3>2 DEF FollowingTyped, LinkJob
      <3>4. link.pair[1] \in User /\ link.pair[2] \in User
        BY <1>4
      <3>5. /\ \A m \in ToSet(items) :
                 \/ m.kind = "unsubscribed"
                 \/ /\ Advertises(m, link.pair[2]) /\ m.show = "unavailable"
                    /\ m.to = link.pair[1]
            /\ \A d \in bound : UserOf[d] = link.pair[2] =>
                 \E m \in ToSet(items) : TellsUser(m, d, link.pair[1])
        BY <3>1, <3>4, EndedFacts
      <3>6. LinkStaged'
        BY <1>3, <1>4, <3>3, <3>5 DEF LinkStaged
      <3>7. ASSUME NEW u, NEW d, LinkParts(u, d)
            PROVE  LinkParts(u, d)'
        <4>1. d \in bound /\ link.pair = <<u, UserOf[d]>>
          BY <1>1, <3>7 DEF LinkParts
        <4>2. \E m \in ToSet(items) : TellsUser(m, d, u)
          BY <3>5, <4>1
        <4>. QED
          BY <3>3, <4>2 DEF LinkParts
      <3>. QED
        BY <3>6, <3>7
    <2>. QED
      BY <2>1, <2>2
  <1>6. Links(wire)
    <2>1. \A d \in Client : Undisturbed(d)
      BY <1>1 DEF Undisturbed
    <2>. QED
      BY <1>1, <1>3, <1>5, <2>1 DEF Links
  <1>7. Exclusive'
    BY <1>1 DEF Consistent, Exclusive
  <1>. QED
    BY <1>2, <1>5, <1>6, <1>7, LinkStep

LEMMA LinkRouteKeeps ==
  ASSUME FollowingTyped, Consistent, LinkRoute, UNCHANGED <<misled, crossed>>
  PROVE  Consistent'
  <1>. DEFINE x == link.items
  <1>1. /\ bound' = bound /\ closing' = closing /\ active' = active /\ last' = last
        /\ job' = job /\ knows' = knows /\ granted' = granted /\ asked' = asked
        /\ wire' = wire \o x /\ following' = following /\ link.at = "route" /\ link'.at = "idle"
        /\ changing' = changing /\ misled' = misled /\ crossed' = crossed
    BY IdleTyped DEF LinkRoute, tables, rosters
  <1>2. /\ Over(link.pair[1], link.pair[2])
        /\ \A m \in ToSet(x) :
             \/ m.kind = "unsubscribed"
             \/ Advertises(m, link.pair[2]) /\ m.show = "unavailable" /\ m.to = link.pair[1]
    BY <1>1 DEF Consistent, LinkStaged
  <1>3. x \in Seq(Stanza) /\ wire \in Seq(Stanza)
    BY DEF FollowingTyped, LinkJob
  <1>4. \A u, d : LinkParts(u, d) => \E m \in ToSet(x) : TellsUser(m, d, u)
    BY <1>1 DEF LinkParts
  <1>. HIDE DEF x
  <1>5. Ages /\ Heeds
    BY <1>1 DEF Ages, Heeds
  <1>6. \A d \in Client : Undisturbed(d)
    BY <1>1 DEF Undisturbed
  <1>7. JobsStaged' /\ GoneWhenInactive'
    BY <1>5, <1>6, UndisturbedStays DEF JobsStaged, GoneWhenInactive
  <1>8. \A u, v : Over(u, v)' <=> Over(u, v)
    BY <1>1 DEF Over
  <1>9. LinkStaged' /\ WireAllowed' /\ Exclusive'
    <2>1. ASSUME NEW m \in ToSet(x)
          PROVE  Allowed(m)'
      <3>1. CASE m.kind = "unsubscribed"
        BY <3>1 DEF Allowed
      <3>2. CASE m.kind # "unsubscribed"
        <4>1. UserAt(m.to) = m.to /\ <<m.to, UserOf[m.from]>> \notin asked
          BY <1>2, <3>2 DEF Advertises, UserAt, Over
        <4>. QED
          BY <1>1, <1>2, <3>2, <4>1 DEF Advertises, Allowed, Show
      <3>. QED
        BY <3>1, <3>2
    <2>2. WireAllowed'
      BY <1>1, <1>3, <1>5, <2>1, WireStep
    <2>. QED
      BY <1>1, <2>2 DEF Consistent, Exclusive, LinkStaged
  <1>10. Keeps
    BY <1>1, <1>6, UndisturbedTells DEF Keeps
  <1>11. Leaves(x)
    <2>1. \A u, d : ToPart(u, d) => ToPart(u, d)' \/ \E m \in ToSet(x) : TellsUser(m, d, u)
      BY <1>1, <1>4 DEF ToPart, Parts
    <2>. QED
      BY <1>6, <2>1, UndisturbedTells DEF Leaves
  <1>12. Begins(wire)
    BY <1>1, <1>8 DEF Begins
  <1>13. Brings(x)
    <2>1. ASSUME NEW c \in Client, NEW d \in Client, NEW m \in ToSet(x), Tells(m, c, d)
          PROVE  Over(UserOf[c], UserOf[d]) /\ m.show = "unavailable"
      <3>1. m.from = d /\ m.to \in {c, UserOf[c]} /\ m.kind = "presence"
        BY <2>1 DEF Tells
      <3>2. /\ m.to = UserOf[c] /\ m.to = link.pair[1]
            /\ UserOf[d] = link.pair[2] /\ m.show = "unavailable"
        BY <1>2, <3>1, PairFacts DEF Advertises
      <3>. QED
        BY <1>2, <3>2
    <2>2. \A u, v, d : Announced(x, u, v, d)
      <3>1. \A i \in 1..Len(x) : x[i].kind \in {"presence", "unsubscribed"}
        BY <1>2, <1>3, ItemInToSet DEF Advertises
      <3>. QED
        BY <3>1 DEF Announced
    <2>. QED
      BY <1>1, <1>3, <2>1, <2>2 DEF Brings, Over, Pair
  <1>14. Answers(wire, x)
    BY DEF Answers
  <1>15. Knowledge'
    BY <1>1, <1>5, <1>10, <1>11, <1>12, <1>13, <1>14, KnowledgeStep, ThinsSelf
  <1>. QED
    BY <1>7, <1>9, <1>15 DEF Consistent

LEMMA DeliverPresenceKeeps ==
  ASSUME FollowingTyped, Consistent, DeliverPresence, UNCHANGED <<followingVars, misled, crossed>>
  PROVE  Consistent'
  <1>. DEFINE m == Head(wire)
              w == Tail(wire)
  <1>1. /\ wire # <<>> /\ m.kind = "presence" /\ wire' = w
        /\ bound' = bound /\ closing' = closing /\ active' = active /\ last' = last
        /\ job' = job /\ granted' = granted /\ asked' = asked
        /\ following' = following /\ link' = link
        /\ changing' = changing /\ misled' = misled /\ crossed' = crossed
        /\ knows' = [c \in Client |->
             IF c \in bound /\ m.to \in {c, UserOf[c]}
             THEN [knows[c] EXCEPT ![m.from] = m.show] ELSE knows[c]]
    BY DEF DeliverPresence, tables, rosters, followingVars
  <1>2. /\ wire \in Seq(Stanza) /\ w \in Seq(Stanza) /\ ToSet(wire) = {m} \cup ToSet(w)
    BY <1>1, TailFacts DEF FollowingTyped
  <1>3. \A c, d \in Client :
          /\ Silent(wire, c, d) <=> ~Tells(m, c, d) /\ Silent(w, c, d)
          /\ \A v : LatestIs(wire, c, d, v) =>
               /\ LatestIs(w, c, d, v)
               /\ Tells(m, c, d) /\ Silent(w, c, d) => m.show = v
    BY <1>1, <1>2, TailNews
  <1>4. \A u, v, d : Announced(wire, u, v, d) => Announced(w, u, v, d)
    BY <1>1, <1>2, TailAnnounced
  <1>. HIDE DEF m, w
  <1>5. Allowed(m) /\ m.from \in Client /\ m.show \in Show
    BY <1>1, <1>2 DEF Consistent, WireAllowed, Allowed
  <1>6. ASSUME NEW c \in Client, NEW d \in Client
        PROVE  knows'[c][d] = IF c \in bound /\ Tells(m, c, d) THEN m.show ELSE knows[c][d]
    <2>1. knows[c] \in [Client -> Presence]
      BY DEF FollowingTyped
    <2>2. Tells(m, c, d) <=> m.from = d /\ m.to \in {c, UserOf[c]}
      BY <1>1 DEF Tells
    <2>. QED
      BY <1>1, <1>5, <2>1, <2>2
  <1>7. Ages /\ Heeds
    BY <1>1 DEF Ages, Heeds
  <1>8. \A d \in Client : Undisturbed(d)
    BY <1>1 DEF Undisturbed
  <1>9. JobsStaged' /\ GoneWhenInactive'
    BY <1>7, <1>8, UndisturbedStays DEF JobsStaged, GoneWhenInactive
  <1>10. \A u, v : Over(u, v)' <=> Over(u, v)
    BY <1>1 DEF Over
  <1>11. LinkStaged' /\ WireAllowed' /\ Exclusive'
    <2>1. LinkStaged'
      BY <1>1, <1>7, LinkStays
    <2>2. WireAllowed'
      BY <1>1, <1>2, <1>7, Aging DEF Consistent, WireAllowed
    <2>. QED
      BY <1>1, <2>1, <2>2 DEF Consistent, Exclusive
  <1>12. \A d \in Client : /\ (Recorded(d)' <=> Recorded(d)) /\ Due(d)' = Due(d)
                           /\ \A u : /\ OnItsWay(d, u)' <=> OnItsWay(d, u)
                                     /\ Probing(d, u)' <=> Probing(d, u)
    BY <1>8, UndisturbedTells
  <1>13. \A u, d : ToPart(u, d)' <=> ToPart(u, d)
    BY <1>1 DEF ToPart, Parts, LinkParts
  <1>14. NotYetTold'
    <2>1. ASSUME NEW c \in Client, NEW d \in Client, UserOf[c] # UserOf[d], Pair(c, d) \in asked
          PROVE  knows'[c][d] = "none"
      <3>1. ~Tells(m, c, d) /\ knows[c][d] = "none"
        BY <1>5, <2>1, PairFacts DEF Consistent, Knowledge, NotYetTold
      <3>. QED
        BY <1>6, <3>1
    <2>. QED
      BY <1>1, <2>1 DEF NotYetTold, Pair
  <1>15. ASSUME NEW c \in Client, NEW d \in Client, NEW v, LatestIs(wire, c, d, v),
                c \in bound /\ Silent(wire, c, d) => knows[c][d] \in {"none", v}
         PROVE  /\ LatestIs(w, c, d, v)
                /\ c \in bound /\ Silent(w, c, d) => knows'[c][d] \in {"none", v}
    BY <1>3, <1>6, <1>15
  <1>16. NewsArrives'
    <2>1. ASSUME NEW c \in Client, NEW d \in Client,
                 Pair(c, d) \in granted, ~OnItsWay(d, UserOf[c]), d \notin misled,
                 UserOf[c] # UserOf[d] \/ Informed(c, d)'
          PROVE  Current(c, d)'
      <3>1. Informed(c, d)' => Informed(c, d)
        BY <1>1, <1>2, <1>12 DEF Informed, Pair
      <3>2. Current(c, d)
        BY <2>1, <3>1 DEF Consistent, Knowledge, NewsArrives
      <3>3. /\ LatestIs(w, c, d, Due(d))
            /\ c \in bound /\ Silent(w, c, d) => knows'[c][d] \in {"none", Due(d)}
        BY <1>15, <3>2 DEF Current
      <3>. QED
        BY <1>1, <1>12, <3>3 DEF Current
    <2>. QED
      BY <1>1, <1>12, <2>1, PairFacts DEF NewsArrives, Pair
  <1>17. OverIsTold'
    <2>1. ASSUME NEW c \in Client, NEW d \in Client, UserOf[c] # UserOf[d],
                 Over(UserOf[c], UserOf[d]), Pair(c, d) \notin crossed, d \notin misled,
                 ~ToPart(UserOf[c], d)
          PROVE  Hushed(c, d)'
      <3>1. Hushed(c, d)
        BY <2>1 DEF Consistent, Knowledge, OverIsTold
      <3>2. /\ LatestIs(w, c, d, "unavailable")
            /\ c \in bound /\ Silent(w, c, d) => knows'[c][d] \in {"none", "unavailable"}
        BY <1>15, <3>1 DEF Hushed
      <3>. QED
        BY <1>1, <3>2 DEF Hushed
    <2>. QED
      BY <1>1, <1>10, <1>13, <2>1 DEF OverIsTold, Pair
  <1>18. ApprovalsInform'
    BY <1>1, <1>4, <1>12 DEF Consistent, Knowledge, ApprovalsInform
  <1>19. FollowersLearn'
    <2>1. ASSUME NEW c \in Client, NEW d \in Client, c \in bound, Learns(c, d)
          PROVE  Learns(c, d)'
      <3>1. CASE Tells(m, c, d)
        BY <1>5, <1>6, <2>1, <3>1 DEF Learns, Show
      <3>2. CASE ~Tells(m, c, d)
        <4>1. knows'[c][d] = knows[c][d] /\ (Silent(w, c, d) <=> Silent(wire, c, d))
          BY <1>3, <1>6, <3>2
        <4>2. \A u : (\E n \in ToSet(wire) : Probes(n, c, u)) => \E n \in ToSet(w) : Probes(n, c, u)
          BY <1>1, <1>2 DEF Probes
        <4>. QED
          BY <1>1, <1>12, <2>1, <4>1, <4>2 DEF Learns
      <3>. QED
        BY <3>1, <3>2
    <2>. QED
      BY <1>1, <1>12, <2>1 DEF Consistent, Knowledge, FollowersLearn, Pair
  <1>. QED
    BY <1>9, <1>11, <1>14, <1>16, <1>17, <1>18, <1>19 DEF Consistent, Knowledge

-----------------------------------------------------------------------------
(* All the steps together.                                                  *)

LEMMA PresenceStepKeeps ==
  ASSUME FollowingTyped, Consistent, PresenceStep, ~raised',
         UNCHANGED <<followingVars, misled, crossed>>
  PROVE  Consistent'
  <1>1. CASE DeliverPresence
    BY <1>1, DeliverPresenceKeeps
  <1>2. ASSUME NEW c \in Client, Act(c)
        PROVE  Consistent'
    BY <1>2, ActKeeps
  <1>3. ASSUME NEW c \in Client, Raise(c)
        PROVE  FALSE
    BY <1>3 DEF Raise
  <1>4. ASSUME NEW c \in Client, Record(c)
        PROVE  Consistent'
    BY <1>4, RecordKeeps
  <1>5. ASSUME NEW c \in Client, NEW show \in Show, SendPresence(c, show)
        PROVE  Consistent'
    BY <1>5, SendPresenceKeeps
  <1>. QED
    BY <1>1, <1>2, <1>3, <1>4, <1>5 DEF PresenceStep

LEMMA SubscriptionStepKeeps ==
  ASSUME FollowingTyped, BoundKnown, Consistent, SubscriptionStep, ~raised',
         UNCHANGED <<misled, crossed>>
  PROVE  Consistent'
  <1>1. ASSUME NEW c \in Client, NEW u \in User,
               Subscribed(c, u) \/ Unsubscribed(c, u) \/ RemoveContact(c, u)
        PROVE  Consistent'
    BY <1>1, AnswerKeeps
  <1>2. ASSUME NEW c \in Client, NEW u \in User, Unsubscribe(c, u)
        PROVE  Consistent'
    BY <1>2, UnsubscribeKeeps
  <1>3. ASSUME NEW c \in Client, List(c)
        PROVE  Consistent'
    BY <1>3, ListKeeps
  <1>4. ASSUME NEW c \in Client, ListRaise(c)
        PROVE  FALSE
    BY <1>4 DEF ListRaise
  <1>5. ASSUME NEW c \in Client, ListDone(c)
        PROVE  Consistent'
    BY <1>5, ListDoneKeeps
  <1>6. ASSUME NEW c \in Client, RemoveListed(c)
        PROVE  Consistent'
    BY <1>6, RemoveListedKeeps
  <1>7. ASSUME NEW c \in Client, RemoveRow(c)
        PROVE  Consistent'
    BY <1>7, RemoveRowKeeps
  <1>8. CASE S2SSubscribed
    BY <1>8, S2SSubscribedKeeps
  <1>9. CASE S2SUnsubscribed
    BY <1>9, S2SUnsubscribedKeeps
  <1>10. CASE S2SUnsubscribe
    BY <1>10, S2SUnsubscribeKeeps
  <1>11. CASE LinkList \/ LinkDone
    BY <1>11, LinkListKeeps
  <1>12. CASE LinkRaise
    BY <1>12 DEF LinkRaise
  <1>13. CASE LinkRoute
    BY <1>13, LinkRouteKeeps
  <1>. QED
    BY <1>1, <1>2, <1>3, <1>4, <1>5, <1>6, <1>7, <1>8, <1>9, <1>10, <1>11, <1>12, <1>13
       DEF SubscriptionStep

(* No handler that has raised is forgotten.                                 *)
LEMMA RaisedStays ==
  ASSUME FollowingTyped, FollowingNext, ~raised'
  PROVE  ~raised
  <1>1. CASE AnswersProbe
    BY <1>1 DEF AnswersProbe, DeliverProbe
  <1>2. ASSUME NEW c \in Client, Binds(c) \/ Routes(c) \/ Ends(c)
        PROVE  ~raised
    BY <1>2 DEF Binds, Bind, Routes, RouteOut, Ends, StreamEnd
  <1>3. CASE PresenceStep
    BY <1>3 DEF PresenceStep, DeliverPresence, Act, Raise, Record, SendPresence
  <1>4. CASE SubscriptionStep
    <2>1. ASSUME NEW c \in Client, NEW u \in User,
                 Subscribed(c, u) \/ Unsubscribed(c, u) \/ Unsubscribe(c, u) \/ RemoveContact(c, u)
          PROVE  ~raised
      BY <2>1 DEF Subscribed, Unsubscribed, Unsubscribe, RemoveContact
    <2>2. ASSUME NEW c \in Client,
                 List(c) \/ ListRaise(c) \/ ListDone(c) \/ RemoveListed(c) \/ RemoveRow(c)
          PROVE  ~raised
      BY <2>2 DEF List, ListRaise, ListDone, RemoveListed, RemoveRow
    <2>3. CASE S2SSubscribed \/ S2SUnsubscribed \/ S2SUnsubscribe
      BY <2>3 DEF S2SSubscribed, S2SUnsubscribed, S2SUnsubscribe
    <2>4. CASE LinkList \/ LinkRaise \/ LinkDone \/ LinkRoute
      BY <2>4 DEF LinkList, LinkRaise, LinkDone, LinkRoute, vars
    <2>. QED
      BY <1>4, <2>1, <2>2, <2>3, <2>4 DEF SubscriptionStep
  <1>. QED
    BY <1>1, <1>2, <1>3, <1>4 DEF FollowingNext

LEMMA FollowingStepTyped ==
  ASSUME FollowingTyped, FollowingNext
  PROVE  FollowingTyped'
  <1>1. CASE AnswersProbe
    BY <1>1, PresenceTyped DEF AnswersProbe, Deliver, followingVars
  <1>2. ASSUME NEW c \in Client, Binds(c) \/ Routes(c) \/ Ends(c)
        PROVE  FollowingTyped'
    <2>1. Bind(c) \/ StreamEnd(c) \/ Work(c)
      BY <1>2 DEF Binds, Routes, Ends, Work
    <2>2. UNCHANGED <<asking, asked, changing, link>>
      BY <1>2 DEF Binds, Routes, Ends, followingVars
    <2>. QED
      BY <2>1, <2>2, PresenceTyped
  <1>3. CASE PresenceStep /\ UNCHANGED <<followingVars, known, misled, crossed>>
    <2>1. \/ Deliver
          \/ \E c \in Client : Bind(c) \/ StreamEnd(c) \/ Work(c)
          \/ \E c \in Client, show \in Show : SendPresence(c, show)
      BY <1>3 DEF PresenceStep, Deliver, Work
    <2>2. UNCHANGED <<asking, asked, changing, link>>
      BY <1>3 DEF followingVars
    <2>. QED
      BY <2>1, <2>2, PresenceTyped
  <1>4. CASE SubscriptionStep
    BY <1>4, SubscriptionTyped
  <1>. QED
    BY <1>1, <1>2, <1>3, <1>4 DEF FollowingNext

(* A user's key stays for good.                                             *)
LEMMA BoundKnownStep ==
  ASSUME FollowingTyped, BoundKnown, FollowingNext
  PROVE  BoundKnown'
  <1>1. CASE AnswersProbe
    BY <1>1 DEF AnswersProbe, DeliverProbe, BoundKnown, tables
  <1>2. ASSUME NEW c \in Client, Binds(c)
        PROVE  BoundKnown'
    BY <1>2 DEF Binds, Bind, BoundKnown
  <1>3. ASSUME NEW c \in Client, Routes(c) \/ Ends(c)
        PROVE  BoundKnown'
    <2>1. bound' \subseteq bound /\ known' = known
      BY <1>3 DEF Routes, RouteOut, Ends, StreamEnd, CleanUp
    <2>. QED
      BY <2>1 DEF BoundKnown
  <1>4. CASE PresenceStep /\ UNCHANGED <<followingVars, known, misled, crossed>>
    <2>1. bound' = bound
      BY <1>4 DEF PresenceStep, DeliverPresence, Act, Raise, Record, SendPresence, tables
    <2>. QED
      BY <1>4, <2>1 DEF BoundKnown
  <1>5. CASE SubscriptionStep /\ UNCHANGED <<known, misled, crossed>>
    <2>1. ASSUME NEW c \in Client, NEW u \in User,
                 Subscribed(c, u) \/ Unsubscribed(c, u) \/ Unsubscribe(c, u) \/ RemoveContact(c, u)
          PROVE  bound' = bound
      BY <2>1 DEF Subscribed, Unsubscribed, Unsubscribe, RemoveContact, tables
    <2>2. ASSUME NEW c \in Client,
                 List(c) \/ ListRaise(c) \/ ListDone(c) \/ RemoveListed(c) \/ RemoveRow(c)
          PROVE  bound' = bound
      BY <2>2 DEF List, ListRaise, ListDone, RemoveListed, RemoveRow, tables
    <2>3. ASSUME S2SSubscribed \/ S2SUnsubscribed \/ S2SUnsubscribe
          PROVE  bound' = bound
      BY <2>3 DEF S2SSubscribed, S2SUnsubscribed, S2SUnsubscribe, tables
    <2>4. ASSUME LinkList \/ LinkRaise \/ LinkDone \/ LinkRoute
          PROVE  bound' = bound
      BY <2>4 DEF LinkList, LinkRaise, LinkDone, LinkRoute, vars, tables
    <2>5. bound' = bound
      BY <1>5, <2>1, <2>2, <2>3, <2>4 DEF SubscriptionStep
    <2>. QED
      BY <1>5, <2>5 DEF BoundKnown
  <1>. QED
    BY <1>1, <1>2, <1>3, <1>4, <1>5 DEF FollowingNext

LEMMA FollowingStep == FollowingInv /\ FollowingNext => FollowingInv'
  <1>. SUFFICES ASSUME FollowingInv, FollowingNext
                PROVE  FollowingInv'
    OBVIOUS
  <1>1. FollowingTyped /\ FollowingTyped' /\ BoundKnown /\ BoundKnown'
    BY FollowingStepTyped, BoundKnownStep DEF FollowingInv
  <1>2. ASSUME ~raised'
        PROVE  Consistent'
    <2>1. Consistent
      BY <1>1, <1>2, RaisedStays DEF FollowingInv
    <2>2. CASE AnswersProbe
      BY <1>1, <2>1, <2>2, AnswersProbeKeeps
    <2>3. ASSUME NEW c \in Client, Binds(c)
          PROVE  Consistent'
      BY <1>1, <2>1, <2>3, BindsKeeps
    <2>4. ASSUME NEW c \in Client, Routes(c)
          PROVE  Consistent'
      BY <1>1, <1>2, <2>1, <2>4, RoutesKeeps
    <2>5. ASSUME NEW c \in Client, Ends(c)
          PROVE  Consistent'
      BY <1>1, <2>1, <2>5, EndsKeeps
    <2>6. CASE PresenceStep /\ UNCHANGED <<followingVars, known, misled, crossed>>
      BY <1>1, <1>2, <2>1, <2>6, PresenceStepKeeps
    <2>7. CASE SubscriptionStep /\ UNCHANGED <<known, misled, crossed>>
      BY <1>1, <1>2, <2>1, <2>7, SubscriptionStepKeeps
    <2>. QED
      BY <2>2, <2>3, <2>4, <2>5, <2>6, <2>7 DEF FollowingNext
  <1>. QED
    BY <1>1, <1>2 DEF FollowingInv

LEMMA FollowingStutter == FollowingInv /\ UNCHANGED allVars => FollowingInv'
  <1>. SUFFICES ASSUME FollowingInv, UNCHANGED allVars
                PROVE  FollowingInv'
    OBVIOUS
  <1>1. /\ granted' = granted /\ following' = following /\ asked' = asked /\ asking' = asking
        /\ bound' = bound /\ closing' = closing /\ active' = active /\ last' = last
        /\ job' = job /\ wire' = wire /\ knows' = knows /\ raised' = raised
        /\ changing' = changing /\ link' = link /\ misled' = misled /\ crossed' = crossed
        /\ known' = known
    BY DEF allVars, vars, followingVars, rosters, tables, counts
  <1>2. FollowingTyped' /\ BoundKnown'
    BY <1>1 DEF FollowingInv, FollowingTyped, BoundKnown
  <1>3. ASSUME ~raised'
        PROVE  Consistent'
    <2>1. Consistent
      BY <1>1, <1>3 DEF FollowingInv
    <2>2. JobsStaged'
      <3>1. /\ \A m : Allowed(m) => Allowed(m)'
            /\ \A u, v : Over(u, v) => Over(u, v)'
            /\ \A m, v : ChangeItem(m, v) => ChangeItem(m, v)'
        BY <1>1, Aging DEF Ages
      <3>2. \A items, u, v : TellsOfAll(items, u, v)' <=> TellsOfAll(items, u, v)
        BY <1>1 DEF TellsOfAll
      <3>3. \A d \in Client : RoutesPresence(d) => RoutesPresence(d)'
        BY <1>1, <3>1 DEF RoutesPresence
      <3>4. \A d \in Client : RoutesChange(d) => RoutesChange(d)'
        BY <1>1, <3>1, <3>2 DEF RoutesChange
      <3>5. \A d \in Client, u \in User : Answering(d, u) => Answering(d, u)'
        BY <1>1, <3>1, <3>2 DEF Answering, Advertises
      <3>. QED
        BY <1>1, <2>1, <3>3, <3>4, <3>5 DEF Consistent, JobsStaged, JobStaged
    <2>3. LinkStaged' /\ WireAllowed' /\ Exclusive'
      BY <1>1, <2>1 DEF Consistent, LinkStaged, WireAllowed, Exclusive, Allowed, Over
    <2>4. \A d \in Client : (Recorded(d)' <=> Recorded(d)) /\ Due(d)' = Due(d)
      BY <1>1 DEF Recorded, Due
    <2>5. GoneWhenInactive'
      BY <1>1, <2>1, <2>4 DEF Consistent, GoneWhenInactive, Gone, InNews
    <2>6. NotYetTold' /\ NewsArrives'
      BY <1>1, <2>1, <2>4 DEF Consistent, Knowledge, NotYetTold, NewsArrives, OnItsWay,
                              Informed, Current
    <2>7. OverIsTold'
      BY <1>1, <2>1 DEF Consistent, Knowledge, OverIsTold, Over, ToPart, LinkParts, Parts, Hushed
    <2>8. ApprovalsInform' /\ FollowersLearn'
      BY <1>1, <2>1, <2>4 DEF Consistent, Knowledge, ApprovalsInform, FollowersLearn, OnItsWay,
                              Learns, Probing
    <2>. QED
      BY <2>2, <2>3, <2>5, <2>6, <2>7, <2>8 DEF Consistent, Knowledge
  <1>. QED
    BY <1>2, <1>3 DEF FollowingInv

LEMMA FollowingBegin == FollowingInit => FollowingInv
  <1>. SUFFICES ASSUME FollowingInit
                PROVE  FollowingInv
    OBVIOUS
  <1>1. /\ granted = Follows /\ following = Follows /\ asked = Asks /\ asking = Asks
        /\ bound = {} /\ wire = <<>> /\ link = LinkIdle
        /\ closing = [c \in Client |-> FALSE] /\ active = [c \in Client |-> FALSE]
        /\ last = [c \in Client |-> "none"] /\ job = [c \in Client |-> Idle]
        /\ changing = [c \in Client |-> {}] /\ raised = FALSE
        /\ knows = [c \in Client |-> [d \in Client |-> "none"]]
    BY DEF FollowingInit, Init
  <1>2. Follows \subseteq User \X User /\ Asks \subseteq (User \X User) \ Follows
    BY PresenceAssumption, FollowingAssumption
  <1>3. Idle \in FollowingJob /\ Idle.at = "idle" /\ LinkIdle \in LinkJob /\ LinkIdle.at = "idle"
    BY IdleTyped DEF Idle, LinkIdle
  <1>4. wire \in Seq(Stanza) /\ ToSet(wire) = {} /\ Len(wire) = 0
    BY <1>1 DEF ToSet
  <1>5. FollowingTyped
    BY <1>1, <1>2, <1>3, <1>4 DEF FollowingTyped, Presence
  <1>6. \A c \in Client : /\ job[c] = Idle /\ job[c].at = "idle" /\ changing[c] = {}
                          /\ last[c] = "none" /\ \A d \in Client : knows[c][d] = "none"
    BY <1>1, <1>3
  <1>. HIDE DEF Idle
  <1>7. JobsStaged
    BY <1>6 DEF JobsStaged, JobStaged
  <1>8. LinkStaged /\ WireAllowed /\ Exclusive
    BY <1>1, <1>2, <1>3, <1>4 DEF LinkStaged, WireAllowed, Exclusive
  <1>9. \A d \in Client : ~Recorded(d) /\ Due(d) = "unavailable"
    BY <1>1 DEF Recorded, Due
  <1>10. GoneWhenInactive
    BY <1>6, <1>9 DEF GoneWhenInactive, Gone, InNews
  <1>11. \A v : \A c, d \in Client : LatestIs(wire, c, d, v)
    BY <1>4 DEF LatestIs
  <1>12. Knowledge
    BY <1>1, <1>6, <1>9, <1>11 DEF Knowledge, NotYetTold, NewsArrives, OverIsTold,
       ApprovalsInform, FollowersLearn, Current, Hushed
  <1>. QED
    BY <1>1, <1>5, <1>7, <1>8, <1>10, <1>12 DEF FollowingInv, BoundKnown, Consistent

LEMMA FollowingInvariant == FollowingSafety => []FollowingInv
  BY FollowingBegin, FollowingStep, FollowingStutter, PTL DEF FollowingSafety

-----------------------------------------------------------------------------
(* Correctness.                                                             *)

(* When all is settled nobody is telling, or about to tell, anything.       *)
LEMMA SettledFacts ==
  ASSUME FollowingInv, Settled, ~raised
  PROVE  /\ Consistent
         /\ \A c, d \in Client : Silent(wire, c, d) /\ ~OnItsWay(d, UserOf[c])
         /\ \A u \in User, d \in Client : ~ToPart(u, d) /\ ~Probing(d, u)
         /\ \A m : m \notin ToSet(wire)
  <1>1. Consistent
    BY DEF FollowingInv
  <1>2. ToSet(wire) = {} /\ link.at = "idle" /\ \A c \in Client : job[c].at = "idle"
    BY DEF Settled, Quiet, ToSet
  <1>3. \A c \in Client : changing[c] = {}
    BY <1>1, <1>2 DEF Consistent, JobsStaged, JobStaged
  <1>. QED
    BY <1>1, <1>2, <1>3 DEF Silent, OnItsWay, ToPart, LinkParts, Parts, Probing

(* Once all is settled and no handler has raised, an active client that     *)
(* follows a user knows the latest presence of every resource of the user,  *)
(* whether the approval came before the client, after it, or while the      *)
(* resource was changing its presence (presence.py:699-708, :150-163).      *)
THEOREM FollowedShownHolds == FollowingSafety => []FollowedShown
  <1>1. FollowingInv => FollowedShown
    <2>. SUFFICES ASSUME FollowingInv, Settled, ~raised, NEW c \in bound, NEW d \in bound,
                         active[c], Pair(c, d) \in following, Pair(c, d) \in granted,
                         Pair(c, d) \notin crossed, last[d] # "none", d \notin misled
                  PROVE  knows[c][d] = last[d]
      BY DEF FollowedShown, Pair
    <2>1. c \in Client /\ d \in Client /\ Recorded(d) /\ Due(d) = last[d]
      BY DEF FollowingInv, FollowingTyped, Recorded, Due
    <2>2. UserOf[c] \in User /\ UserOf[d] \in User
      BY <2>1, PairFacts
    <2>3. Consistent /\ Silent(wire, c, d) /\ ~OnItsWay(d, UserOf[c]) /\ ~Probing(c, UserOf[d])
      BY <2>1, <2>2, SettledFacts
    <2>4. Learns(c, d) /\ \A m : m \notin ToSet(wire)
      BY <2>1, <2>3, SettledFacts DEF Consistent, Knowledge, FollowersLearn
    <2>5. knows[c][d] # "none"
      BY <2>3, <2>4 DEF Learns
    <2>6. Current(c, d)
      BY <2>1, <2>3 DEF Consistent, Knowledge, NewsArrives, Informed
    <2>. QED
      BY <2>1, <2>3, <2>5, <2>6 DEF Current
  <1>. QED
    BY <1>1, FollowingInvariant, PTL

(* Once all is settled and no handler has raised, no client shows as online *)
(* a resource that has ended, or one of a user who has refused, cancelled or*)
(* never granted it, or has removed the contact (presence.py:823-832,       *)
(* :444-460, iq.py).                                                        *)
THEOREM OverIsHiddenHolds == FollowingSafety => []OverIsHidden
  <1>1. FollowingInv => OverIsHidden
    <2>. SUFFICES ASSUME FollowingInv, Settled, ~raised, NEW c \in bound, NEW d \in Client,
                         UserOf[c] # UserOf[d], Pair(c, d) \notin crossed, d \notin misled,
                         d \notin bound \/ Pair(c, d) \notin granted
                  PROVE  knows[c][d] \in {"none", "unavailable"}
      BY DEF OverIsHidden, Pair
    <2>1. c \in Client
      BY DEF FollowingInv, FollowingTyped
    <2>2. UserOf[c] \in User /\ UserOf[d] \in User
      BY <2>1, PairFacts
    <2>3. /\ Consistent /\ Silent(wire, c, d) /\ ~OnItsWay(d, UserOf[c])
          /\ ~ToPart(UserOf[c], d)
      BY <2>1, <2>2, SettledFacts
    <2>4. CASE Pair(c, d) \in granted
      <3>1. Due(d) = "unavailable"
        BY <2>4 DEF Due, Recorded
      <3>2. Current(c, d)
        BY <2>1, <2>3, <2>4 DEF Consistent, Knowledge, NewsArrives
      <3>. QED
        BY <2>3, <3>1, <3>2 DEF Current
    <2>5. CASE Pair(c, d) \in asked
      BY <2>1, <2>3, <2>5 DEF Consistent, Knowledge, NotYetTold
    <2>6. CASE Over(UserOf[c], UserOf[d])
      <3>1. Hushed(c, d)
        BY <2>1, <2>3, <2>6 DEF Consistent, Knowledge, OverIsTold
      <3>. QED
        BY <2>3, <3>1 DEF Hushed
    <2>. QED
      BY <2>4, <2>5, <2>6 DEF Over, Pair
  <1>. QED
    BY <1>1, FollowingInvariant, PTL
=============================================================================
