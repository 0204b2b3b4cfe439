----------------------------- MODULE Following ------------------------------
(***************************************************************************)
(* Presence composed with the subscriptions it goes by: what the approval,  *)
(* the refusal and the end of a subscription make of the presence that      *)
(* other users' clients show (c2s-subscription and s2s-subscription,        *)
(* handlers/presence.py, and the removal of a contact, handlers/iq.py).     *)
(* All the states of a roster row are module Subscriptions; here a row is   *)
(* subscribed, asked for, or neither.                                       *)
(*                                                                          *)
(* The handlers run in workers: they change a row, and before or after they *)
(* look at data['resources'] for what to tell the other side; then the main *)
(* loop routes it.  A row is read and changed in one step here, and no new  *)
(* request is made; both are in Subscriptions.                              *)
(***************************************************************************)
EXTENDS Presence

CONSTANTS
  Asks,        \* pairs <<u, v>>: at first v has not answered u's request
  MaxChanges   \* bound: answers, withdrawals and cancellations of clients

ASSUME FollowingAssumption ==
  /\ Asks \subseteq (User \X User) \ Follows
  /\ MaxChanges \in Nat

VARIABLES
  asking,      \* pairs <<u, v>>: the roster of u has v with "ask"
  asked,       \* pairs <<u, v>>: the roster of v has u as pending in
  changing,    \* changing[c]: the other user of the c2s-subscription of c
  link,        \* s2s-subscription on the connection the server has to itself
  changes,     \* requests of clients so far
  known,       \* users with a key in data['resources']: a resource was bound
  misled,      \* history: resources advertised as something they were not
  crossed      \* history: pairs whose presence crossed the end of a subscription

followingVars == <<asking, asked, changing, link, changes>>
allVars == <<vars, followingVars, known, misled, crossed>>

LinkIdle == [at |-> "idle", pair |-> <<>>, seen |-> 0, items |-> <<>>]

FollowingInit ==
  /\ Init
  /\ asking = Asks /\ asked = Asks
  /\ changing = [c \in Client |-> {}]
  /\ link = LinkIdle
  /\ changes = 0
  /\ known = {}
  /\ misled = {} /\ crossed = {}

-----------------------------------------------------------------------------
(* What users are told of each other's resources.                           *)

(* A presence for all that are bound, whatever they have last sent.         *)
Advertise(u, v, show) ==
  LET resources == SetToSeq(Resources(v))
  IN [i \in DOMAIN resources |->
        [kind |-> "presence", from |-> resources[i], show |-> show, to |-> u, route |-> u]]

Change(kind, u, v) ==
  [kind |-> kind, from |-> u, show |-> "none", to |-> v, route |-> v]

-----------------------------------------------------------------------------
(* c2s-subscription on the connection c: "subscribed", "unsubscribed" and   *)
(* "unsubscribe" for the other user u; and iq-roster-update that removes u. *)

MayChange(c) ==
  /\ c \in bound /\ ~closing[c]
  /\ job[c].at = "idle"
  /\ changes < MaxChanges

Subscribed(c, u) ==
  LET pair == <<u, UserOf[c]>>
  IN /\ MayChange(c) /\ pair \in asked
     /\ changes' = changes + 1
     /\ asked' = asked \ {pair} /\ granted' = granted \cup {pair}
     /\ job' = [job EXCEPT ![c] = [Idle EXCEPT !.at = "list", !.show = "available"]]
     /\ changing' = [changing EXCEPT ![c] = {u}]
     /\ UNCHANGED <<following, asking, tables, wire, knows, raised, counts, link>>

Unsubscribed(c, u) ==
  LET pair == <<u, UserOf[c]>>
  IN /\ MayChange(c) /\ pair \in asked \cup granted
     /\ changes' = changes + 1
     /\ asked' = asked \ {pair} /\ granted' = granted \ {pair}
     /\ job' = [job EXCEPT ![c] = [Idle EXCEPT !.at = "list", !.show = "unavailable"]]
     /\ changing' = [changing EXCEPT ![c] = {u}]
     /\ UNCHANGED <<following, asking, tables, wire, knows, raised, counts, link>>

(* A row that is "from" as well keeps its request: there is no branch for it*)
(* ("from" with pending out), and the answer of the other side ends it.     *)
Unsubscribe(c, u) ==
  LET pair == <<UserOf[c], u>>
  IN /\ MayChange(c) /\ u # UserOf[c]
     /\ changes' = changes + 1
     /\ asking' = IF <<u, UserOf[c]>> \in granted THEN asking ELSE asking \ {pair}
     /\ following' = following \ {pair}
     /\ job' = [job EXCEPT ![c] =
          [Idle EXCEPT !.at = "route", !.items = <<Change("unsubscribe", UserOf[c], u)>>,
                       !.handlers = 1]]
     /\ UNCHANGED <<granted, asked, changing, tables, wire, knows, raised, counts, link>>

(* A removal looks at the resources first: its row is as yet unchanged.     *)
RemoveContact(c, u) ==
  /\ MayChange(c) /\ u # UserOf[c]
  /\ changes' = changes + 1
  /\ job' = [job EXCEPT ![c] = [Idle EXCEPT !.at = "list", !.show = "none"]]
  /\ changing' = [changing EXCEPT ![c] = {u}]
  /\ UNCHANGED <<rosters, asking, asked, tables, wire, knows, raised, counts, link>>

(* The resources are iterated over, in a worker.                            *)
List(c) ==
  /\ job[c].at = "list"
  /\ job' = [job EXCEPT ![c].at = "listing", ![c].seen = Cardinality(Resources(UserOf[c]))]
  /\ UNCHANGED <<rosters, tables, wire, knows, raised, counts, asking, asked, changing, link,
                 changes>>

(* If their number changes meanwhile the handler raises,                    *)
ListRaise(c) ==
  /\ job[c].at = "listing"
  /\ Cardinality(Resources(UserOf[c])) # job[c].seen
  /\ job' = [job EXCEPT ![c] = Idle]
  /\ changing' = [changing EXCEPT ![c] = {}]
  /\ raised' = TRUE
  /\ UNCHANGED <<rosters, tables, wire, knows, counts, asking, asked, link, changes>>

Verdict(c) == IF job[c].show = "available" THEN "subscribed" ELSE "unsubscribed"

(* Mutant of Listed: the other user is not told of the resources.           *)
ListedNone(c, u) == <<Change(Verdict(c), UserOf[c], u)>>

(* otherwise the answer and a presence of each are one text to route.       *)
Listed(c, u) ==
  <<Change(Verdict(c), UserOf[c], u)>> \o Advertise(u, UserOf[c], job[c].show)

(* The items of a job are routed last one first.                            *)
ListDone(c) ==
  /\ job[c].at = "listing" /\ job[c].show # "none"
  /\ Cardinality(Resources(UserOf[c])) = job[c].seen
  /\ \E u \in changing[c] :
       job' = [job EXCEPT ![c].at = "route", ![c].items = Reverse(Listed(c, u)),
                          ![c].handlers = Len(Listed(c, u))]
  /\ changing' = [changing EXCEPT ![c] = {}]
  /\ UNCHANGED <<rosters, tables, wire, knows, raised, counts, asking, asked, link, changes>>

Parted(c, u) ==
  <<Change("unsubscribe", UserOf[c], u), Change("unsubscribed", UserOf[c], u)>>
  \o Advertise(u, UserOf[c], "unavailable")

RemoveListed(c) ==
  /\ job[c].at = "listing" /\ job[c].show = "none"
  /\ Cardinality(Resources(UserOf[c])) = job[c].seen
  /\ \E u \in changing[c] :
       job' = [job EXCEPT ![c].at = "remove", ![c].items = Reverse(Parted(c, u)),
                          ![c].handlers = Len(Parted(c, u))]
  /\ UNCHANGED <<rosters, tables, wire, knows, raised, counts, followingVars>>

RemoveRow(c) ==
  /\ job[c].at = "remove"
  /\ \E u \in changing[c] :
       /\ granted' = granted \ {<<u, UserOf[c]>>} /\ asked' = asked \ {<<u, UserOf[c]>>}
       /\ following' = following \ {<<UserOf[c], u>>} /\ asking' = asking \ {<<UserOf[c], u>>}
  /\ changing' = [changing EXCEPT ![c] = {}]
  /\ job' = [job EXCEPT ![c].at = "route"]
  /\ UNCHANGED <<tables, wire, knows, raised, counts, link, changes>>

-----------------------------------------------------------------------------
(* s2s-subscription, for the next stanza of the S2S connection; the next one*)
(* waits until it has come to its end.                                      *)

NextIs(kind) == link.at = "idle" /\ wire # <<>> /\ Head(wire).kind = kind

(* The approval of a request that has not been withdrawn.                   *)
S2SSubscribed ==
  LET pair == <<Head(wire).to, Head(wire).from>>
  IN /\ NextIs("subscribed")
     /\ wire' = Tail(wire)
     /\ asking' = asking \ {pair}
     /\ following' = IF pair \in asking THEN following \cup {pair} ELSE following
     /\ UNCHANGED <<granted, asked, tables, job, knows, raised, counts, changing, link,
                    changes>>

S2SUnsubscribed ==
  LET pair == <<Head(wire).to, Head(wire).from>>
  IN /\ NextIs("unsubscribed")
     /\ wire' = Tail(wire)
     /\ asking' = asking \ {pair} /\ following' = following \ {pair}
     /\ UNCHANGED <<granted, asked, tables, job, knows, raised, counts, changing, link,
                    changes>>

(* A subscription ends from the other side, which is answered once the      *)
(* user's resources have been looked at.                                    *)
S2SUnsubscribe ==
  LET pair == <<Head(wire).from, Head(wire).to>>
  IN /\ NextIs("unsubscribe")
     /\ wire' = Tail(wire)
     /\ asked' = asked \ {pair} /\ granted' = granted \ {pair}
     /\ link' = IF pair \in asked \cup granted
                THEN [LinkIdle EXCEPT !.at = "list", !.pair = pair] ELSE link
     /\ UNCHANGED <<following, asking, tables, job, knows, raised, counts, changing, changes>>

LinkList ==
  /\ link.at = "list"
  /\ link' = [link EXCEPT !.at = "listing", !.seen = Cardinality(Resources(link.pair[2]))]
  /\ UNCHANGED <<vars, asking, asked, changing, changes>>

LinkRaise ==
  /\ link.at = "listing"
  /\ Cardinality(Resources(link.pair[2])) # link.seen
  /\ link' = LinkIdle
  /\ raised' = TRUE
  /\ UNCHANGED <<rosters, tables, job, wire, knows, counts, asking, asked, changing, changes>>

(* Mutant of Ended: the resources of the wrong user.                        *)
EndedSwapped(u, v) ==
  IF v \notin known THEN <<>>
  ELSE <<[Change("unsubscribed", v, u) EXCEPT !.route = v]>> \o Advertise(v, u, "unavailable")

(* "unsubscribed", routed by the address of the user itself, and that the   *)
(* resources are unavailable.  The push of the changed row comes before: it *)
(* raises for a user who has never bound a resource, and the rest of the    *)
(* chain is left out.                                                       *)
Ended(u, v) ==
  IF v \notin known THEN <<>>
  ELSE <<[Change("unsubscribed", v, u) EXCEPT !.route = v]>> \o Advertise(u, v, "unavailable")

LinkDone ==
  /\ link.at = "listing"
  /\ Cardinality(Resources(link.pair[2])) = link.seen
  /\ link' = [link EXCEPT !.at = "route", !.items = Ended(link.pair[1], link.pair[2])]
  /\ UNCHANGED <<vars, asking, asked, changing, changes>>

LinkRoute ==
  /\ link.at = "route"
  /\ link' = LinkIdle
  /\ wire' = wire \o link.items
  /\ UNCHANGED <<rosters, tables, job, knows, raised, counts, asking, asked, changing, changes>>

-----------------------------------------------------------------------------
(* History: the steps that put on the wire what the tables contradict.      *)

Shown(items) ==
  {items[i] : i \in {j \in DOMAIN items : items[j].show \in {"available", "away"}}}

(* Resources of which the items say other than they have said last.         *)
Misleading(items) == {m.from : m \in {n \in Shown(items) : last[n.from] # n.show}}

UserAt(a) == IF a \in User THEN a ELSE UserOf[a]

(* Pairs of which the second shows itself, and has not granted it.          *)
Ungranted(items) ==
  {p \in {<<UserAt(m.to), UserOf[m.from]>> : m \in Shown(items)} : p[1] # p[2]} \ granted

(* Pairs that are being parted, v's resources still to be looked at.        *)
Parting(v) ==
  {<<u, v>> : u \in UNION {changing[c] :
     c \in {d \in Client : UserOf[d] = v /\ job[d].show = "unavailable"}}}
  \cup {p \in {link.pair} : link.at \in {"list", "listing"} /\ p[2] = v}

(* Pairs that a removal is parting, v's resources already looked at.        *)
Removing(v) ==
  {<<u, v>> : u \in UNION {changing[c] :
     c \in {d \in Client : /\ UserOf[d] = v /\ job[d].show = "none"
                           /\ job[d].at \in {"listing", "remove"}}}}

(* Pairs that v approves, its resources already looked at.                  *)
Approving(v) ==
  {<<m.to, v>> : m \in {n \in UNION {ToSet(job[c].items) :
     c \in {d \in Client : UserOf[d] = v /\ job[d].at = "route"}} : n.kind = "subscribed"}}

-----------------------------------------------------------------------------
Binds(c) ==
  /\ Bind(c)
  /\ known' = known \cup {UserOf[c]}
  /\ crossed' = crossed \cup Removing(UserOf[c]) \cup Approving(UserOf[c])
  /\ UNCHANGED <<followingVars, misled>>

Routes(c) ==
  /\ RouteOut(c)
  /\ misled' = misled \cup Misleading(job[c].items)
  /\ crossed' = crossed \cup Ungranted(job[c].items)
                         \cup (IF c \in bound' THEN {} ELSE Parting(UserOf[c]))
  /\ UNCHANGED <<followingVars, known>>

Ends(c) ==
  /\ StreamEnd(c)
  /\ crossed' = crossed \cup (IF c \in bound' THEN {} ELSE Parting(UserOf[c]))
  /\ UNCHANGED <<followingVars, known, misled>>

(* s2s-probe answers whoever asks.                                          *)
AnswersProbe ==
  /\ link.at = "idle" /\ DeliverProbe
  /\ crossed' = crossed \cup Ungranted(SubSeq(wire', Len(wire), Len(wire')))
  /\ UNCHANGED <<followingVars, known, misled>>

PresenceStep ==
  \/ link.at = "idle" /\ DeliverPresence
  \/ \E c \in Client : Act(c) \/ Raise(c) \/ Record(c)
  \/ \E c \in Client, show \in Show : SendPresence(c, show)

SubscriptionStep ==
  \/ \E c \in Client, u \in User :
       Subscribed(c, u) \/ Unsubscribed(c, u) \/ Unsubscribe(c, u) \/ RemoveContact(c, u)
  \/ \E c \in Client :
       List(c) \/ ListRaise(c) \/ ListDone(c) \/ RemoveListed(c) \/ RemoveRow(c)
  \/ S2SSubscribed \/ S2SUnsubscribed \/ S2SUnsubscribe
  \/ LinkList \/ LinkRaise \/ LinkDone \/ LinkRoute

FollowingNext ==
  \/ AnswersProbe
  \/ \E c \in Client : Binds(c) \/ Routes(c) \/ Ends(c)
  \/ PresenceStep /\ UNCHANGED <<followingVars, known, misled, crossed>>
  \/ SubscriptionStep /\ UNCHANGED <<known, misled, crossed>>

FollowingSafety == FollowingInit /\ [][FollowingNext]_allVars

Settled == Quiet /\ link.at = "idle"

-----------------------------------------------------------------------------
(* Once all is settled and no handler has raised:                           *)

(* an active client that follows a user, an approval of whom may have come  *)
(* while either was changing presence, knows the latest presence of every   *)
(* resource (presence.py:699-708 advertises, :150-163 sends to subscribers);*)
(* except of resources that the approval advertised as something else, and  *)
(* of users of whom a resource was bound too late to be advertised, before  *)
(* the approval went out.                                                   *)
FollowedShown ==
  Settled /\ ~raised => \A c, d \in bound :
    /\ active[c] /\ ~closing[c] /\ ~closing[d]
    /\ <<UserOf[c], UserOf[d]>> \in following \cap granted
    /\ <<UserOf[c], UserOf[d]>> \notin crossed
    /\ last[d] # "none" /\ d \notin misled
    => knows[c][d] = last[d]

(* no client shows as online a resource that is gone, or one of a user who  *)
(* has not granted it or no longer (presence.py:823-832 and :444-460 tell   *)
(* it so); except after an advertisement of something else, or for two users*)
(* whose presence crossed the end of their subscription: presence whose     *)
(* handler had read the subscribers before, an answer to a probe, or a      *)
(* resource that ended before its user's resources were looked at.          *)
OverIsHidden ==
  Settled /\ ~raised => \A c \in bound, d \in Client :
    LET pair == <<UserOf[c], UserOf[d]>>
    IN /\ pair[1] # pair[2] /\ pair \notin crossed
       /\ d \notin misled
       /\ d \notin bound \/ pair \notin granted
       => knows[c][d] \in {"none", "unavailable"}

-----------------------------------------------------------------------------
(* What does not hold.                                                      *)

(* "for these, we want to broadcast their unavailable presence"             *)
(* (stream.py:237): what is gone shows as online nowhere.  An approval      *)
(* advertises resources that have sent no presence as available, and the    *)
(* end of such a one is not told to anybody.                                *)
GoneAnyhow ==
  Settled /\ ~raised => \A c \in bound, d \in Client \ bound :
    UserOf[c] # UserOf[d] => knows[c][d] \in {"none", "unavailable"}

(* Whoever is not or no longer granted the presence of a user has been told *)
(* that all of the user's resources are unavailable.                        *)
PartedAnyhow ==
  Settled /\ ~raised => \A c, d \in bound :
    UserOf[c] # UserOf[d] /\ <<UserOf[c], UserOf[d]>> \notin granted
    => knows[c][d] \in {"none", "unavailable"}
=============================================================================
