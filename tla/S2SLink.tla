------------------------------- MODULE S2SLink -------------------------------
(***************************************************************************)
(* The connection the server has to itself: every stanza from one local user*)
(* to another goes out through route-server and comes back in through the   *)
(* S2S server (handlers/route.py, new-s2s-conn of handlers/stream.py,       *)
(* S2SServer of server.py, the local connections of connection.py).         *)
(*                                                                          *)
(* route-server and the accept run in the main loop; the connection is made *)
(* by new-s2s-conn, in a worker.  A source handles one stanza at a time (see*)
(* Engine); the sources interleave.                                         *)
(***************************************************************************)
EXTENDS Naturals, Sequences, SequencesExt, FiniteSets

CONSTANTS
  Source,        \* connections whose stanzas are routed
  Domain,        \* the domains of the addressees: "localhost" and others
  MaxStanzas,    \* bound: stanzas of one source
  MaxOutside,    \* bound: connections made to the S2S port by others
  MaxBreaks      \* bound: connections that fail

ASSUME S2SLinkAssumption ==
  /\ IsFiniteSet(Source)
  /\ MaxStanzas \in Nat /\ MaxOutside \in Nat /\ MaxBreaks \in Nat

VARIABLES
  stage,       \* stage[c]: what the handler of c's stanza does next
  stanzas,     \* stanzas[c]: stanzas of c so far; the last is being handled
  newConn,     \* newConn[c]: data['new-s2s-conn'] of c's connection has the address
               \* and the local flag (they are set together)
  mine,        \* mine[c]: the socket new-s2s-conn has connected
  made,        \* sockets connected so far (numbers them)
  entry,       \* s2sConns['localhost'], the sockets of [in, out] (0 for None)
  accepted,    \* the sockets the S2S server has accepted
  wire,        \* what was sent on a socket and is not read yet
  broken,      \* sockets closed after an error
  delivered,   \* history: stanzas dispatched by the S2S server
  lost,        \* history: stanzas dropped, or whose handler raised
  outside      \* connections made by others

vars == <<stage, stanzas, newConn, mine, made, entry, accepted, wire, broken,
          delivered, lost, outside>>

NoEntry == [in |-> 0, out |-> 0, key |-> FALSE]

(* Each source makes at most one socket for each of its stanzas.            *)
Socket == 1..(MaxStanzas * Cardinality(Source))
Stanza == [from : Source, num : 1..MaxStanzas, domain : Domain]

(* The types of the state: what is on a socket are stanzas.                 *)
TypeOK ==
  /\ stage \in [Source -> {"idle", "connect", "register", "send"}]
  /\ stanzas \in [Source -> Seq(Stanza)]
  /\ \A c \in Source : Len(stanzas[c]) <= MaxStanzas
  /\ newConn \in [Source -> BOOLEAN]
  /\ mine \in [Source -> Socket \cup {0}]
  /\ made \in Socket \cup {0}
  /\ entry \in [in : Socket \cup {0}, out : Socket \cup {0}, key : BOOLEAN]
  /\ accepted \subseteq Socket
  /\ wire \in [Socket -> Seq(Stanza)]
  /\ broken \subseteq Socket
  /\ delivered \in Seq(Stanza)
  /\ lost \subseteq Stanza
  /\ outside \in 0..MaxOutside

Init ==
  /\ stage = [c \in Source |-> "idle"]
  /\ stanzas = [c \in Source |-> <<>>]
  /\ newConn = [c \in Source |-> FALSE]
  /\ mine = [c \in Source |-> 0]
  /\ made = 0
  /\ entry = NoEntry
  /\ accepted = {}
  /\ wire = [k \in Socket |-> <<>>]
  /\ broken = {}
  /\ delivered = <<>> /\ lost = {}
  /\ outside = 0

Current(c) == stanzas[c][Len(stanzas[c])]

(* send() on a socket that is closed raises, and the stanza is lost.        *)
SendOn(k, m) ==
  IF k \in broken THEN lost' = lost \cup {m} /\ UNCHANGED wire
                  ELSE wire' = [wire EXCEPT ![k] = Append(@, m)] /\ UNCHANGED lost

-----------------------------------------------------------------------------
(* route-server.  The key in s2sConns is taken for a connection; without it *)
(* new-s2s-conn is scheduled.  What it is told is kept in the data of the   *)
(* source's connection, and only ever added to.                             *)
Route(c, d) ==
  LET m == [from |-> c, num |-> Len(stanzas[c]) + 1, domain |-> d]
  IN /\ stage[c] = "idle"
     /\ Len(stanzas[c]) < MaxStanzas
     /\ stanzas' = [stanzas EXCEPT ![c] = Append(@, m)]
     /\ IF d = "localhost" /\ entry.key
        THEN /\ IF entry.out = 0 THEN lost' = lost \cup {m} /\ UNCHANGED wire
                                 ELSE SendOn(entry.out, m)
             /\ UNCHANGED <<stage, newConn>>
        ELSE /\ newConn' = [newConn EXCEPT ![c] = @ \/ d = "localhost"]
             /\ stage' = [stage EXCEPT ![c] = "connect"]
             /\ UNCHANGED <<lost, wire>>
     /\ UNCHANGED <<mine, made, entry, accepted, broken, delivered, outside>>

(* Mutant of GiveUp: the handler is never done.                             *)
GiveUpSilently(c) ==
  /\ stage[c] = "connect"
  /\ ~newConn[c]
  /\ lost' = lost \cup {Current(c)}
  /\ UNCHANGED <<stage, stanzas, newConn, mine, made, entry, accepted, wire, broken,
                 delivered, outside>>

(* new-s2s-conn: without an address it gives up.                            *)
GiveUp(c) ==
  /\ stage[c] = "connect"
  /\ ~newConn[c]
  /\ lost' = lost \cup {Current(c)}
  /\ stage' = [stage EXCEPT ![c] = "idle"]
  /\ UNCHANGED <<stanzas, newConn, mine, made, entry, accepted, wire, broken, delivered,
                 outside>>

Connect(c) ==
  /\ stage[c] = "connect"
  /\ newConn[c]
  /\ made' = made + 1
  /\ mine' = [mine EXCEPT ![c] = made + 1]
  /\ stage' = [stage EXCEPT ![c] = "register"]
  /\ UNCHANGED <<stanzas, newConn, entry, accepted, wire, broken, delivered, lost, outside>>

(* Mutant of Register: the key without the connection.                      *)
RegisterKey(c) ==
  /\ stage[c] = "register"
  /\ entry' = [entry EXCEPT !.key = TRUE]
  /\ stage' = [stage EXCEPT ![c] = "send"]
  /\ UNCHANGED <<stanzas, newConn, mine, made, accepted, wire, broken, delivered, lost,
                 outside>>

(* createLocalOutConnection                                                 *)
Register(c) ==
  /\ stage[c] = "register"
  /\ entry' = [entry EXCEPT !.out = mine[c], !.key = TRUE]
  /\ stage' = [stage EXCEPT ![c] = "send"]
  /\ UNCHANGED <<stanzas, newConn, mine, made, accepted, wire, broken, delivered, lost,
                 outside>>

SendQueue(c) ==
  /\ stage[c] = "send"
  /\ SendOn(mine[c], Current(c))
  /\ stage' = [stage EXCEPT ![c] = "idle"]
  /\ UNCHANGED <<stanzas, newConn, mine, made, entry, accepted, broken, delivered, outside>>

-----------------------------------------------------------------------------
(* Mutant of Accept: an accept that finds no connection counts as one.      *)
AcceptNone ==
  LET k == Cardinality(accepted) + 1
  IN /\ accepted' = accepted \cup {k}
     /\ entry' = [entry EXCEPT !.in = k, !.key = TRUE]
     /\ UNCHANGED <<stage, stanzas, newConn, mine, made, wire, broken, delivered, lost,
                    outside>>

(* handle_accept, in the order of the connections.                          *)
Accept ==
  LET k == Cardinality(accepted) + 1
  IN /\ k <= made
     /\ accepted' = accepted \cup {k}
     /\ entry' = [entry EXCEPT !.in = k, !.key = TRUE]
     /\ UNCHANGED <<stage, stanzas, newConn, mine, made, wire, broken, delivered, lost,
                    outside>>

(* A connection that somebody else makes is recorded under 'localhost' too. *)
AcceptOutside ==
  /\ outside < MaxOutside
  /\ outside' = outside + 1
  /\ entry' = [entry EXCEPT !.in = 0, !.key = TRUE]
  /\ UNCHANGED <<stage, stanzas, newConn, mine, made, accepted, wire, broken, delivered,
                 lost>>

(* Mutant of Deliver: what was read stays.                                  *)
DeliverAgain(k) ==
  /\ k \in accepted \ broken
  /\ wire[k] # <<>>
  /\ delivered' = Append(delivered, Head(wire[k]))
  /\ UNCHANGED <<stage, stanzas, newConn, mine, made, entry, accepted, wire, broken, lost,
                 outside>>

(* handle_read of a LocalServerInConnection dispatches what was sent.       *)
Deliver(k) ==
  /\ k \in accepted \ broken
  /\ wire[k] # <<>>
  /\ delivered' = Append(delivered, Head(wire[k]))
  /\ wire' = [wire EXCEPT ![k] = Tail(@)]
  /\ UNCHANGED <<stage, stanzas, newConn, mine, made, entry, accepted, broken, lost, outside>>

(* An exception while reading: handle_error closes the socket, and the other*)
(* end is closed on the end of file.  Neither leaves s2sConns.              *)
Break(k) ==
  /\ k \in accepted \ broken
  /\ Cardinality(broken) < MaxBreaks
  /\ broken' = broken \cup {k}
  /\ lost' = lost \cup ToSet(wire[k])
  /\ wire' = [wire EXCEPT ![k] = <<>>]
  /\ UNCHANGED <<stage, stanzas, newConn, mine, made, entry, accepted, delivered, outside>>

Worker(c) == GiveUp(c) \/ Connect(c) \/ Register(c) \/ SendQueue(c)
Read == Accept \/ \E k \in Socket : Deliver(k)

Next ==
  \/ \E c \in Source, d \in Domain : Route(c, d)
  \/ \E c \in Source : Worker(c)
  \/ Read
  \/ AcceptOutside
  \/ \E k \in Socket : Break(k)

Safety == Init /\ [][Next]_vars

(* The workers run; the main loop reads what there is to read.              *)
Spec == Safety /\ WF_vars(Read) /\ \A c \in Source : WF_vars(Worker(c))

-----------------------------------------------------------------------------
(* Correctness.                                                             *)

OnWire == UNION {ToSet(wire[k]) : k \in Socket}

(* Every stanza routed so far is in one place: being handled, on one socket,*)
(* delivered or lost; so none is delivered twice, whatever connections are  *)
(* made for it.                                                             *)
StanzasAccounted ==
  /\ IsInjective(delivered)
  /\ \A k \in Socket : IsInjective(wire[k])
  /\ \A j, k \in Socket : j # k => ToSet(wire[j]) \cap ToSet(wire[k]) = {}
  /\ \A c \in Source : \A n \in 1..Len(stanzas[c]) :
       LET m == stanzas[c][n]
           handled == stage[c] # "idle" /\ n = Len(stanzas[c])
       IN /\ handled \/ m \in OnWire \/ m \in ToSet(delivered) \/ m \in lost
          /\ ~(handled /\ (m \in OnWire \/ m \in ToSet(delivered) \/ m \in lost))
          /\ ~(m \in OnWire /\ (m \in ToSet(delivered) \/ m \in lost))
          /\ ~(m \in ToSet(delivered) /\ m \in lost)

(* While the server is left to itself and its connections hold, a local     *)
(* stanza is lost only where another one is between connecting and          *)
(* registering its socket.                                                  *)
LostOnlyWhileConnecting ==
  [][broken' = {} /\ outside = 0 =>
       \A m \in lost' \ lost : m.domain = "localhost" =>
         \E c \in Source : stage[c] = "register"]_vars

(* And every stanza is delivered or lost in the end.                        *)
AllHandled ==
  <>[](/\ OnWire = {}
       /\ \A c \in Source : stage[c] = "idle"
       /\ accepted = 1..made)

(* "do we have an existing connection to the domain?" (route.py:110): where *)
(* there is a key there is a connection to reuse.                           *)
ReuseFindsConnection == entry.key => entry.out # 0

(* "if we're connecting to ourselves, we don't need the <stream>" (stream.py*)
(* 168): the local connection carries stanzas for this server only.         *)
LocalOnlyForOurselves == \A k \in DOMAIN delivered : delivered[k].domain = "localhost"
=============================================================================
