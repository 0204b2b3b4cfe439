--------------------------- MODULE ConnectionProofs ---------------------------
(***************************************************************************)
(* Proofs about the connections to other servers, S2SLink, for every finite *)
(* set of sources, every set of domains and every bound, and about what a   *)
(* connection sends, SendBuffer: the buffer of a connection that only the   *)
(* main loop uses, for text of any length and width and chunks of any size. *)
(***************************************************************************)
EXTENDS S2SLink, SendBuffer, SequenceLemmas

-----------------------------------------------------------------------------
(* The server-to-server link: the inductive invariant.                      *)

(* A stanza is known by its source and its number; no two are the same.     *)
Numbered ==
  \A c \in Source : \A n \in 1..Len(stanzas[c]) :
    stanzas[c][n].from = c /\ stanzas[c][n].num = n

(* A handler that has not finished has a stanza, and one that has connected *)
(* has the socket.                                                          *)
Staged ==
  \A c \in Source :
    /\ stage[c] # "idle" => stanzas[c] # <<>>
    /\ mine[c] <= made
    /\ stage[c] \in {"register", "send"} => mine[c] > 0

(* The sockets are accepted in the order they were made; what was sent, was *)
(* sent on one that had been made.                                          *)
InOrder == accepted = 1..Cardinality(accepted) /\ Cardinality(accepted) <= made

(* Each socket was made for a stanza of its own, and none for one that is   *)
(* still to be connected: this is what bounds their number.                 *)
MadeFor(f) ==
  /\ \A j, k \in 1..made : f[j] = f[k] => j = k
  /\ \A k \in 1..made :
       LET c == f[k][1]
       IN f[k][2] <= Len(stanzas[c]) /\ (stage[c] = "connect" => f[k][2] < Len(stanzas[c]))

EachForItsStanza == \E f \in [1..made -> Source \X (1..MaxStanzas)] : MadeFor(f)

SocketInv == TypeOK /\ Numbered /\ Staged /\ InOrder /\ EachForItsStanza

(* What is on a socket, delivered or lost has been routed.                  *)
IsRouted(m) == \E c \in Source : \E n \in 1..Len(stanzas[c]) : m = stanzas[c][n]
OnlyRouted == \A m \in OnWire \cup ToSet(delivered) \cup lost : IsRouted(m)

IInv == SocketInv /\ OnlyRouted /\ StanzasAccounted

-----------------------------------------------------------------------------
(* The sockets.                                                             *)

LEMMA SocketType ==
  /\ MaxStanzas * Cardinality(Source) \in Nat
  /\ Socket \cup {0} = 0..(MaxStanzas * Cardinality(Source))
  /\ IsFiniteSet(Socket)
  <1>1. Cardinality(Source) \in Nat /\ MaxStanzas \in Nat
    BY S2SLinkAssumption, FS_CardinalityType
  <1>2. MaxStanzas * Cardinality(Source) \in Nat
    BY <1>1
  <1>. QED
    BY <1>2, FS_Interval DEF Socket

(* There are no more of them than stanzas.                                  *)
LEMMA MadeBounded ==
  ASSUME NEW n \in Nat, NEW f \in [1..n -> Source \X (1..MaxStanzas)],
         \A j, k \in 1..n : f[j] = f[k] => j = k
  PROVE  n \in Socket \cup {0}
  <1>1. f \in Injection(1..n, Source \X (1..MaxStanzas))
    BY DEF Injection, IsInjective
  <1>2. /\ IsFiniteSet(1..MaxStanzas) /\ Cardinality(1..MaxStanzas) = MaxStanzas
        /\ Cardinality(1..n) = n
    <2>1. MaxStanzas \in Nat
      BY S2SLinkAssumption
    <2>2. \A k \in Nat : IsFiniteSet(1..k) /\ Cardinality(1..k) = k
      BY FS_Interval
    <2>. QED
      BY <2>1, <2>2
  <1>3. /\ IsFiniteSet(Source \X (1..MaxStanzas))
        /\ Cardinality(Source \X (1..MaxStanzas)) = Cardinality(Source) * MaxStanzas
    <2>1. IsFiniteSet(Source)
      BY S2SLinkAssumption
    <2>2. /\ IsFiniteSet(Source \X (1..MaxStanzas))
          /\ Cardinality(Source \X (1..MaxStanzas)) =
               Cardinality(Source) * Cardinality(1..MaxStanzas)
      BY <1>2, <2>1, FS_Product
    <2>. QED
      BY <1>2, <2>2, Zenon
  <1>4. n <= Cardinality(Source) * MaxStanzas
    <2>1. Cardinality(1..n) <= Cardinality(Source \X (1..MaxStanzas))
      BY <1>1, <1>3, FS_Injection
    <2>. QED
      BY <1>2, <1>3, <2>1
  <1>5. Cardinality(Source) \in Nat
    BY S2SLinkAssumption, FS_CardinalityType
  <1>. DEFINE bound == MaxStanzas * Cardinality(Source)
  <1>6. Cardinality(Source) * MaxStanzas = bound
    BY <1>5, S2SLinkAssumption
  <1>7. bound \in Nat /\ Socket \cup {0} = 0..bound
    BY SocketType
  <1>. HIDE DEF bound
  <1>8. n <= bound
    BY <1>4, <1>6
  <1>9. n \in 0..bound
    BY <1>7, <1>8
  <1>. QED
    BY <1>7, <1>9, Zenon

LEMMA InitSocketInv == Init => SocketInv
  <1>. SUFFICES ASSUME Init PROVE SocketInv
    OBVIOUS
  <1>1. TypeOK
    BY S2SLinkAssumption DEF Init, TypeOK, NoEntry
  <1>2. Numbered /\ Staged
    BY DEF Init, Numbered, Staged
  <1>3. InOrder
    BY FS_EmptySet DEF Init, InOrder
  <1>4. EachForItsStanza
    <2>1. [k \in 1..made |-> <<CHOOSE c \in Source : TRUE, 1>>]
            \in [1..made -> Source \X (1..MaxStanzas)]
      BY DEF Init
    <2>2. MadeFor([k \in 1..made |-> <<CHOOSE c \in Source : TRUE, 1>>])
      BY DEF Init, MadeFor
    <2>. QED
      BY <2>1, <2>2 DEF EachForItsStanza
  <1>. QED
    BY <1>1, <1>2, <1>3, <1>4 DEF SocketInv

(* What is put on a socket, or lost, is a stanza.                           *)
LEMMA SendOnTyped ==
  ASSUME TypeOK, NEW k \in Socket, NEW m \in Stanza, SendOn(k, m)
  PROVE  /\ wire' \in [Socket -> Seq(Stanza)]
         /\ lost' \subseteq Stanza
  <1>1. CASE k \in broken
    BY <1>1 DEF TypeOK, SendOn
  <1>2. CASE k \notin broken
    <2>1. wire \in [Socket -> Seq(Stanza)] /\ lost \subseteq Stanza
      BY DEF TypeOK
    <2>2. wire' = [wire EXCEPT ![k] = Append(wire[k], m)] /\ lost' = lost
      BY <1>2 DEF SendOn
    <2>3. Append(wire[k], m) \in Seq(Stanza)
      BY <2>1
    <2>. QED
      BY <2>1, <2>2, <2>3
  <1>. QED
    BY <1>1, <1>2

LEMMA CurrentTyped ==
  ASSUME SocketInv, NEW c \in Source, stage[c] # "idle"
  PROVE  /\ Len(stanzas[c]) \in 1..MaxStanzas
         /\ Current(c) \in Stanza
         /\ Current(c) = stanzas[c][Len(stanzas[c])]
  <1>1. stanzas[c] \in Seq(Stanza) /\ stanzas[c] # <<>> /\ Len(stanzas[c]) <= MaxStanzas
    BY DEF SocketInv, TypeOK, Staged
  <1>. QED
    BY <1>1 DEF Current

(* A step in which no stanza comes and no socket is made or accepted.       *)
LEMMA SocketsUnchanged ==
  ASSUME SocketInv, TypeOK', UNCHANGED <<stanzas, mine, made, accepted>>,
         \A c \in Source : stage'[c] = stage[c] \/ stage'[c] \in {"idle", "send"},
         \A c \in Source : stage'[c] = "send" => stage[c] \in {"register", "send"}
  PROVE  SocketInv'
  <1>1. Numbered' /\ InOrder'
    BY DEF SocketInv, Numbered, InOrder
  <1>2. Staged'
    BY DEF SocketInv, Staged
  <1>3. EachForItsStanza'
    <2>1. PICK f \in [1..made -> Source \X (1..MaxStanzas)] : MadeFor(f)
      BY DEF SocketInv, EachForItsStanza
    <2>2. \A c \in Source : stage'[c] = "connect" => stage[c] = "connect"
      OBVIOUS
    <2>3. MadeFor(f)'
      BY <2>1, <2>2 DEF MadeFor
    <2>. QED
      BY <2>1, <2>3 DEF EachForItsStanza
  <1>. QED
    BY <1>1, <1>2, <1>3 DEF SocketInv

LEMMA RouteSockets ==
  ASSUME SocketInv, NEW c \in Source, NEW d \in Domain, Route(c, d)
  PROVE  SocketInv'
  <1>. DEFINE m == [from |-> c, num |-> Len(stanzas[c]) + 1, domain |-> d]
              n == Len(stanzas[c])
  <1>0. /\ TypeOK /\ stanzas \in [Source -> Seq(Stanza)] /\ n \in Nat /\ n < MaxStanzas
        /\ stage[c] = "idle"
        /\ stanzas' = [stanzas EXCEPT ![c] = Append(@, m)]
        /\ UNCHANGED <<mine, made, entry, accepted, broken, delivered, outside>>
    BY DEF SocketInv, TypeOK, Route
  <1>1. m \in Stanza
    BY <1>0, S2SLinkAssumption DEF Stanza
  <1>2. /\ stanzas' \in [Source -> Seq(Stanza)]
        /\ stanzas'[c] = Append(stanzas[c], m) /\ Len(stanzas'[c]) = n + 1
        /\ stanzas'[c][n + 1] = m
        /\ \A k \in 1..n : stanzas'[c][k] = stanzas[c][k]
        /\ \A e \in Source \ {c} : stanzas'[e] = stanzas[e]
    BY <1>0, <1>1
  <1>3. /\ wire' \in [Socket -> Seq(Stanza)] /\ lost' \subseteq Stanza
        /\ newConn' \in [Source -> BOOLEAN]
        /\ stage' \in {stage, [stage EXCEPT ![c] = "connect"]}
    <2>1. CASE d = "localhost" /\ entry.key
      <3>1. CASE entry.out = 0
        BY <1>0, <1>1, <2>1, <3>1 DEF Route, TypeOK
      <3>2. CASE entry.out # 0
        <4>1. entry.out \in Socket /\ SendOn(entry.out, m)
          BY <1>0, <2>1, <3>2 DEF Route, TypeOK
        <4>2. UNCHANGED <<stage, newConn>>
          BY <2>1 DEF Route
        <4>. QED
          BY <1>0, <1>1, <4>1, <4>2, SendOnTyped DEF TypeOK
      <3>. QED
        BY <3>1, <3>2
    <2>2. CASE ~(d = "localhost" /\ entry.key)
      BY <1>0, <2>2 DEF Route, TypeOK
    <2>. QED
      BY <2>1, <2>2
  <1>4. TypeOK'
    <2>1. \A e \in Source : Len(stanzas'[e]) <= MaxStanzas
      BY <1>0, <1>2, S2SLinkAssumption DEF TypeOK
    <2>2. stage' \in [Source -> {"idle", "connect", "register", "send"}]
      BY <1>0, <1>3 DEF TypeOK
    <2>. QED
      BY <1>0, <1>2, <1>3, <2>1, <2>2 DEF TypeOK
  <1>5. Numbered'
    <2>1. ASSUME NEW e \in Source, NEW k \in 1..Len(stanzas'[e])
          PROVE  stanzas'[e][k].from = e /\ stanzas'[e][k].num = k
      <3>1. CASE e = c /\ k = n + 1
        BY <1>2, <3>1
      <3>2. CASE e = c /\ k # n + 1
        BY <1>0, <1>2, <2>1, <3>2 DEF SocketInv, Numbered
      <3>3. CASE e # c
        BY <1>2, <2>1, <3>3 DEF SocketInv, Numbered
      <3>. QED
        BY <3>1, <3>2, <3>3
    <2>. QED
      BY <2>1 DEF Numbered
  <1>6. Staged'
    <2>1. stanzas'[c] # <<>>
      BY <1>0, <1>2
    <2>2. \A e \in Source : stage'[e] = stage[e] \/ (e = c /\ stage'[e] = "connect")
      BY <1>0, <1>3 DEF TypeOK
    <2>. QED
      BY <1>0, <1>2, <2>1, <2>2 DEF SocketInv, Staged
  <1>7. InOrder'
    BY <1>0 DEF SocketInv, InOrder
  <1>8. EachForItsStanza'
    <2>1. PICK f \in [1..made -> Source \X (1..MaxStanzas)] : MadeFor(f)
      BY DEF SocketInv, EachForItsStanza
    <2>2. ASSUME NEW k \in 1..made
          PROVE  /\ f[k][2] <= Len(stanzas'[f[k][1]])
                 /\ stage'[f[k][1]] = "connect" => f[k][2] < Len(stanzas'[f[k][1]])
      <3>1. f[k][1] \in Source /\ f[k][2] \in Nat /\ f[k][2] <= Len(stanzas[f[k][1]])
            /\ (stage[f[k][1]] = "connect" => f[k][2] < Len(stanzas[f[k][1]]))
        BY <2>1 DEF MadeFor
      <3>2. CASE f[k][1] = c
        BY <1>0, <1>2, <3>1, <3>2
      <3>3. CASE f[k][1] # c
        <4>1. stage'[f[k][1]] = stage[f[k][1]]
          BY <1>0, <1>3, <3>1, <3>3 DEF TypeOK
        <4>. QED
          BY <1>2, <3>1, <3>3, <4>1
      <3>. QED
        BY <3>2, <3>3
    <2>3. MadeFor(f)'
      BY <1>0, <2>1, <2>2 DEF MadeFor
    <2>. QED
      BY <1>0, <2>1, <2>3 DEF EachForItsStanza
  <1>. QED
    BY <1>4, <1>5, <1>6, <1>7, <1>8 DEF SocketInv

LEMMA ConnectSockets ==
  ASSUME SocketInv, NEW c \in Source, Connect(c)
  PROVE  SocketInv'
  <1>0. /\ TypeOK /\ stage[c] = "connect" /\ made \in Nat /\ made' = made + 1
        /\ mine' = [mine EXCEPT ![c] = made + 1]
        /\ stage' = [stage EXCEPT ![c] = "register"]
        /\ UNCHANGED <<stanzas, newConn, entry, accepted, wire, broken, delivered, lost, outside>>
    BY DEF SocketInv, TypeOK, Connect, Socket
  <1>1. Numbered'
    BY <1>0 DEF SocketInv, Numbered
  <1>2. EachForItsStanza'
    <2>1. PICK f \in [1..made -> Source \X (1..MaxStanzas)] : MadeFor(f)
      BY DEF SocketInv, EachForItsStanza
    <2>. DEFINE n == Len(stanzas[c])
                g == [k \in 1..(made + 1) |-> IF k <= made THEN f[k] ELSE <<c, n>>]
    <2>2. n \in 1..MaxStanzas
      BY <1>0, CurrentTyped
    <2>3. g \in [1..made' -> Source \X (1..MaxStanzas)]
      BY <1>0, <2>1, <2>2
    <2>4. \A k \in 1..made : g[k] = f[k]
      BY <1>0
    <2>5. g[made + 1] = <<c, n>>
      BY <1>0
    <2>6. \A k \in 1..made : f[k] # <<c, n>>
      <3>1. \A k \in 1..made : f[k][1] = c => f[k][2] < n
        BY <1>0, <2>1 DEF MadeFor
      <3>. QED
        BY <2>2, <3>1
    <2>7. \A k \in 1..(made + 1) : k \in 1..made \/ k = made + 1
      BY <1>0
    <2>. HIDE DEF g
    <2>8. \A j, k \in 1..(made + 1) : g[j] = g[k] => j = k
      BY <2>1, <2>4, <2>5, <2>6, <2>7 DEF MadeFor
    <2>9. ASSUME NEW k \in 1..(made + 1)
          PROVE  /\ g[k][2] <= Len(stanzas[g[k][1]])
                 /\ stage'[g[k][1]] = "connect" => g[k][2] < Len(stanzas[g[k][1]])
      <3>1. CASE k \in 1..made
        <4>1. f[k][1] \in Source
              /\ f[k][2] <= Len(stanzas[f[k][1]])
              /\ (stage[f[k][1]] = "connect" => f[k][2] < Len(stanzas[f[k][1]]))
          BY <2>1, <3>1 DEF MadeFor
        <4>2. stage'[f[k][1]] = "connect" => stage[f[k][1]] = "connect"
          BY <1>0, <4>1 DEF TypeOK
        <4>. QED
          BY <2>4, <3>1, <4>1, <4>2
      <3>2. CASE k = made + 1
        BY <1>0, <2>2, <2>5, <3>2 DEF TypeOK
      <3>. QED
        BY <2>7, <3>1, <3>2
    <2>10. /\ \A j, k \in 1..made' : g[j] = g[k] => j = k
           /\ \A k \in 1..made' :
                /\ g[k][2] <= Len(stanzas'[g[k][1]])
                /\ stage'[g[k][1]] = "connect" => g[k][2] < Len(stanzas'[g[k][1]])
      BY <1>0, <2>8, <2>9
    <2>11. PICK h \in [1..made' -> Source \X (1..MaxStanzas)] :
             /\ \A j, k \in 1..made' : h[j] = h[k] => j = k
             /\ \A k \in 1..made' :
                  /\ h[k][2] <= Len(stanzas'[h[k][1]])
                  /\ stage'[h[k][1]] = "connect" => h[k][2] < Len(stanzas'[h[k][1]])
      BY <2>3, <2>10
    <2>. QED
      BY <2>11 DEF EachForItsStanza, MadeFor
  <1>3. made' \in Socket
    <2>1. made' \in Nat /\ made' # 0
      BY <1>0
    <2>2. PICK g \in [1..made' -> Source \X (1..MaxStanzas)] :
            \A j, k \in 1..made' : g[j] = g[k] => j = k
      BY <1>2 DEF EachForItsStanza, MadeFor
    <2>3. made' \in Socket \cup {0}
      BY <2>1, <2>2, MadeBounded
    <2>. QED
      BY <2>1, <2>3
  <1>4. TypeOK'
    BY <1>0, <1>3 DEF TypeOK
  <1>5. Staged'
    BY <1>0 DEF SocketInv, Staged, TypeOK, Socket
  <1>6. InOrder'
    <2>1. Cardinality(accepted) <= made
      BY DEF SocketInv, InOrder
    <2>2. Cardinality(accepted) \in Nat
      <3>1. IsFiniteSet(accepted)
        BY <1>0, SocketType, FS_Subset DEF TypeOK
      <3>. QED
        BY <3>1, FS_CardinalityType
    <2>. QED
      BY <1>0, <2>1, <2>2 DEF SocketInv, InOrder
  <1>. QED
    BY <1>1, <1>2, <1>4, <1>5, <1>6 DEF SocketInv

LEMMA AcceptSockets ==
  ASSUME SocketInv, Accept
  PROVE  SocketInv'
  <1>. DEFINE k == Cardinality(accepted) + 1
  <1>0. /\ TypeOK /\ k <= made /\ accepted' = accepted \cup {k}
        /\ entry' = [entry EXCEPT !.in = k, !.key = TRUE]
        /\ UNCHANGED <<stage, stanzas, newConn, mine, made, wire, broken, delivered, lost, outside>>
    BY DEF SocketInv, Accept
  <1>1. Cardinality(accepted) \in Nat /\ accepted = 1..Cardinality(accepted)
    <2>1. IsFiniteSet(accepted)
      BY <1>0, SocketType, FS_Subset DEF TypeOK
    <2>. QED
      BY <2>1, FS_CardinalityType DEF SocketInv, InOrder
  <1>2. k \in Socket
    <2>1. made \in 0..(MaxStanzas * Cardinality(Source))
      BY <1>0, SocketType DEF TypeOK
    <2>2. k \in 0..(MaxStanzas * Cardinality(Source)) /\ k # 0
      BY <1>0, <1>1, <2>1, SocketType
    <2>. QED
      BY <2>2, SocketType
  <1>3. accepted' = 1..k /\ Cardinality(1..k) = k
    BY <1>0, <1>1, FS_Interval
  <1>4. TypeOK'
    BY <1>0, <1>2 DEF TypeOK
  <1>5. Numbered' /\ Staged'
    BY <1>0 DEF SocketInv, Numbered, Staged
  <1>6. InOrder'
    BY <1>0, <1>3 DEF InOrder
  <1>7. EachForItsStanza'
    <2>1. PICK f \in [1..made -> Source \X (1..MaxStanzas)] : MadeFor(f)
      BY DEF SocketInv, EachForItsStanza
    <2>2. MadeFor(f)'
      BY <1>0, <2>1 DEF MadeFor
    <2>. QED
      BY <1>0, <2>1, <2>2 DEF EachForItsStanza
  <1>. QED
    BY <1>4, <1>5, <1>6, <1>7 DEF SocketInv

LEMMA StepSocketInv ==
  ASSUME SocketInv, [Next]_vars
  PROVE  SocketInv'
  <1>0. TypeOK
    BY DEF SocketInv
  <1>1. ASSUME NEW c \in Source, GiveUp(c)
        PROVE  SocketInv'
    <2>1. TypeOK'
      BY <1>0, <1>1, CurrentTyped DEF GiveUp, TypeOK
    <2>. QED
      BY <1>0, <1>1, <2>1, SocketsUnchanged DEF GiveUp, TypeOK
  <1>2. ASSUME NEW c \in Source, Register(c)
        PROVE  SocketInv'
    <2>1. mine[c] \in Socket \cup {0}
      BY <1>0 DEF TypeOK
    <2>2. TypeOK'
      BY <1>0, <1>2, <2>1 DEF Register, TypeOK
    <2>. QED
      BY <1>0, <1>2, <2>2, SocketsUnchanged DEF Register, TypeOK
  <1>3. ASSUME NEW c \in Source, SendQueue(c)
        PROVE  SocketInv'
    <2>1. stage[c] = "send" /\ Current(c) \in Stanza /\ mine[c] \in Socket
      BY <1>0, <1>3, CurrentTyped DEF SendQueue, SocketInv, Staged, TypeOK
    <2>2. TypeOK'
      BY <1>0, <1>3, <2>1, SendOnTyped DEF SendQueue, TypeOK
    <2>. QED
      BY <1>0, <1>3, <2>1, <2>2, SocketsUnchanged DEF SendQueue, TypeOK
  <1>4. CASE AcceptOutside
    <2>1. outside' \in 0..MaxOutside
      BY <1>0, <1>4, S2SLinkAssumption DEF AcceptOutside, TypeOK
    <2>2. entry' \in [in : Socket \cup {0}, out : Socket \cup {0}, key : BOOLEAN]
      BY <1>0, <1>4 DEF AcceptOutside, TypeOK
    <2>3. TypeOK'
      BY <1>0, <1>4, <2>1, <2>2 DEF AcceptOutside, TypeOK
    <2>. QED
      BY <1>4, <2>3, SocketsUnchanged DEF AcceptOutside
  <1>5. ASSUME NEW k \in Socket, Deliver(k)
        PROVE  SocketInv'
    <2>1. Head(wire[k]) \in Stanza /\ Tail(wire[k]) \in Seq(Stanza)
      BY <1>0, <1>5 DEF Deliver, TypeOK
    <2>2. TypeOK'
      BY <1>0, <1>5, <2>1 DEF Deliver, TypeOK
    <2>. QED
      BY <1>5, <2>2, SocketsUnchanged DEF Deliver
  <1>6. ASSUME NEW k \in Socket, Break(k)
        PROVE  SocketInv'
    <2>1. ToSet(wire[k]) \subseteq Stanza
      BY <1>0, ToSetTyped DEF TypeOK
    <2>2. TypeOK'
      BY <1>0, <1>6, <2>1 DEF Break, TypeOK
    <2>. QED
      BY <1>6, <2>2, SocketsUnchanged DEF Break
  <1>7. CASE UNCHANGED vars
    <2>1. TypeOK'
      BY <1>0, <1>7 DEF vars, TypeOK
    <2>. QED
      BY <1>7, <2>1, SocketsUnchanged DEF vars
  <1>. QED
    BY <1>1, <1>2, <1>3, <1>4, <1>5, <1>6, <1>7, RouteSockets, ConnectSockets, AcceptSockets
    DEF Next, Worker, Read

-----------------------------------------------------------------------------
(* The places of a stanza.                                                  *)

WiresApart ==
  /\ \A k \in Socket : IsInjective(wire[k])
  /\ \A j, k \in Socket : j # k => ToSet(wire[j]) \cap ToSet(wire[k]) = {}

Handled(c, n) == stage[c] # "idle" /\ n = Len(stanzas[c])

(* The stanza m, which a handler has or has not in hand, is in one place.   *)
InOnePlace(m, handled) ==
  /\ handled \/ m \in OnWire \/ m \in ToSet(delivered) \/ m \in lost
  /\ ~(handled /\ (m \in OnWire \/ m \in ToSet(delivered) \/ m \in lost))
  /\ ~(m \in OnWire /\ (m \in ToSet(delivered) \/ m \in lost))
  /\ ~(m \in ToSet(delivered) /\ m \in lost)

EachInOnePlace ==
  \A c \in Source : \A n \in 1..Len(stanzas[c]) : InOnePlace(stanzas[c][n], Handled(c, n))

LEMMA AccountedMeaning ==
  StanzasAccounted <=> IsInjective(delivered) /\ WiresApart /\ EachInOnePlace
  BY DEF StanzasAccounted, WiresApart, EachInOnePlace, InOnePlace, Handled

LEMMA AccountedAfter ==
  ASSUME IsInjective(delivered'), WiresApart', EachInOnePlace'
  PROVE  StanzasAccounted'
  BY DEF StanzasAccounted, WiresApart, EachInOnePlace, InOnePlace, Handled

(* A stanza is in at most one of its source's places, whatever they are.    *)
LEMMA SameStanza ==
  ASSUME Numbered, NEW c \in Source, NEW n \in 1..Len(stanzas[c]),
         NEW e \in Source, NEW j \in 1..Len(stanzas[e]), stanzas[c][n] = stanzas[e][j]
  PROVE  c = e /\ n = j
  BY DEF Numbered

(* The places of stanzas are unchanged.                                     *)
SamePlaces == UNCHANGED <<wire, delivered, lost>>

(* The stanza m, which was in none of the places, is put on a socket or lost*)
PutOrLost(m) ==
  /\ delivered' = delivered
  /\ WiresApart'
  /\ \/ OnWire' = OnWire \cup {m} /\ lost' = lost
     \/ OnWire' = OnWire /\ lost' = lost \cup {m}

LEMMA LostIsPlaced ==
  ASSUME WiresApart, UNCHANGED <<wire, delivered>>, NEW m, lost' = lost \cup {m}
  PROVE  PutOrLost(m)
  BY DEF WiresApart, PutOrLost, OnWire

LEMMA SentIsPlaced ==
  ASSUME TypeOK, WiresApart, NEW k \in Socket, NEW m \in Stanza, m \notin OnWire,
         SendOn(k, m), delivered' = delivered
  PROVE  PutOrLost(m)
  <1>1. CASE k \in broken
    BY <1>1, LostIsPlaced DEF SendOn
  <1>2. CASE k \notin broken
    <2>1. /\ wire \in [Socket -> Seq(Stanza)] /\ lost' = lost
          /\ wire' = [wire EXCEPT ![k] = Append(wire[k], m)]
      BY <1>2 DEF SendOn, TypeOK
    <2>2. \A j \in Socket : m \notin ToSet(wire[j])
      BY DEF OnWire
    <2>3. /\ wire'[k] = Append(wire[k], m)
          /\ ToSet(wire'[k]) = ToSet(wire[k]) \cup {m} /\ IsInjective(wire'[k])
      <3>1. wire[k] \in Seq(Stanza) /\ IsInjective(wire[k]) /\ m \notin ToSet(wire[k])
        BY <2>1, <2>2 DEF WiresApart
      <3>2. wire'[k] = Append(wire[k], m)
        BY <2>1
      <3>. QED
        BY <3>1, <3>2, AppendFacts
    <2>4. \A j \in Socket \ {k} : wire'[j] = wire[j]
      BY <2>1
    <2>5. WiresApart'
      <3>1. \A j \in Socket : IsInjective(wire'[j])
        BY <2>3, <2>4 DEF WiresApart
      <3>2. ASSUME NEW i \in Socket, NEW j \in Socket, i # j
            PROVE  ToSet(wire'[i]) \cap ToSet(wire'[j]) = {}
        <4>1. ToSet(wire[i]) \cap ToSet(wire[j]) = {}
          BY <3>2 DEF WiresApart
        <4>2. m \notin ToSet(wire[i]) /\ m \notin ToSet(wire[j])
          BY <2>2
        <4>3. CASE i = k
          BY <2>3, <2>4, <3>2, <4>1, <4>2, <4>3
        <4>4. CASE j = k
          BY <2>3, <2>4, <3>2, <4>1, <4>2, <4>4
        <4>5. CASE i # k /\ j # k
          BY <2>4, <4>1, <4>5
        <4>. QED
          BY <4>3, <4>4, <4>5
      <3>. QED
        BY <3>1, <3>2 DEF WiresApart
    <2>6. OnWire' = OnWire \cup {m}
      BY <2>3, <2>4 DEF OnWire
    <2>. QED
      BY <2>1, <2>5, <2>6 DEF PutOrLost
  <1>. QED
    BY <1>1, <1>2

-----------------------------------------------------------------------------
(* The steps.                                                               *)

(* A stanza that a handler has in hand is put on a socket or lost.          *)
LEMMA HandledPlaced ==
  ASSUME SocketInv, OnlyRouted, EachInOnePlace, NEW c \in Source, stage[c] # "idle",
         stage' = [stage EXCEPT ![c] = "idle"], stanzas' = stanzas,
         PutOrLost(Current(c))
  PROVE  OnlyRouted' /\ EachInOnePlace'
  <1>. DEFINE m == Current(c)
              n == Len(stanzas[c])
  <1>1. m \in Stanza /\ n \in 1..n /\ m = stanzas[c][n] /\ TypeOK /\ Numbered
    BY CurrentTyped DEF SocketInv
  <1>2. OnlyRouted'
    <2>1. ASSUME NEW x, IsRouted(x) PROVE IsRouted(x)'
      BY <2>1 DEF IsRouted
    <2>2. IsRouted(m)
      BY <1>1 DEF IsRouted
    <2>3. ASSUME NEW x \in OnWire' \cup ToSet(delivered') \cup lost' PROVE IsRouted(x)
      BY <2>2, <2>3 DEF PutOrLost, OnlyRouted
    <2>4. \A x \in OnWire' \cup ToSet(delivered') \cup lost' :
            \E e \in Source : \E j \in 1..Len(stanzas'[e]) : x = stanzas'[e][j]
      BY <2>3 DEF IsRouted
    <2>. QED
      BY <2>4 DEF OnlyRouted, IsRouted
  <1>3. ASSUME NEW e \in Source, NEW j \in 1..Len(stanzas[e])
        PROVE  InOnePlace(stanzas[e][j], Handled(e, j))'
    <2>1. InOnePlace(stanzas[e][j], Handled(e, j))
      BY DEF EachInOnePlace
    <2>2. CASE e = c /\ j = n
      <3>1. ~Handled(e, j)' /\ Handled(e, j) /\ stanzas[e][j] = m
        BY <1>1, <2>2 DEF Handled, TypeOK
      <3>. QED
        BY <2>1, <3>1 DEF InOnePlace, PutOrLost
    <2>3. CASE ~(e = c /\ j = n)
      <3>1. stanzas[e][j] # m
        BY <1>1, <2>3, SameStanza
      <3>2. Handled(e, j)' <=> Handled(e, j)
        BY <1>1, <2>3 DEF Handled, TypeOK
      <3>. QED
        BY <2>1, <3>1, <3>2 DEF InOnePlace, PutOrLost
    <2>. QED
      BY <2>2, <2>3
  <1>. QED
    BY <1>2, <1>3 DEF EachInOnePlace

(* A stanza that has come, and is in hand or in one of the places.          *)
Arrives(c, m) ==
  /\ stanzas' = [stanzas EXCEPT ![c] = Append(@, m)]
  /\ \/ PutOrLost(m) /\ stage' = stage
     \/ SamePlaces /\ stage' = [stage EXCEPT ![c] = "connect"]

LEMMA StanzaArrives ==
  ASSUME SocketInv, OnlyRouted, EachInOnePlace, NEW c \in Source, NEW m \in Stanza,
         stage[c] = "idle", m.from = c, m.num = Len(stanzas[c]) + 1,
         m \notin OnWire \cup ToSet(delivered) \cup lost,
         Arrives(c, m)
  PROVE  OnlyRouted' /\ EachInOnePlace'
  <1>. DEFINE n == Len(stanzas[c])
  <1>0. TypeOK /\ Numbered /\ stanzas \in [Source -> Seq(Stanza)]
    BY DEF SocketInv, TypeOK
  <1>1. /\ n \in Nat /\ Len(stanzas'[c]) = n + 1
        /\ stanzas'[c][n + 1] = m
        /\ \A k \in 1..n : stanzas'[c][k] = stanzas[c][k]
        /\ \A e \in Source \ {c} : stanzas'[e] = stanzas[e]
    BY <1>0 DEF Arrives
  <1>2. ASSUME NEW e \in Source, NEW j \in 1..Len(stanzas'[e]), ~(e = c /\ j = n + 1)
        PROVE  j \in 1..Len(stanzas[e]) /\ stanzas'[e][j] = stanzas[e][j]
    <2>1. CASE e = c
      BY <1>1, <1>2, <2>1
    <2>2. CASE e # c
      BY <1>1, <1>2, <2>2
    <2>. QED
      BY <2>1, <2>2
  <1>3. ASSUME NEW e \in Source, NEW j \in 1..Len(stanzas[e])
        PROVE  j \in 1..Len(stanzas'[e]) /\ stanzas'[e][j] = stanzas[e][j]
    <2>1. CASE e = c
      BY <1>1, <1>3, <2>1
    <2>2. CASE e # c
      BY <1>1, <1>3, <2>2
    <2>. QED
      BY <2>1, <2>2
  <1>4. OnlyRouted'
    <2>1. ASSUME NEW x \in OnWire' \cup ToSet(delivered') \cup lost'
          PROVE  \E e \in Source : \E j \in 1..Len(stanzas'[e]) : x = stanzas'[e][j]
      <3>1. CASE x = m
        <4>1. n + 1 \in 1..Len(stanzas'[c])
          BY <1>1
        <4>. QED
          BY <1>1, <3>1, <4>1
      <3>2. CASE x # m
        <4>1. x \in OnWire \cup ToSet(delivered) \cup lost
          <5>1. CASE PutOrLost(m)
            BY <2>1, <3>2, <5>1 DEF PutOrLost
          <5>2. CASE SamePlaces
            BY <2>1, <5>2 DEF SamePlaces, OnWire
          <5>. QED
            BY <5>1, <5>2 DEF Arrives
        <4>2. PICK e \in Source : \E j \in 1..Len(stanzas[e]) : x = stanzas[e][j]
          BY <4>1 DEF OnlyRouted, IsRouted
        <4>. QED
          BY <1>3, <4>2
      <3>. QED
        BY <3>1, <3>2
    <2>. QED
      BY <2>1 DEF OnlyRouted, IsRouted
  <1>5. ASSUME NEW e \in Source, NEW j \in 1..Len(stanzas'[e])
        PROVE  InOnePlace(stanzas[e][j], Handled(e, j))'
    <2>1. CASE e = c /\ j = n + 1
      <3>1. stanzas'[e][j] = m
        BY <1>1, <2>1
      <3>2. CASE PutOrLost(m) /\ stage' = stage
        <4>1. ~Handled(e, j)'
          BY <2>1, <3>2 DEF Handled
        <4>. QED
          BY <3>1, <3>2, <4>1 DEF InOnePlace, PutOrLost
      <3>3. CASE SamePlaces /\ stage' = [stage EXCEPT ![c] = "connect"]
        <4>1. Handled(e, j)'
          BY <1>0, <1>1, <2>1, <3>3 DEF Handled, TypeOK
        <4>2. OnWire' = OnWire /\ delivered' = delivered /\ lost' = lost
          BY <3>3 DEF SamePlaces, OnWire
        <4>. QED
          BY <3>1, <4>1, <4>2 DEF InOnePlace
      <3>. QED
        BY <3>2, <3>3 DEF Arrives
    <2>2. CASE ~(e = c /\ j = n + 1)
      <3>1. j \in 1..Len(stanzas[e]) /\ stanzas'[e][j] = stanzas[e][j]
        BY <1>2, <2>2
      <3>2. InOnePlace(stanzas[e][j], Handled(e, j))
        BY <3>1 DEF EachInOnePlace
      <3>3. stanzas[e][j] # m
        <4>1. stanzas[e][j].from = e /\ stanzas[e][j].num = j
          BY <1>0, <3>1 DEF Numbered
        <4>. QED
          BY <2>2, <4>1
      <3>4. Handled(e, j)' <=> Handled(e, j)
        <4>1. CASE e = c
          BY <1>0, <1>1, <2>2, <3>1, <4>1 DEF Handled
        <4>2. CASE e # c
          BY <1>0, <1>1, <4>2 DEF Handled, Arrives, TypeOK
        <4>. QED
          BY <4>1, <4>2
      <3>5. CASE PutOrLost(m)
        BY <3>1, <3>2, <3>3, <3>4, <3>5 DEF InOnePlace, PutOrLost
      <3>6. CASE SamePlaces
        <4>1. OnWire' = OnWire /\ delivered' = delivered /\ lost' = lost
          BY <3>6 DEF SamePlaces, OnWire
        <4>. QED
          BY <3>1, <3>2, <3>4, <4>1 DEF InOnePlace
      <3>. QED
        BY <3>5, <3>6 DEF Arrives
    <2>. QED
      BY <2>1, <2>2
  <1>. QED
    BY <1>4, <1>5 DEF EachInOnePlace

(* A stanza, or the stanzas of a socket, go from the socket to elsewhere.   *)
LEMMA LeaveWire ==
  ASSUME SocketInv, OnlyRouted, EachInOnePlace, UNCHANGED <<stage, stanzas>>,
         NEW gone, gone \subseteq OnWire, OnWire' = OnWire \ gone,
         \/ ToSet(delivered') = ToSet(delivered) \cup gone /\ lost' = lost
         \/ delivered' = delivered /\ lost' = lost \cup gone
  PROVE  OnlyRouted' /\ EachInOnePlace'
  <1>1. OnlyRouted'
    <2>1. ASSUME NEW x \in OnWire' \cup ToSet(delivered') \cup lost'
          PROVE  \E e \in Source : \E j \in 1..Len(stanzas'[e]) : x = stanzas'[e][j]
      <3>1. x \in OnWire \cup ToSet(delivered) \cup lost
        BY <2>1
      <3>. QED
        BY <3>1 DEF OnlyRouted, IsRouted
    <2>. QED
      BY <2>1 DEF OnlyRouted, IsRouted
  <1>2. ASSUME NEW e \in Source, NEW j \in 1..Len(stanzas[e])
        PROVE  InOnePlace(stanzas[e][j], Handled(e, j))'
    <2>1. InOnePlace(stanzas[e][j], Handled(e, j))
      BY DEF EachInOnePlace
    <2>2. Handled(e, j)' <=> Handled(e, j)
      BY DEF Handled
    <2>. QED
      BY <2>1, <2>2 DEF InOnePlace
  <1>. QED
    BY <1>1, <1>2 DEF EachInOnePlace

(* A step that leaves the stanzas where they are.                           *)
LEMMA PlacesUnchanged ==
  ASSUME IInv, UNCHANGED stanzas, SamePlaces,
         \A c \in Source : (stage'[c] = "idle") = (stage[c] = "idle")
  PROVE  OnlyRouted' /\ StanzasAccounted'
  <1>1. OnWire' = OnWire /\ delivered' = delivered /\ lost' = lost
    BY DEF SamePlaces, OnWire
  <1>2. OnlyRouted'
    BY <1>1 DEF IInv, OnlyRouted, IsRouted
  <1>3. IsInjective(delivered') /\ WiresApart'
    BY <1>1, AccountedMeaning DEF IInv, SamePlaces, WiresApart
  <1>4. EachInOnePlace'
    <2>1. ASSUME NEW e \in Source, NEW j \in 1..Len(stanzas[e])
          PROVE  InOnePlace(stanzas[e][j], Handled(e, j))'
      <3>1. InOnePlace(stanzas[e][j], Handled(e, j))
        BY AccountedMeaning DEF EachInOnePlace, IInv
      <3>2. Handled(e, j)' <=> Handled(e, j)
        BY DEF Handled
      <3>. QED
        BY <1>1, <3>1, <3>2 DEF InOnePlace
    <2>. QED
      BY <2>1 DEF EachInOnePlace
  <1>. QED
    BY <1>2, <1>3, <1>4, AccountedAfter

LEMMA RoutePlaces ==
  ASSUME IInv, NEW c \in Source, NEW d \in Domain, Route(c, d)
  PROVE  OnlyRouted' /\ StanzasAccounted'
  <1>. DEFINE m == [from |-> c, num |-> Len(stanzas[c]) + 1, domain |-> d]
  <1>1. /\ SocketInv /\ TypeOK /\ Numbered /\ OnlyRouted /\ IsInjective(delivered) /\ WiresApart
        /\ EachInOnePlace
    BY AccountedMeaning DEF IInv, SocketInv
  <1>2. m \in Stanza /\ m.from = c /\ m.num = Len(stanzas[c]) + 1 /\ Len(stanzas[c]) \in Nat
    BY <1>1, S2SLinkAssumption DEF Route, TypeOK, Stanza
  <1>3. m \notin OnWire \cup ToSet(delivered) \cup lost
    <2>1. ~IsRouted(m)
      BY <1>1, <1>2 DEF IsRouted, Numbered
    <2>. QED
      BY <1>1, <2>1 DEF OnlyRouted
  <1>. HIDE DEF m
  <1>4. CASE d = "localhost" /\ entry.key
    <2>1. UNCHANGED <<stage, delivered>> /\ stanzas' = [stanzas EXCEPT ![c] = Append(@, m)]
      BY <1>4 DEF Route, m
    <2>2. PutOrLost(m)
      <3>1. CASE entry.out = 0
        <4>1. UNCHANGED <<wire, delivered>> /\ lost' = lost \cup {m}
          BY <1>4, <3>1 DEF Route, m
        <4>. QED
          BY <1>1, <4>1, LostIsPlaced
      <3>2. CASE entry.out # 0
        <4>1. entry.out \in Socket /\ SendOn(entry.out, m)
          BY <1>1, <1>4, <3>2 DEF Route, TypeOK, m
        <4>. QED
          BY <1>1, <1>2, <1>3, <2>1, <4>1, SentIsPlaced
      <3>. QED
        BY <3>1, <3>2
    <2>3. IsInjective(delivered') /\ WiresApart'
      BY <1>1, <2>1, <2>2 DEF PutOrLost
    <2>4. stage[c] = "idle" /\ Arrives(c, m)
      BY <2>1, <2>2 DEF Arrives, Route
    <2>. QED
      BY <1>1, <1>2, <1>3, <2>3, <2>4, StanzaArrives, AccountedAfter
  <1>5. CASE ~(d = "localhost" /\ entry.key)
    <2>1. /\ SamePlaces /\ stage' = [stage EXCEPT ![c] = "connect"] /\ stage[c] = "idle"
          /\ stanzas' = [stanzas EXCEPT ![c] = Append(@, m)]
      BY <1>5 DEF Route, SamePlaces, m
    <2>2. IsInjective(delivered') /\ WiresApart'
      BY <1>1, <2>1 DEF SamePlaces, WiresApart
    <2>3. Arrives(c, m)
      BY <2>1 DEF Arrives
    <2>. QED
      BY <1>1, <1>2, <1>3, <2>1, <2>2, <2>3, StanzaArrives, AccountedAfter
  <1>. QED
    BY <1>4, <1>5

LEMMA FinishPlaces ==
  ASSUME IInv, NEW c \in Source, GiveUp(c) \/ SendQueue(c)
  PROVE  OnlyRouted' /\ StanzasAccounted'
  <1>1. /\ SocketInv /\ TypeOK /\ Staged /\ OnlyRouted /\ IsInjective(delivered) /\ WiresApart
        /\ EachInOnePlace
    BY AccountedMeaning DEF IInv, SocketInv
  <1>2. /\ stage[c] # "idle" /\ stage' = [stage EXCEPT ![c] = "idle"]
        /\ UNCHANGED <<stanzas, delivered>>
    BY DEF GiveUp, SendQueue
  <1>3. /\ Current(c) \in Stanza /\ Len(stanzas[c]) \in 1..Len(stanzas[c])
        /\ Current(c) = stanzas[c][Len(stanzas[c])]
    BY <1>1, <1>2, CurrentTyped
  <1>4. Current(c) \notin OnWire
    <2>1. InOnePlace(Current(c), Handled(c, Len(stanzas[c])))
      BY <1>1, <1>3 DEF EachInOnePlace
    <2>. QED
      BY <1>2, <2>1 DEF InOnePlace, Handled
  <1>5. PutOrLost(Current(c))
    <2>1. CASE GiveUp(c)
      BY <1>1, <2>1, LostIsPlaced DEF GiveUp
    <2>2. CASE SendQueue(c)
      <3>1. mine[c] \in Socket /\ SendOn(mine[c], Current(c))
        BY <1>1, <2>2 DEF SendQueue, Staged, TypeOK
      <3>. QED
        BY <1>1, <1>2, <1>3, <1>4, <3>1, SentIsPlaced
    <2>. QED
      BY <2>1, <2>2
  <1>6. OnlyRouted' /\ EachInOnePlace'
    BY <1>1, <1>2, <1>5, HandledPlaced
  <1>7. IsInjective(delivered') /\ WiresApart'
    BY <1>1, <1>5 DEF PutOrLost
  <1>. QED
    BY <1>6, <1>7, AccountedAfter

LEMMA DeliverPlaces ==
  ASSUME IInv, NEW k \in Socket, Deliver(k)
  PROVE  OnlyRouted' /\ StanzasAccounted'
  <1>. DEFINE m == Head(wire[k])
  <1>1. /\ SocketInv /\ TypeOK /\ OnlyRouted /\ IsInjective(delivered) /\ WiresApart
        /\ EachInOnePlace
    BY AccountedMeaning DEF IInv, SocketInv
  <1>2. /\ wire \in [Socket -> Seq(Stanza)] /\ delivered \in Seq(Stanza)
        /\ delivered' = Append(delivered, m)
        /\ wire' = [wire EXCEPT ![k] = Tail(wire[k])]
        /\ wire[k] \in Seq(Stanza) /\ wire[k] # <<>>
        /\ UNCHANGED <<stage, stanzas, lost>>
    BY <1>1 DEF Deliver, TypeOK
  <1>3. /\ m \in Stanza /\ ToSet(wire[k]) = {m} \cup ToSet(Tail(wire[k]))
        /\ IsInjective(Tail(wire[k])) /\ m \notin ToSet(Tail(wire[k]))
    BY <1>1, <1>2, TailFacts DEF WiresApart
  <1>4. wire'[k] = Tail(wire[k]) /\ \A j \in Socket \ {k} : wire'[j] = wire[j]
    BY <1>2
  <1>5. m \in OnWire
    BY <1>3 DEF OnWire
  <1>6. m \notin ToSet(delivered)
    <2>1. IsRouted(m)
      BY <1>1, <1>5 DEF OnlyRouted
    <2>2. PICK c \in Source : \E n \in 1..Len(stanzas[c]) : m = stanzas[c][n]
      BY <2>1 DEF IsRouted
    <2>3. PICK n \in 1..Len(stanzas[c]) : m = stanzas[c][n]
      BY <2>2
    <2>4. InOnePlace(m, Handled(c, n))
      BY <1>1, <2>3 DEF EachInOnePlace
    <2>. QED
      BY <1>5, <2>4 DEF InOnePlace
  <1>7. ToSet(delivered') = ToSet(delivered) \cup {m} /\ IsInjective(delivered')
    BY <1>1, <1>2, <1>3, <1>6, AppendFacts
  <1>. HIDE DEF m
  <1>8. \A j \in Socket \ {k} : m \notin ToSet(wire[j])
    BY <1>1, <1>3 DEF WiresApart
  <1>9. OnWire' = OnWire \ {m}
    BY <1>3, <1>4, <1>8 DEF OnWire
  <1>10. WiresApart'
    <2>1. \A j \in Socket : IsInjective(wire'[j])
      BY <1>1, <1>3, <1>4 DEF WiresApart
    <2>2. \A j \in Socket : ToSet(wire'[j]) \subseteq ToSet(wire[j])
      BY <1>3, <1>4
    <2>3. \A i, j \in Socket : i # j => ToSet(wire'[i]) \cap ToSet(wire'[j]) = {}
      BY <1>1, <2>2 DEF WiresApart
    <2>. QED
      BY <2>1, <2>3 DEF WiresApart
  <1>11. OnlyRouted' /\ EachInOnePlace'
    BY <1>1, <1>2, <1>5, <1>7, <1>9, LeaveWire
  <1>. QED
    BY <1>7, <1>10, <1>11, AccountedAfter

LEMMA BreakPlaces ==
  ASSUME IInv, NEW k \in Socket, Break(k)
  PROVE  OnlyRouted' /\ StanzasAccounted'
  <1>1. /\ SocketInv /\ TypeOK /\ OnlyRouted /\ IsInjective(delivered) /\ WiresApart
        /\ EachInOnePlace
    BY AccountedMeaning DEF IInv, SocketInv
  <1>2. /\ wire \in [Socket -> Seq(Stanza)]
        /\ lost' = lost \cup ToSet(wire[k])
        /\ wire' = [wire EXCEPT ![k] = <<>>]
        /\ UNCHANGED <<stage, stanzas, delivered>>
    BY <1>1 DEF Break, TypeOK
  <1>3. wire'[k] = <<>> /\ \A j \in Socket \ {k} : wire'[j] = wire[j]
    BY <1>2
  <1>4. ToSet(<<>>) = {} /\ IsInjective(<<>>)
    BY DEF ToSet, IsInjective
  <1>5. ToSet(wire[k]) \subseteq OnWire
    BY DEF OnWire
  <1>6. \A j \in Socket \ {k} : ToSet(wire[j]) \cap ToSet(wire[k]) = {}
    BY <1>1 DEF WiresApart
  <1>7. OnWire' = OnWire \ ToSet(wire[k])
    BY <1>3, <1>4, <1>6 DEF OnWire
  <1>8. WiresApart'
    BY <1>1, <1>3, <1>4 DEF WiresApart
  <1>9. OnlyRouted' /\ EachInOnePlace'
    BY <1>1, <1>2, <1>5, <1>7, LeaveWire
  <1>. QED
    BY <1>1, <1>2, <1>8, <1>9, AccountedAfter

LEMMA StepIInv ==
  ASSUME IInv, [Next]_vars
  PROVE  IInv'
  <1>1. SocketInv'
    BY StepSocketInv DEF IInv
  <1>2. ASSUME NEW c \in Source, Connect(c) \/ Register(c)
        PROVE  OnlyRouted' /\ StanzasAccounted'
    <2>1. UNCHANGED stanzas /\ SamePlaces /\ stage[c] # "idle"
      BY <1>2 DEF Connect, Register, SamePlaces
    <2>2. stage' = [stage EXCEPT ![c] = "register"] \/ stage' = [stage EXCEPT ![c] = "send"]
      BY <1>2 DEF Connect, Register
    <2>3. \A e \in Source : (stage'[e] = "idle") = (stage[e] = "idle")
      BY <2>1, <2>2 DEF IInv, SocketInv, TypeOK
    <2>. QED
      BY <2>1, <2>3, PlacesUnchanged
  <1>3. CASE Accept \/ AcceptOutside \/ UNCHANGED vars
    <2>1. UNCHANGED stanzas /\ SamePlaces /\ stage' = stage
      BY <1>3 DEF Accept, AcceptOutside, vars, SamePlaces
    <2>2. OnlyRouted' /\ StanzasAccounted'
      BY <2>1, PlacesUnchanged
    <2>. QED
      BY <1>1, <2>2 DEF IInv
  <1>4. ASSUME NEW c \in Source, Worker(c)
        PROVE  IInv'
    BY <1>1, <1>2, <1>4, FinishPlaces DEF Worker, IInv
  <1>5. ASSUME NEW c \in Source, NEW d \in Domain, Route(c, d)
        PROVE  IInv'
    BY <1>1, <1>5, RoutePlaces DEF IInv
  <1>6. ASSUME NEW k \in Socket, Deliver(k) \/ Break(k)
        PROVE  IInv'
    BY <1>1, <1>6, DeliverPlaces, BreakPlaces DEF IInv
  <1>. QED
    BY <1>3, <1>4, <1>5, <1>6 DEF Next, Read

LEMMA InitIInv == Init => IInv
  <1>. SUFFICES ASSUME Init PROVE IInv
    OBVIOUS
  <1>1. ToSet(<<>>) = {} /\ IsInjective(<<>>)
    BY DEF ToSet, IsInjective
  <1>2. OnWire = {}
    BY <1>1 DEF Init, OnWire
  <1>3. OnlyRouted
    BY <1>1, <1>2 DEF Init, OnlyRouted
  <1>4. WiresApart
    BY <1>1 DEF Init, WiresApart
  <1>5. EachInOnePlace
    BY DEF Init, EachInOnePlace
  <1>. QED
    BY <1>1, <1>3, <1>4, <1>5, InitSocketInv, AccountedMeaning DEF Init, IInv

-----------------------------------------------------------------------------
(* The theorems.                                                            *)

(* The stanzas are numbered, the sockets accepted in order, and each stanza *)
(* is in one place: this holds in every state.                              *)
THEOREM Invariant == Safety => []IInv
  <1>1. Init => IInv
    BY InitIInv
  <1>2. IInv /\ [Next]_vars => IInv'
    BY StepIInv
  <1>. QED
    BY <1>1, <1>2, PTL DEF Safety

(* The state of the link is typed: in particular no more sockets are made   *)
(* than there are stanzas.                                                  *)
THEOREM TypeCorrect == Safety => []TypeOK
  <1>1. IInv => TypeOK
    BY DEF IInv, SocketInv
  <1>. QED
    BY <1>1, Invariant, PTL

(* route-server, new-s2s-conn and the S2S server: no stanza is in two places*)
(* and none disappears, whatever connections are made, lost or broken.      *)
THEOREM NoneTwiceNoneForgotten == Safety => []StanzasAccounted
  <1>1. IInv => StanzasAccounted
    BY DEF IInv
  <1>. QED
    BY <1>1, Invariant, PTL

-----------------------------------------------------------------------------
(* What a local stanza may be lost for.                                     *)

(* new-s2s-conn is told the address for a local stanza.  While nobody else  *)
(* connects, the key in s2sConns means that a socket was made; and where    *)
(* none is recorded for sending, the handler that made it has yet to do so. *)
Addressed ==
  /\ \A c \in Source :
       stage[c] = "connect" /\ Current(c).domain = "localhost" => newConn[c]
  /\ outside = 0 /\ entry.key => made > 0
  /\ made > 0 /\ entry.out = 0 => \E c \in Source : stage[c] = "register"

LEMMA StepAddressed ==
  ASSUME IInv, Addressed, [Next]_vars
  PROVE  Addressed'
  <1>0. TypeOK /\ Staged /\ SocketInv /\ made \in Nat
    BY DEF IInv, SocketInv, TypeOK, Socket
  <1>1. ASSUME NEW c \in Source, NEW d \in Domain, Route(c, d)
        PROVE  Addressed'
    <2>. DEFINE m == [from |-> c, num |-> Len(stanzas[c]) + 1, domain |-> d]
    <2>1. /\ stanzas \in [Source -> Seq(Stanza)] /\ stage[c] = "idle"
          /\ stanzas' = [stanzas EXCEPT ![c] = Append(@, m)]
          /\ UNCHANGED <<made, entry, outside>> /\ Len(stanzas[c]) < MaxStanzas
      BY <1>0, <1>1 DEF Route, TypeOK
    <2>2. Current(c)'.domain = d /\ \A e \in Source \ {c} : Current(e)' = Current(e)
      <3>1. stanzas[c] \in Seq(Stanza) /\ Len(stanzas[c]) \in Nat
        BY <2>1
      <3>2. m \in Stanza /\ m.domain = d
        BY <2>1, <3>1, S2SLinkAssumption DEF Stanza
      <3>. HIDE DEF m
      <3>3. /\ Len(Append(stanzas[c], m)) = Len(stanzas[c]) + 1
            /\ Append(stanzas[c], m)[Len(stanzas[c]) + 1] = m
        BY <3>1, <3>2
      <3>4. stanzas'[c] = Append(stanzas[c], m)
        BY <2>1
      <3>5. \A e \in Source \ {c} : stanzas'[e] = stanzas[e]
        BY <2>1
      <3>. QED
        BY <3>2, <3>3, <3>4, <3>5 DEF Current
    <2>3. \/ stage' = stage /\ newConn' = newConn
          \/ /\ stage' = [stage EXCEPT ![c] = "connect"]
             /\ newConn' = [newConn EXCEPT ![c] = @ \/ d = "localhost"]
      BY <1>1 DEF Route
    <2>4. \A e \in Source \ {c} : stage'[e] = stage[e] /\ newConn'[e] = newConn[e]
      BY <1>0, <2>3 DEF TypeOK
    <2>5. stage'[c] = "connect" /\ d = "localhost" => newConn'[c]
      BY <1>0, <2>1, <2>3 DEF TypeOK
    <2>6. \A e \in Source : stage[e] = "register" => stage'[e] = "register"
      BY <2>1, <2>4
    <2>7. ASSUME NEW e \in Source, stage'[e] = "connect", Current(e)'.domain = "localhost"
          PROVE  newConn'[e]
      BY <2>2, <2>4, <2>5, <2>7 DEF Addressed
    <2>8. (outside = 0 /\ entry.key => made > 0)'
      BY <2>1 DEF Addressed
    <2>9. (made > 0 /\ entry.out = 0 => \E e \in Source : stage[e] = "register")'
      BY <2>1, <2>6 DEF Addressed
    <2>. QED
      BY <2>7, <2>8, <2>9 DEF Addressed
  <1>2. ASSUME NEW c \in Source, GiveUp(c) \/ SendQueue(c)
        PROVE  Addressed'
    <2>1. /\ stage[c] # "register" /\ stage' = [stage EXCEPT ![c] = "idle"]
          /\ UNCHANGED <<stanzas, newConn, made, entry, outside>>
      BY <1>2 DEF GiveUp, SendQueue
    <2>2. \A e \in Source : stage'[e] = stage[e] \/ (e = c /\ stage'[e] = "idle")
      BY <1>0, <2>1 DEF TypeOK
    <2>. QED
      BY <2>1, <2>2 DEF Addressed, Current
  <1>3. ASSUME NEW c \in Source, Connect(c)
        PROVE  Addressed'
    <2>1. /\ stage' = [stage EXCEPT ![c] = "register"] /\ made' = made + 1
          /\ UNCHANGED <<stanzas, newConn, entry, outside>>
      BY <1>3 DEF Connect
    <2>2. /\ stage'[c] = "register"
          /\ \A e \in Source : stage'[e] = stage[e] \/ stage'[e] = "register"
      BY <1>0, <2>1 DEF TypeOK
    <2>. QED
      BY <1>0, <2>1, <2>2 DEF Addressed, Current
  <1>4. ASSUME NEW c \in Source, Register(c)
        PROVE  Addressed'
    <2>1. /\ entry' = [entry EXCEPT !.out = mine[c], !.key = TRUE]
          /\ stage[c] = "register" /\ stage' = [stage EXCEPT ![c] = "send"]
          /\ UNCHANGED <<stanzas, newConn, made, outside>>
      BY <1>4 DEF Register
    <2>2. mine[c] \in Nat /\ mine[c] > 0 /\ mine[c] <= made /\ entry'.out = mine[c]
      BY <1>0, <2>1 DEF TypeOK, Staged, Socket
    <2>3. \A e \in Source : stage'[e] = stage[e] \/ stage'[e] = "send"
      BY <1>0, <2>1 DEF TypeOK
    <2>. QED
      BY <1>0, <2>1, <2>2, <2>3 DEF Addressed, Current
  <1>5. CASE Accept
    <2>1. IsFiniteSet(accepted)
      BY <1>0, SocketType, FS_Subset DEF TypeOK
    <2>2. Cardinality(accepted) \in Nat
      BY <2>1, FS_CardinalityType
    <2>3. /\ made > 0 /\ entry'.out = entry.out
          /\ UNCHANGED <<stage, stanzas, newConn, made, outside>>
      BY <1>0, <1>5, <2>2 DEF Accept, TypeOK
    <2>. QED
      BY <2>3 DEF Addressed, Current
  <1>6. CASE AcceptOutside
    <2>1. /\ outside' # 0 /\ entry'.out = entry.out
          /\ UNCHANGED <<stage, stanzas, newConn, made>>
      BY <1>0, <1>6 DEF AcceptOutside, TypeOK
    <2>. QED
      BY <2>1 DEF Addressed, Current
  <1>7. ASSUME UNCHANGED <<stage, stanzas, newConn, made, entry, outside>>
        PROVE  Addressed'
    BY <1>7 DEF Addressed, Current
  <1>. QED
    BY <1>1, <1>2, <1>3, <1>4, <1>5, <1>6, <1>7
    DEF Next, Worker, Read, Deliver, Break, vars

(* What the action property says of one step.                               *)
LostWhileConnecting ==
  broken' = {} /\ outside = 0 =>
    \A m \in lost' \ lost : m.domain = "localhost" =>
      \E c \in Source : stage[c] = "register"

LEMMA StepLost ==
  ASSUME IInv, Addressed, [Next]_vars
  PROVE  LostWhileConnecting
  <1>. SUFFICES ASSUME broken' = {}, outside = 0, NEW m \in lost' \ lost,
                       m.domain = "localhost"
                PROVE  \E c \in Source : stage[c] = "register"
    BY DEF LostWhileConnecting
  <1>1. CASE \E c \in Source, d \in Domain : Route(c, d)
    <2>1. PICK c \in Source, d \in Domain : Route(c, d)
      BY <1>1
    <2>2. broken = {} /\ entry.key /\ entry.out = 0
      BY <2>1 DEF Route, SendOn
    <2>. QED
      BY <2>2 DEF Addressed
  <1>2. ASSUME NEW c \in Source, Worker(c)
        PROVE  FALSE
    <2>1. CASE GiveUp(c)
      <3>1. m = Current(c) /\ stage[c] = "connect" /\ ~newConn[c]
        BY <2>1 DEF GiveUp
      <3>. QED
        BY <3>1 DEF Addressed
    <2>. QED
      BY <1>2, <2>1 DEF Worker, Connect, Register, SendQueue, SendOn
  <1>3. ~ \E k \in Socket : Break(k)
    BY DEF Break
  <1>. QED
    BY <1>1, <1>2, <1>3 DEF Next, Read, Accept, AcceptOutside, Deliver, vars

(* While the server is left to itself and its sockets hold, a local stanza  *)
(* is lost only where another is between connecting its socket and          *)
(* registering it in s2sConns.                                              *)
THEOREM LostOnlyInTheGap == Safety => LostOnlyWhileConnecting
  <1>1. Init => Addressed
    BY DEF Init, Addressed, NoEntry
  <1>2. IInv /\ Addressed /\ [Next]_vars => Addressed'
    BY StepAddressed
  <1>3. IInv /\ Addressed /\ [Next]_vars => [LostWhileConnecting]_vars
    BY StepLost
  <1>4. Safety => [][LostWhileConnecting]_vars
    BY <1>1, <1>2, <1>3, Invariant, PTL DEF Safety
  <1>. QED
    BY <1>4 DEF LostOnlyWhileConnecting, LostWhileConnecting

-----------------------------------------------------------------------------
(* The output buffer: what is on the wire of a text.                        *)

Character == Nat \X (Nat \ {0})
Byte == Nat \X Nat

Bytes(char) == [b \in 1..char[2] |-> <<char[1], b>>]

Ordered(w) == \A i, j \in 1..Len(w) : i < j => Precedes(w[i], w[j])

(* w is the encoding of the first k of the characters.                      *)
Encodes(w, chars, k) ==
  /\ w \in Seq(Byte) /\ k <= Len(w)
  /\ \A i \in 1..Len(w) : \E j \in 1..k : j <= i /\ w[i][1] = chars[j][1]
  /\ (\A i, j \in 1..Len(chars) : i < j => chars[i][1] < chars[j][1]) => Ordered(w)
  /\ (\A i \in 1..Len(chars) : chars[i][2] = 1) =>
       Len(w) = k /\ \A i \in 1..k : w[i] = <<chars[i][1], 1>>

LEMMA Retyped ==
  ASSUME NEW S, NEW T, NEW s \in Seq(S), \A i \in 1..Len(s) : s[i] \in T
  PROVE  s \in Seq(T)
  OBVIOUS

LEMMA EmptyFirst ==
  ASSUME NEW S, NEW s \in Seq(S)
  PROVE  <<>> \o s = s
  OBVIOUS

LEMMA BytesFacts ==
  ASSUME NEW char \in Character
  PROVE  /\ Bytes(char) \in Seq(Byte) /\ Len(Bytes(char)) = char[2]
         /\ char[1] \in Nat /\ char[2] \in Nat \ {0}
         /\ \A b \in 1..Len(Bytes(char)) : Bytes(char)[b] = <<char[1], b>>
  <1>1. char[1] \in Nat /\ char[2] \in Nat \ {0}
    BY DEF Character
  <1>. DEFINE n == char[2]
              x == char[1]
              f == [b \in 1..n |-> <<x, b>>]
  <1>2. n \in Nat /\ x \in Nat /\ n # 0
    BY <1>1
  <1>3. Bytes(char) = f
    BY DEF Bytes
  <1>. HIDE DEF n, x
  <1>4. \A b \in 1..n : <<x, b>> \in Byte
    BY <1>2 DEF Byte
  <1>5. f \in Seq(Byte) /\ Len(f) = n /\ \A b \in 1..n : f[b] = <<x, b>>
    BY <1>2, <1>4
  <1>. QED
    BY <1>1, <1>3, <1>5 DEF n, x

LEMMA OneMore ==
  ASSUME NEW chars \in Seq(Character), NEW k \in Nat, k + 1 <= Len(chars),
         NEW w, Encodes(w, chars, k)
  PROVE  Encodes(w \o Bytes(chars[k + 1]), chars, k + 1)
  <1>. DEFINE x == Bytes(chars[k + 1])
              y == w \o x
  <1>1. k + 1 \in 1..Len(chars) /\ chars[k + 1] \in Character
    OBVIOUS
  <1>2. /\ x \in Seq(Byte) /\ Len(x) = chars[k + 1][2] /\ Len(x) \in Nat \ {0}
        /\ \A b \in 1..Len(x) : x[b] = <<chars[k + 1][1], b>>
    BY <1>1, BytesFacts
  <1>. HIDE DEF x
  <1>3. w \in Seq(Byte) /\ Len(w) \in Nat /\ k <= Len(w)
    BY DEF Encodes
  <1>4. /\ y \in Seq(Byte) /\ Len(y) = Len(w) + Len(x)
        /\ \A i \in 1..Len(w) : y[i] = w[i]
        /\ \A i \in 1..Len(y) : ~(i <= Len(w)) =>
             i - Len(w) \in 1..Len(x) /\ y[i] = x[i - Len(w)]
    <2>1. /\ w \o x \in Seq(Byte) /\ Len(w \o x) = Len(w) + Len(x)
          /\ \A i \in 1..Len(w) : (w \o x)[i] = w[i]
          /\ \A i \in 1..Len(w \o x) : ~(i <= Len(w)) =>
               i - Len(w) \in 1..Len(x) /\ (w \o x)[i] = x[i - Len(w)]
      <3>1. w \in Seq(Byte) /\ x \in Seq(Byte)
        BY <1>2, <1>3
      <3>. QED
        BY ONLY <3>1, Joined
    <2>. QED
      BY ONLY <2>1
  <1>. HIDE DEF y
  <1>5. \A i \in 1..Len(y) : ~(i <= Len(w)) =>
          i - Len(w) \in 1..Len(x) /\ y[i] = <<chars[k + 1][1], i - Len(w)>>
    BY <1>2, <1>4
  <1>6. k + 1 <= Len(y)
    BY <1>2, <1>3, <1>4
  <1>7. ASSUME NEW i \in 1..Len(y)
        PROVE  \E j \in 1..(k + 1) : j <= i /\ y[i][1] = chars[j][1]
    <2>1. CASE i <= Len(w)
      <3>1. i \in 1..Len(w) /\ y[i] = w[i]
        BY <1>3, <1>4, <2>1
      <3>2. PICK j \in 1..k : j <= i /\ w[i][1] = chars[j][1]
        BY <3>1 DEF Encodes
      <3>3. j \in 1..(k + 1)
        OBVIOUS
      <3>. QED
        BY <3>1, <3>2, <3>3
    <2>2. CASE ~(i <= Len(w))
      <3>1. y[i][1] = chars[k + 1][1]
        BY <1>5, <2>2
      <3>2. k + 1 <= i /\ k + 1 \in 1..(k + 1)
        BY <1>3, <2>2
      <3>. QED
        BY <3>1, <3>2
    <2>. QED
      BY <2>1, <2>2
  <1>8. ASSUME \A i, j \in 1..Len(chars) : i < j => chars[i][1] < chars[j][1]
        PROVE  Ordered(y)
    <2>1. Ordered(w)
      BY <1>8 DEF Encodes
    <2>2. ASSUME NEW i \in 1..Len(y), NEW j \in 1..Len(y), i < j
          PROVE  Precedes(y[i], y[j])
      <3>1. CASE j <= Len(w)
        <4>1. i \in 1..Len(w) /\ j \in 1..Len(w) /\ y[i] = w[i] /\ y[j] = w[j]
          BY <1>3, <1>4, <2>2, <3>1
        <4>. QED
          BY <2>1, <2>2, <4>1 DEF Ordered
      <3>2. CASE i <= Len(w) /\ ~(j <= Len(w))
        <4>1. i \in 1..Len(w) /\ y[i] = w[i]
          BY <1>3, <1>4, <3>2
        <4>2. PICK h \in 1..k : w[i][1] = chars[h][1]
          BY <4>1 DEF Encodes
        <4>3. h \in 1..Len(chars) /\ h < k + 1
          OBVIOUS
        <4>4. chars[h][1] < chars[k + 1][1]
          BY <1>1, <1>8, <4>3
        <4>5. y[j][1] = chars[k + 1][1]
          BY <1>5, <3>2
        <4>. QED
          BY <4>1, <4>2, <4>4, <4>5 DEF Precedes
      <3>3. CASE ~(i <= Len(w)) /\ ~(j <= Len(w))
        <4>1. /\ y[i] = <<chars[k + 1][1], i - Len(w)>>
              /\ y[j] = <<chars[k + 1][1], j - Len(w)>>
          BY <1>5, <3>3
        <4>2. i - Len(w) < j - Len(w)
          BY <1>3, <2>2
        <4>. QED
          BY <4>1, <4>2 DEF Precedes
      <3>. QED
        BY <1>3, <2>2, <3>1, <3>2, <3>3
    <2>. QED
      BY <2>2 DEF Ordered
  <1>9. ASSUME \A i \in 1..Len(chars) : chars[i][2] = 1
        PROVE  Len(y) = k + 1 /\ \A i \in 1..(k + 1) : y[i] = <<chars[i][1], 1>>
    <2>1. Len(w) = k /\ \A i \in 1..k : w[i] = <<chars[i][1], 1>>
      BY <1>9 DEF Encodes
    <2>2. Len(x) = 1
      BY <1>1, <1>2, <1>9
    <2>3. Len(y) = k + 1
      BY <1>4, <2>1, <2>2
    <2>4. ASSUME NEW i \in 1..(k + 1)
          PROVE  y[i] = <<chars[i][1], 1>>
      <3>1. CASE i <= k
        BY <1>4, <2>1, <3>1
      <3>2. CASE i = k + 1
        <4>1. i \in 1..Len(y) /\ ~(i <= Len(w)) /\ i - Len(w) = 1
          BY <2>1, <2>3, <3>2
        <4>. QED
          BY <1>5, <3>2, <4>1
      <3>. QED
        BY <3>1, <3>2
    <2>. QED
      BY <2>3, <2>4
  <1>. HIDE DEF Byte, Bytes
  <1>10. Encodes(y, chars, k + 1)
    BY <1>4, <1>6, <1>7, <1>8, <1>9 DEF Encodes
  <1>. QED
    BY <1>10 DEF y, x

LEMMA EncodeFacts ==
  ASSUME NEW chars \in Seq(Character)
  PROVE  Encodes(Encode(chars), chars, Len(chars))
  <1>. DEFINE parts == [k \in DOMAIN chars |-> [b \in 1..chars[k][2] |-> <<chars[k][1], b>>]]
  <1>1. /\ parts \in Seq(Seq(Byte)) /\ Len(parts) = Len(chars)
        /\ \A k \in 1..Len(chars) : parts[k] = Bytes(chars[k])
    <2>1. parts = [k \in 1..Len(chars) |-> Bytes(chars[k])]
      BY DEF Bytes
    <2>2. \A k \in 1..Len(chars) : Bytes(chars[k]) \in Seq(Byte)
      BY BytesFacts
    <2>. HIDE DEF parts
    <2>3. parts \in Seq(Seq(Byte))
      BY <2>1, <2>2
    <2>. QED
      BY <2>1, <2>3
  <1>2. Encode(chars) = FlattenSeq(parts)
    BY DEF Encode
  <1>. HIDE DEF parts
  <1>3. Encodes(<<>>, chars, 0)
    BY DEF Encodes, Ordered
  <1>4. CASE Len(chars) = 0
    <2>1. Encode(chars) = <<>>
      BY <1>1, <1>2, <1>4 DEF FlattenSeq
    <2>. QED
      BY <1>3, <1>4, <2>1
  <1>5. CASE Len(chars) # 0
    <2>1. PICK f : /\ f = [i \in 1..Len(parts) |->
                             IF i = 1 THEN parts[i] ELSE f[i-1] \o parts[i]]
                   /\ FlattenSeq(parts) = f[Len(parts)]
      BY <1>1, <1>5, FlattenDef
    <2>. DEFINE Done == {k \in Nat : k + 1 <= Len(chars) => Encodes(f[k + 1], chars, k + 1)}
    <2>2. 0 \in Done
      <3>1. /\ f[1] = Bytes(chars[1]) /\ chars[1] \in Character
            /\ 0 \in Nat /\ 0 + 1 = 1 /\ 0 + 1 <= Len(chars)
        BY <1>1, <1>5, <2>1
      <3>2. Encodes(<<>> \o Bytes(chars[0 + 1]), chars, 0 + 1)
        BY ONLY <1>3, <3>1, OneMore, chars \in Seq(Character), Zenon
      <3>3. <<>> \o Bytes(chars[1]) = Bytes(chars[1])
        BY <3>1, BytesFacts, EmptyFirst
      <3>. QED
        BY <3>1, <3>2, <3>3
    <2>3. ASSUME NEW k \in Nat, k \in Done
          PROVE  k + 1 \in Done
      <3>1. SUFFICES ASSUME (k + 1) + 1 <= Len(chars)
                     PROVE  Encodes(f[(k + 1) + 1], chars, (k + 1) + 1)
        OBVIOUS
      <3>2. Encodes(f[k + 1], chars, k + 1)
        BY <2>3, <3>1
      <3>3. (k + 1) + 1 \in 1..Len(parts) /\ (k + 1) + 1 # 1 /\ ((k + 1) + 1) - 1 = k + 1
        BY <1>1, <3>1
      <3>4. f[(k + 1) + 1] = f[k + 1] \o Bytes(chars[(k + 1) + 1])
        BY <1>1, <2>1, <3>3
      <3>. QED
        BY <3>1, <3>2, <3>4, OneMore
    <2>4. Nat \subseteq Done
      <3>. HIDE DEF Done
      <3>. QED
        BY <2>2, <2>3, Induction
    <2>5. Len(chars) - 1 \in Nat /\ (Len(chars) - 1) + 1 = Len(chars)
      BY <1>5
    <2>6. Encodes(f[Len(chars)], chars, Len(chars))
      BY <2>4, <2>5
    <2>. QED
      BY <1>1, <1>2, <2>1, <2>6
  <1>. QED
    BY <1>4, <1>5

LEMMA UptoFacts ==
  ASSUME NEW S, NEW data \in Seq(S), NEW n \in Nat
  PROVE  /\ Upto(data, n) \in Seq(S)
         /\ Len(Upto(data, n)) <= n /\ Len(Upto(data, n)) <= Len(data)
         /\ Len(Upto(data, n)) = n \/ Len(Upto(data, n)) = Len(data)
         /\ \A i \in 1..Len(Upto(data, n)) : Upto(data, n)[i] = data[i]
  <1>. DEFINE m == Min({n, Len(data)})
  <1>1. m \in {n, Len(data)} /\ m <= n /\ m <= Len(data)
    <2>1. \E x \in {n, Len(data)} : \A y \in {n, Len(data)} : x <= y
      OBVIOUS
    <2>2. m \in {n, Len(data)} /\ \A y \in {n, Len(data)} : m <= y
      BY <2>1 DEF Min
    <2>. QED
      BY <2>2
  <1>. HIDE DEF m
  <1>2. m \in Nat /\ m <= Len(data)
    BY <1>1
  <1>3. /\ SubSeq(data, 1, m) \in Seq(S) /\ Len(SubSeq(data, 1, m)) = m
        /\ \A i \in 1..m : SubSeq(data, 1, m)[i] = data[i]
    BY <1>2
  <1>4. Upto(data, n) = SubSeq(data, 1, m)
    BY DEF Upto, m
  <1>. QED
    BY <1>1, <1>3, <1>4

LEMMA FromFacts ==
  ASSUME NEW S, NEW data \in Seq(S), NEW n \in Nat
  PROVE  /\ From(data, n) \in Seq(S)
         /\ n <= Len(data) => Len(From(data, n)) = Len(data) - n
         /\ ~(n <= Len(data)) => Len(From(data, n)) = 0
         /\ \A i \in 1..Len(From(data, n)) : n + i \in 1..Len(data) /\ From(data, n)[i] = data[n + i]
  <1>1. CASE n <= Len(data)
    <2>1. /\ From(data, n) \in Seq(S) /\ Len(From(data, n)) = Len(data) - n
      BY <1>1 DEF From
    <2>2. \A i \in 1..Len(From(data, n)) : n + i \in 1..Len(data)
      BY <2>1, <1>1
    <2>3. \A i \in 1..Len(From(data, n)) : From(data, n)[i] = data[n + i]
      BY <2>1, <2>2, <1>1 DEF From
    <2>. QED
      BY <1>1, <2>1, <2>2, <2>3
  <1>2. CASE ~(n <= Len(data))
    <2>1. From(data, n) = <<>>
      BY <1>2 DEF From
    <2>. QED
      BY <1>2, <2>1
  <1>. QED
    BY <1>1, <1>2

-----------------------------------------------------------------------------
(* How far a buffer is: pending is the end of what was given to send(), and *)
(* all that went out was before it; text of one byte per character is all   *)
(* there.                                                                   *)

OneByte(chars) == \A i \in 1..Len(chars) : chars[i][2] = 1

Offset(pending, given) == Len(given) - Len(pending)

Progress(pending, given, out) ==
  /\ Len(pending) <= Len(given)
  /\ \A k \in 1..Len(pending) : pending[k] = given[Offset(pending, given) + k]
  /\ Ordered(out)
  /\ \A i \in 1..Len(out) : out[i][1] <= Offset(pending, given)
  /\ OneByte(given) => /\ Len(out) = Offset(pending, given)
                       /\ \A i \in 1..Len(out) : out[i] = <<i, 1>>

Counted(given) == \A k \in 1..Len(given) : given[k][1] = k

(* More goes out: the first n bytes of a text that follows what is out.     *)
LEMMA MoreOut ==
  ASSUME NEW out \in Seq(Byte), Ordered(out),
         NEW off \in Nat, \A i \in 1..Len(out) : out[i][1] <= off,
         NEW chars \in Seq(Character), \A k \in 1..Len(chars) : chars[k][1] = off + k,
         NEW n \in Nat
  PROVE  LET more == Upto(Encode(chars), n)
             all  == out \o more
         IN /\ more \in Seq(Byte) /\ all \in Seq(Byte)
            /\ Len(all) = Len(out) + Len(more)
            /\ Ordered(all)
            /\ \A i \in 1..Len(all) : \/ all[i][1] <= off
                                      \/ \E j \in 1..Len(chars) : j <= n /\ all[i][1] = off + j
            /\ OneByte(chars) => Len(Encode(chars)) = Len(chars)
            /\ /\ OneByte(chars)
               /\ Len(out) = off /\ \A i \in 1..Len(out) : out[i] = <<i, 1>>
               => \A i \in 1..Len(all) : all[i] = <<i, 1>>
  <1>. DEFINE text == Encode(chars)
              more == Upto(text, n)
              all == out \o more
  <1>1. Encodes(text, chars, Len(chars))
    BY EncodeFacts
  <1>. HIDE DEF text
  <1>2. text \in Seq(Byte) /\ Len(text) \in Nat
    BY <1>1 DEF Encodes
  <1>3. /\ more \in Seq(Byte) /\ Len(more) <= n /\ Len(more) <= Len(text)
        /\ \A i \in 1..Len(more) : more[i] = text[i]
    BY <1>2, UptoFacts
  <1>. HIDE DEF more
  <1>4. /\ all \in Seq(Byte) /\ Len(all) = Len(out) + Len(more)
        /\ \A i \in 1..Len(out) : all[i] = out[i]
        /\ \A i \in 1..Len(all) : ~(i <= Len(out)) =>
             i - Len(out) \in 1..Len(more) /\ all[i] = more[i - Len(out)]
    BY <1>3, Joined
  <1>. HIDE DEF all
  <1>5. Len(out) \in Nat /\ Len(more) \in Nat /\ Len(chars) \in Nat
    BY <1>3
  <1>6. \A i \in 1..Len(more) :
          i \in 1..Len(text) /\ \E j \in 1..Len(chars) : j <= i /\ more[i][1] = off + j
    <2>1. ASSUME NEW i \in 1..Len(more)
          PROVE  i \in 1..Len(text) /\ \E j \in 1..Len(chars) : j <= i /\ more[i][1] = off + j
      <3>1. i \in 1..Len(text) /\ more[i] = text[i]
        BY <1>2, <1>3, <1>5
      <3>2. PICK j \in 1..Len(chars) : j <= i /\ text[i][1] = chars[j][1]
        BY <1>1, <3>1 DEF Encodes
      <3>. QED
        BY <3>1, <3>2
    <2>. QED
      BY <2>1
  <1>7. Ordered(text)
    BY <1>1, <1>5 DEF Encodes
  <1>8. Ordered(all)
    <2>1. ASSUME NEW i \in 1..Len(all), NEW j \in 1..Len(all), i < j
          PROVE  Precedes(all[i], all[j])
      <3>1. CASE j <= Len(out)
        <4>1. i \in 1..Len(out) /\ j \in 1..Len(out)
          BY <2>1, <3>1, <1>5
        <4>. QED
          BY <1>4, <2>1, <4>1 DEF Ordered
      <3>2. CASE i <= Len(out) /\ ~(j <= Len(out))
        <4>1. i \in 1..Len(out)
          BY <3>2, <1>5
        <4>2. all[i] = out[i] /\ out[i][1] <= off
          BY <1>4, <4>1
        <4>3. j - Len(out) \in 1..Len(more) /\ all[j] = more[j - Len(out)]
          BY <1>4, <3>2
        <4>4. PICK h \in 1..Len(chars) : more[j - Len(out)][1] = off + h
          BY <1>6, <4>3
        <4>5. out[i] \in Byte /\ h \in Nat /\ h > 0
          BY <4>1, <1>5
        <4>6. out[i][1] \in Nat
          BY <4>5 DEF Byte
        <4>7. out[i][1] < off + h
          BY <4>2, <4>5, <4>6
        <4>. QED
          BY <4>2, <4>3, <4>4, <4>7 DEF Precedes
      <3>3. CASE ~(i <= Len(out)) /\ ~(j <= Len(out))
        <4>1. /\ i - Len(out) \in 1..Len(more) /\ all[i] = more[i - Len(out)]
              /\ j - Len(out) \in 1..Len(more) /\ all[j] = more[j - Len(out)]
          BY <1>4, <3>3
        <4>2. /\ i - Len(out) \in 1..Len(text) /\ all[i] = text[i - Len(out)]
              /\ j - Len(out) \in 1..Len(text) /\ all[j] = text[j - Len(out)]
          BY <1>3, <1>6, <4>1
        <4>3. i - Len(out) < j - Len(out)
          BY <2>1, <1>5
        <4>. QED
          BY <1>7, <4>2, <4>3 DEF Ordered
      <3>. QED
        BY <1>5, <2>1, <3>1, <3>2, <3>3
    <2>. QED
      BY <2>1 DEF Ordered
  <1>9. ASSUME NEW i \in 1..Len(all)
        PROVE  all[i][1] <= off \/ \E j \in 1..Len(chars) : j <= n /\ all[i][1] = off + j
    <2>1. CASE i <= Len(out)
      <3>1. i \in 1..Len(out)
        BY <2>1, <1>5
      <3>. QED
        BY <1>4, <3>1
    <2>2. CASE ~(i <= Len(out))
      <3>1. i - Len(out) \in 1..Len(more) /\ all[i] = more[i - Len(out)]
        BY <1>4, <2>2
      <3>2. PICK j \in 1..Len(chars) : j <= i - Len(out) /\ more[i - Len(out)][1] = off + j
        BY <1>6, <3>1
      <3>3. j <= n
        BY <1>3, <1>5, <3>1, <3>2
      <3>. QED
        BY <3>1, <3>2, <3>3
    <2>. QED
      BY <2>1, <2>2
  <1>10. ASSUME OneByte(chars)
         PROVE  Len(text) = Len(chars) /\ \A i \in 1..Len(chars) : text[i] = <<chars[i][1], 1>>
    BY <1>1, <1>10 DEF Encodes, OneByte
  <1>11. ASSUME OneByte(chars), Len(out) = off, \A i \in 1..Len(out) : out[i] = <<i, 1>>,
                NEW i \in 1..Len(all)
         PROVE  all[i] = <<i, 1>>
    <2>1. CASE i <= Len(out)
      <3>1. i \in 1..Len(out)
        BY <2>1, <1>5
      <3>. QED
        BY <1>4, <1>11, <3>1
    <2>2. CASE ~(i <= Len(out))
      <3>1. i - Len(out) \in 1..Len(more) /\ all[i] = more[i - Len(out)]
        BY <1>4, <2>2
      <3>2. i - Len(out) \in 1..Len(chars) /\ all[i] = text[i - Len(out)]
        BY <1>3, <1>6, <1>10, <1>11, <3>1
      <3>3. all[i] = <<chars[i - Len(out)][1], 1>>
        BY <1>10, <1>11, <3>2
      <3>4. chars[i - Len(out)][1] = off + (i - Len(out)) /\ off + (i - Len(out)) = i
        BY <1>11, <3>2, <1>5
      <3>. QED
        BY <3>3, <3>4
    <2>. QED
      BY <2>1, <2>2
  <1>. QED
    BY <1>3, <1>4, <1>8, <1>9, <1>10, <1>11 DEF text, more, all


(* send() adds to what is pending what is given to it.                      *)
LEMMA GivenMore ==
  ASSUME NEW pending \in Seq(Character), NEW given \in Seq(Character), NEW out \in Seq(Byte),
         Progress(pending, given, out), NEW data \in Seq(Character)
  PROVE  Progress(pending \o data, given \o data, out)
  <1>. DEFINE p == pending \o data
              g == given \o data
              off == Offset(pending, given)
  <1>1. /\ Len(p) = Len(pending) + Len(data)
        /\ \A k \in 1..Len(pending) : p[k] = pending[k]
        /\ \A k \in 1..Len(p) : ~(k <= Len(pending)) =>
             k - Len(pending) \in 1..Len(data) /\ p[k] = data[k - Len(pending)]
    BY Joined
  <1>2. /\ Len(g) = Len(given) + Len(data)
        /\ \A k \in 1..Len(given) : g[k] = given[k]
        /\ \A k \in 1..Len(g) : ~(k <= Len(given)) =>
             k - Len(given) \in 1..Len(data) /\ g[k] = data[k - Len(given)]
    BY Joined
  <1>. HIDE DEF p, g
  <1>3. Len(pending) \in Nat /\ Len(given) \in Nat /\ Len(data) \in Nat
    OBVIOUS
  <1>4. /\ Len(pending) <= Len(given)
        /\ \A k \in 1..Len(pending) : pending[k] = given[off + k]
        /\ off \in Nat /\ off = Len(given) - Len(pending)
    BY <1>3 DEF Progress, Offset
  <1>5. Offset(p, g) = off /\ Len(p) <= Len(g)
    BY <1>1, <1>2, <1>3, <1>4 DEF Offset
  <1>. HIDE DEF off
  <1>6. ASSUME NEW k \in 1..Len(p)
        PROVE  p[k] = g[off + k]
    <2>1. CASE k <= Len(pending)
      <3>1. k \in 1..Len(pending) /\ off + k \in 1..Len(given)
        BY <1>3, <1>4, <2>1
      <3>. QED
        BY <1>1, <1>2, <1>4, <3>1
    <2>2. CASE ~(k <= Len(pending))
      <3>1. /\ off + k \in 1..Len(g) /\ ~(off + k <= Len(given))
            /\ (off + k) - Len(given) = k - Len(pending)
        BY <1>1, <1>2, <1>3, <1>4, <2>2
      <3>2. g[off + k] = data[(off + k) - Len(given)]
        BY <1>2, <3>1
      <3>. QED
        BY <1>1, <2>2, <3>1, <3>2
    <2>. QED
      BY <2>1, <2>2
  <1>7. Ordered(out) /\ \A i \in 1..Len(out) : out[i][1] <= off
    BY DEF Progress, off
  <1>8. ASSUME OneByte(g)
        PROVE  Len(out) = off /\ \A i \in 1..Len(out) : out[i] = <<i, 1>>
    <2>1. \A i \in 1..Len(given) : i \in 1..Len(g) /\ g[i] = given[i]
      BY <1>2, <1>3
    <2>2. OneByte(given)
      BY <1>8, <2>1 DEF OneByte
    <2>. QED
      BY <2>2 DEF Progress, off
  <1>9. Progress(p, g, out)
    BY <1>5, <1>6, <1>7, <1>8 DEF Progress
  <1>. QED
    BY <1>9 DEF p, g

(* The rest of what is pending comes after what went out: its numbers are   *)
(* those of the characters at its place in what was given.                  *)
LEMMA PendingCounted ==
  ASSUME NEW pending \in Seq(Character), NEW given \in Seq(Character), NEW out \in Seq(Byte),
         Progress(pending, given, out), Counted(given)
  PROVE  /\ Offset(pending, given) \in Nat
         /\ Len(given) = Offset(pending, given) + Len(pending)
         /\ \A k \in 1..Len(pending) : /\ pending[k][1] = Offset(pending, given) + k
                                       /\ Offset(pending, given) + k \in 1..Len(given)
                                       /\ pending[k] = given[Offset(pending, given) + k]
         /\ OneByte(given) => OneByte(pending)
  <1>. DEFINE off == Offset(pending, given)
  <1>1. /\ Len(pending) \in Nat /\ Len(given) \in Nat
        /\ off \in Nat /\ Len(given) = off + Len(pending)
    BY DEF Progress, Offset
  <1>2. \A k \in 1..Len(pending) : off + k \in 1..Len(given) /\ pending[k] = given[off + k]
    BY <1>1 DEF Progress
  <1>. HIDE DEF off
  <1>3. \A k \in 1..Len(pending) : pending[k][1] = off + k
    BY <1>2 DEF Counted
  <1>4. OneByte(given) => OneByte(pending)
    BY <1>2 DEF OneByte
  <1>. QED
    BY <1>1, <1>2, <1>3, <1>4 DEF off

(* The socket takes n bytes of a chunk, and the buffer is cut by n.         *)
LEMMA SentMore ==
  ASSUME NEW pending \in Seq(Character), NEW given \in Seq(Character), NEW out \in Seq(Byte),
         Progress(pending, given, out), Counted(given),
         NEW size \in Nat, NEW n \in Nat, n <= Len(Encode(Upto(pending, size)))
  PROVE  /\ Upto(Encode(Upto(pending, size)), n) \in Seq(Byte)
         /\ Progress(From(pending, n), given,
                     out \o Upto(Encode(Upto(pending, size)), n))
  <1>. DEFINE off == Offset(pending, given)
              chunk == Upto(pending, size)
              text == Encode(chunk)
              more == Upto(text, n)
              all == out \o more
              rest == From(pending, n)
  <1>1. /\ off \in Nat /\ Len(given) = off + Len(pending)
        /\ \A k \in 1..Len(pending) : /\ pending[k][1] = off + k
                                      /\ off + k \in 1..Len(given)
                                      /\ pending[k] = given[off + k]
        /\ OneByte(given) => OneByte(pending)
    BY PendingCounted
  <1>2. /\ Ordered(out) /\ \A i \in 1..Len(out) : out[i][1] <= off
        /\ OneByte(given) => Len(out) = off /\ \A i \in 1..Len(out) : out[i] = <<i, 1>>
    BY DEF Progress
  <1>. HIDE DEF off
  <1>3. /\ chunk \in Seq(Character) /\ Len(chunk) <= Len(pending)
        /\ \A k \in 1..Len(chunk) : chunk[k] = pending[k]
    BY UptoFacts
  <1>. HIDE DEF chunk
  <1>4. Len(pending) \in Nat /\ Len(chunk) \in Nat
    BY <1>3
  <1>5. \A k \in 1..Len(chunk) : k \in 1..Len(pending) /\ chunk[k][1] = off + k
    BY <1>1, <1>3, <1>4
  <1>6. OneByte(given) => OneByte(chunk)
    BY <1>1, <1>3, <1>5 DEF OneByte
  <1>7. /\ more \in Seq(Byte) /\ all \in Seq(Byte)
        /\ Len(all) = Len(out) + Len(more)
        /\ Ordered(all)
        /\ \A i \in 1..Len(all) : \/ all[i][1] <= off
                                  \/ \E j \in 1..Len(chunk) : j <= n /\ all[i][1] = off + j
        /\ OneByte(chunk) => Len(text) = Len(chunk)
        /\ /\ OneByte(chunk)
           /\ Len(out) = off /\ \A i \in 1..Len(out) : out[i] = <<i, 1>>
           => \A i \in 1..Len(all) : all[i] = <<i, 1>>
    BY <1>1, <1>2, <1>3, <1>5, MoreOut
  <1>8. n <= Len(text)
    BY DEF text, chunk
  <1>8a. Len(more) = n \/ Len(more) = Len(text)
    BY <1>3, EncodeFacts, UptoFacts DEF Encodes
  <1>8b. Len(more) <= n
    BY <1>3, EncodeFacts, UptoFacts DEF Encodes
  <1>9. /\ rest \in Seq(Character)
        /\ n <= Len(pending) => Len(rest) = Len(pending) - n
        /\ ~(n <= Len(pending)) => Len(rest) = 0
        /\ \A i \in 1..Len(rest) : n + i \in 1..Len(pending) /\ rest[i] = pending[n + i]
    BY FromFacts
  <1>. HIDE DEF text
  <1>10. Len(more) = n
    BY <1>7, <1>8, <1>8a, <1>8b
  <1>. HIDE DEF more, rest
  <1>. HIDE DEF all
  <1>11. /\ Len(rest) \in Nat /\ Len(rest) <= Len(given)
         /\ n <= Len(pending) => Offset(rest, given) = off + n
         /\ ~(n <= Len(pending)) => Offset(rest, given) = off + Len(pending)
    <2>1. Len(rest) \in Nat
      BY <1>9
    <2>2. Len(given) \in Nat /\ Offset(rest, given) = Len(given) - Len(rest)
      BY DEF Offset
    <2>0. off \in Nat /\ Len(given) = off + Len(pending) /\ Len(pending) \in Nat
      BY <1>1, <1>4
    <2>3. ASSUME n <= Len(pending)
          PROVE  Offset(rest, given) = off + n
      <3>1. Len(rest) = Len(pending) - n
        BY <1>9, <2>3
      <3>. QED
        BY <2>0, <2>2, <3>1
    <2>4. ASSUME ~(n <= Len(pending))
          PROVE  Offset(rest, given) = off + Len(pending)
      <3>1. Len(rest) = 0
        BY <1>9, <2>4
      <3>. QED
        BY <2>0, <2>2, <3>1
    <2>5. Len(rest) <= Len(pending) /\ Len(pending) <= Len(given)
      BY <1>1, <1>4, <1>9, <2>1, <2>2
    <2>6. n <= Len(pending) \/ ~(n <= Len(pending))
      OBVIOUS
    <2>. QED
      BY ONLY <1>4, <2>1, <2>2, <2>3, <2>4, <2>5, <2>6
  <1>12. ASSUME NEW k \in 1..Len(rest)
         PROVE  rest[k] = given[Offset(rest, given) + k]
    <2>1. n + k \in 1..Len(pending) /\ rest[k] = pending[n + k]
      BY <1>9
    <2>2. k \in Nat /\ n \in Nat /\ off \in Nat /\ Len(pending) \in Nat
      BY <1>1, <1>4, <1>11
    <2>3. n <= Len(pending) /\ off + (n + k) = (off + n) + k
      BY ONLY <2>1, <2>2
    <2>. QED
      BY <1>1, <1>11, <2>1, <2>3
  <1>13. ASSUME NEW i \in 1..Len(all)
         PROVE  all[i][1] <= Offset(rest, given)
    <2>1. CASE all[i][1] <= off
      <3>1. all[i] \in Byte
        BY <1>7
      <3>2. all[i][1] \in Nat
        BY <3>1 DEF Byte
      <3>3. off \in Nat /\ n \in Nat /\ Len(pending) \in Nat /\ Offset(rest, given) >= off
        <4>1. off \in Nat /\ n \in Nat /\ Len(pending) \in Nat
          BY <1>1, <1>4
        <4>2. Offset(rest, given) = off + n \/ Offset(rest, given) = off + Len(pending)
          BY <1>11
        <4>. QED
          BY ONLY <4>1, <4>2
      <3>4. Offset(rest, given) \in Nat
        BY <1>1, <1>4, <1>11
      <3>. QED
        BY ONLY <2>1, <3>2, <3>3, <3>4
    <2>2. CASE ~(all[i][1] <= off)
      <3>1. PICK j \in 1..Len(chunk) : j <= n /\ all[i][1] = off + j
        BY <1>7, <2>2
      <3>2. j \in 1..Len(pending)
        BY <1>5
      <3>. QED
        BY <1>1, <1>4, <1>11, <3>1, <3>2
    <2>. QED
      BY <2>1, <2>2
  <1>14. ASSUME OneByte(given)
         PROVE  /\ Len(all) = Offset(rest, given)
                /\ \A i \in 1..Len(all) : all[i] = <<i, 1>>
    <2>1. Len(out) = off /\ n <= Len(chunk)
      BY <1>2, <1>6, <1>7, <1>8, <1>14
    <2>2. n <= Len(pending) /\ Len(all) = off + n
      BY <1>3, <1>4, <1>7, <1>10, <2>1
    <2>. QED
      BY <1>2, <1>6, <1>7, <1>11, <1>14, <2>2
  <1>15. Progress(rest, given, all)
    BY <1>7, <1>11, <1>12, <1>13, <1>14 DEF Progress
  <1>. QED
    BY <1>7, <1>15 DEF all, more, text, chunk, rest

(* With what is pending, all that went out is in order; and it is all there *)
(* was, if no character is wider than a byte.                               *)
LEMMA AllOut ==
  ASSUME NEW pending \in Seq(Character), NEW given \in Seq(Character), NEW out \in Seq(Byte),
         Progress(pending, given, out), Counted(given)
  PROVE  /\ out \o Encode(pending) \in Seq(Byte)
         /\ Ordered(out \o Encode(pending))
         /\ OneByte(given) => out \o Encode(pending) = Encode(given)
  <1>. DEFINE off == Offset(pending, given)
              text == Encode(pending)
              n == Len(text)
  <1>1. /\ off \in Nat /\ Len(given) = off + Len(pending)
        /\ \A k \in 1..Len(pending) : /\ pending[k][1] = off + k
                                      /\ off + k \in 1..Len(given)
                                      /\ pending[k] = given[off + k]
        /\ OneByte(given) => OneByte(pending)
    BY PendingCounted
  <1>2. /\ Ordered(out) /\ \A i \in 1..Len(out) : out[i][1] <= off
        /\ OneByte(given) => Len(out) = off /\ \A i \in 1..Len(out) : out[i] = <<i, 1>>
    BY DEF Progress
  <1>. HIDE DEF off
  <1>3. text \in Seq(Byte) /\ n \in Nat
    BY EncodeFacts DEF Encodes
  <1>4. Upto(text, n) = text
    <2>. HIDE DEF text
    <2>1. /\ Upto(text, n) \in Seq(Byte) /\ Len(Upto(text, n)) = n
          /\ \A i \in 1..n : Upto(text, n)[i] = text[i]
      BY <1>3, UptoFacts
    <2>. HIDE DEF Upto
    <2>. QED
      BY <1>3, <2>1, SameSequence
  <1>. DEFINE all == out \o Upto(text, n)
  <1>5. /\ all \in Seq(Byte)
        /\ Len(all) = Len(out) + Len(Upto(text, n))
        /\ Ordered(all)
        /\ OneByte(pending) => Len(text) = Len(pending)
        /\ /\ OneByte(pending)
           /\ Len(out) = off /\ \A i \in 1..Len(out) : out[i] = <<i, 1>>
           => \A i \in 1..Len(all) : all[i] = <<i, 1>>
    <2>1. \A k \in 1..Len(pending) : pending[k][1] = off + k
      BY <1>1
    <2>2. text = Encode(pending)
      OBVIOUS
    <2>. HIDE DEF text, n
    <2>3. LET more == Upto(Encode(pending), n)
              full == out \o more
          IN /\ more \in Seq(Byte) /\ full \in Seq(Byte)
             /\ Len(full) = Len(out) + Len(more)
             /\ Ordered(full)
             /\ \A i \in 1..Len(full) :
                  \/ full[i][1] <= off
                  \/ \E j \in 1..Len(pending) : j <= n /\ full[i][1] = off + j
             /\ OneByte(pending) => Len(Encode(pending)) = Len(pending)
             /\ /\ OneByte(pending)
                /\ Len(out) = off /\ \A i \in 1..Len(out) : out[i] = <<i, 1>>
                => \A i \in 1..Len(full) : full[i] = <<i, 1>>
      <3>1. \A i \in 1..Len(out) : out[i][1] <= off
        BY <1>2
      <3>2. Ordered(out) /\ n \in Nat /\ off \in Nat
        BY <1>1, <1>2, <1>3
      <3>. QED
        BY ONLY <2>1, <3>1, <3>2, MoreOut, out \in Seq(Byte), pending \in Seq(Character), Zenon
    <2>. QED
      BY <2>2, <2>3
  <1>. HIDE DEF text
  <1>6. ASSUME OneByte(given)
        PROVE  all = Encode(given)
    <2>1. Len(all) = Len(given) /\ \A i \in 1..Len(all) : all[i] = <<i, 1>>
      BY <1>1, <1>2, <1>4, <1>5, <1>6
    <2>. HIDE DEF all
    <2>2. /\ Encode(given) \in Seq(Byte) /\ Len(Encode(given)) = Len(given)
          /\ \A i \in 1..Len(given) : Encode(given)[i] = <<given[i][1], 1>>
      BY <1>6, EncodeFacts DEF Encodes, OneByte
    <2>3. \A i \in 1..Len(given) : all[i] = Encode(given)[i]
      BY <2>1, <2>2 DEF Counted
    <2>. QED
      BY <1>5, <2>1, <2>2, <2>3, SameSequence
  <1>7. out \o Encode(pending) = all
    BY <1>4 DEF text
  <1>. QED
    BY <1>5, <1>6, <1>7


-----------------------------------------------------------------------------
(* The types of the state.                                                  *)

LEMMA CharTyped == Char \subseteq Character /\ Seq(Char) \subseteq Seq(Character)
  <1>1. MaxChars \in Nat /\ Widths \subseteq Nat \ {0}
    BY SendBufferAssumption
  <1>2. Char \subseteq Character
    <2>1. ASSUME NEW i \in 1..MaxChars, NEW w \in Widths
          PROVE  <<i, w>> \in Character
      BY <1>1, <2>1 DEF Character
    <2>. QED
      BY <2>1 DEF Char
  <1>. QED
    BY <1>2

OutByte == (1..MaxChars) \X Nat

LEMMA OutByteTyped == OutByte \subseteq Byte /\ Seq(OutByte) \subseteq Seq(Byte)
  <1>1. OutByte \subseteq Byte
    BY SendBufferAssumption DEF OutByte, Byte
  <1>. QED
    BY <1>1

(* The bytes of characters are of their numbers.                            *)
LEMMA EncodeTyped ==
  ASSUME NEW chars \in Seq(Char)
  PROVE  Encode(chars) \in Seq(OutByte)
  <1>1. chars \in Seq(Character)
    BY CharTyped
  <1>. DEFINE text == Encode(chars)
  <1>2. Encodes(text, chars, Len(chars))
    BY <1>1, EncodeFacts
  <1>. HIDE DEF text
  <1>3. text \in Seq(Byte)
    BY <1>2 DEF Encodes
  <1>4. ASSUME NEW i \in 1..Len(text)
        PROVE  text[i] \in OutByte
    <2>1. PICK j \in 1..Len(chars) : text[i][1] = chars[j][1]
      BY <1>2 DEF Encodes
    <2>2. chars[j] \in Char /\ text[i] \in Byte
      BY <1>3
    <2>3. chars[j][1] \in 1..MaxChars
      BY <2>2 DEF Char
    <2>4. text[i] = <<text[i][1], text[i][2]>> /\ text[i][2] \in Nat
      BY <2>2 DEF Byte
    <2>. QED
      BY <2>1, <2>3, <2>4 DEF OutByte
  <1>5. text \in Seq(OutByte)
    BY <1>3, <1>4, Retyped
  <1>. QED
    BY <1>5 DEF text

Call == [at : {"idle", "store", "slice", "transmit", "rest", "truncate"},
         data : Seq(Char), num_sent : Nat]

Caller == Thread \cup {Main}

(* What the bound on the text given to send() says, with the types.         *)
BufferInv == BufferTypeOK /\ Len(written) <= MaxChars

LEMMA BufferInvParts ==
  ASSUME BufferInv
  PROVE  /\ out_buffer \in Seq(Char) /\ written \in Seq(Char) /\ sent \in Seq(OutByte)
         /\ Len(written) \in Nat /\ Len(written) <= MaxChars
         /\ call \in [Caller -> Call] /\ raises \in BOOLEAN
         /\ \A t \in Caller : call[t] \in Call /\ call[t].data \in Seq(Char)
                              /\ call[t].num_sent \in Nat
  BY DEF BufferInv, BufferTypeOK, Call, Caller, OutByte

(* The text of a call of send(): characters numbered from what was given.   *)
LEMMA TextTyped ==
  ASSUME BufferInv, NEW n \in 1..(MaxChars - Len(written)), NEW w \in Widths
  PROVE  LET data == [k \in 1..n |-> <<Len(written) + k, w>>]
         IN /\ data \in Seq(Char) /\ Len(data) = n
            /\ \A k \in 1..n : data[k] = <<Len(written) + k, w>>
            /\ written \o data \in Seq(Char)
            /\ Len(written \o data) <= MaxChars
  <1>. DEFINE data == [k \in 1..n |-> <<Len(written) + k, w>>]
  <1>1. /\ Len(written) \in Nat /\ Len(written) <= MaxChars /\ MaxChars \in Nat
        /\ written \in Seq(Char)
    BY BufferInvParts, SendBufferAssumption
  <1>2. n \in Nat /\ Len(written) + n <= MaxChars
    BY <1>1
  <1>3. ASSUME NEW k \in 1..n
        PROVE  <<Len(written) + k, w>> \in Char
    <2>1. Len(written) + k \in 1..MaxChars
      BY <1>1, <1>2
    <2>. QED
      BY <2>1 DEF Char
  <1>4. data \in Seq(Char) /\ Len(data) = n
    BY <1>2, <1>3
  <1>5. \A k \in 1..n : data[k] = <<Len(written) + k, w>>
    OBVIOUS
  <1>. HIDE DEF data
  <1>6. written \o data \in Seq(Char) /\ Len(written \o data) = Len(written) + n
    BY <1>1, <1>4, Joined
  <1>7. Len(written \o data) <= MaxChars
    BY <1>2, <1>6
  <1>. QED
    BY <1>4, <1>5, <1>6, <1>7 DEF data

LEMMA InitTyped == BufferInit => BufferInv
  <1>. SUFFICES ASSUME BufferInit PROVE BufferInv
    OBVIOUS
  <1>1. Idle \in Call
    BY DEF Idle, Call
  <1>2. call \in [Caller -> Call]
    BY <1>1 DEF BufferInit, Caller
  <1>3. /\ out_buffer \in Seq(Char) /\ written \in Seq(Char)
        /\ sent \in Seq((1..MaxChars) \X Nat) /\ raises \in BOOLEAN
    <2>1. <<>> \in Seq(Char) /\ <<>> \in Seq(OutByte)
      OBVIOUS
    <2>. QED
      BY <2>1 DEF BufferInit, OutByte
  <1>4. Len(written) <= MaxChars
    BY SendBufferAssumption DEF BufferInit
  <1>. QED
    BY <1>2, <1>3, <1>4 DEF BufferInv, BufferTypeOK, Caller, Call

LEMMA NextTyped == BufferInv /\ [BufferNext]_bufferVars => BufferInv'
  <1>. SUFFICES ASSUME BufferInv, [BufferNext]_bufferVars PROVE BufferInv'
    OBVIOUS
  <1>. USE BufferInvParts
  <1>0. Idle \in Call /\ Idle.data = <<>> /\ Main \in Caller
    BY DEF Idle, Call, Caller
  <1>1. CASE HandleWrite
    <2>1. call' \in [Caller -> Call]
      BY <1>0, <1>1 DEF HandleWrite, Call
    <2>. QED
      BY <1>1, <2>1 DEF HandleWrite, BufferInv, BufferTypeOK, Call, Caller
  <1>2. ASSUME NEW t \in Caller, Send(t)
        PROVE  BufferInv'
    <2>1. PICK n \in 1..(MaxChars - Len(written)) :
            \E w \in Widths :
              LET data == [k \in 1..n |-> <<Len(written) + k, w>>]
              IN /\ call' = [call EXCEPT ![t] = [Idle EXCEPT !.at = "store",
                                                             !.data = out_buffer \o data]]
                 /\ written' = written \o data
      BY <1>2 DEF Send
    <2>2. PICK w \in Widths :
              LET data == [k \in 1..n |-> <<Len(written) + k, w>>]
              IN /\ call' = [call EXCEPT ![t] = [Idle EXCEPT !.at = "store",
                                                             !.data = out_buffer \o data]]
                 /\ written' = written \o data
      BY <2>1
    <2>. DEFINE data == [k \in 1..n |-> <<Len(written) + k, w>>]
    <2>3. /\ data \in Seq(Char) /\ written \o data \in Seq(Char)
          /\ Len(written \o data) <= MaxChars
      BY TextTyped
    <2>4. /\ call' = [call EXCEPT ![t] = [Idle EXCEPT !.at = "store",
                                                      !.data = out_buffer \o data]]
          /\ written' = written \o data
      BY <2>2
    <2>. HIDE DEF data
    <2>5. out_buffer \o data \in Seq(Char)
      BY <2>3, Joined
    <2>6. [Idle EXCEPT !.at = "store", !.data = out_buffer \o data] \in Call
      BY <2>5 DEF Idle, Call
    <2>7. call' \in [Caller -> Call]
      BY <2>4, <2>6
    <2>8. out_buffer' = out_buffer /\ raises' = raises /\ sent' = sent
      BY <1>2 DEF Send
    <2>. QED
      BY <2>3, <2>4, <2>7, <2>8 DEF BufferInv, BufferTypeOK, Call, Caller
  <1>3. ASSUME NEW t \in Caller, StoreAppended(t)
        PROVE  BufferInv'
    <2>1. [Idle EXCEPT !.at = "slice"] \in Call
      <3>1. [at |-> "slice", data |-> <<>>, num_sent |-> 0] \in Call
        BY DEF Call
      <3>2. [Idle EXCEPT !.at = "slice"] = [at |-> "slice", data |-> <<>>, num_sent |-> 0]
        BY DEF Idle
      <3>. QED
        BY <3>1, <3>2
    <2>2. call' \in [Caller -> Call] /\ out_buffer' \in Seq(Char)
      BY <1>3, <2>1 DEF StoreAppended
    <2>. QED
      BY <1>3, <2>2 DEF StoreAppended, BufferInv, BufferTypeOK, Call, Caller
  <1>4. ASSUME NEW t \in Caller, Slice(t)
        PROVE  BufferInv'
    <2>1. Upto(out_buffer, Chunk) \in Seq(Char)
      BY SendBufferAssumption, UptoFacts
    <2>. DEFINE new == [call[t] EXCEPT !.at = "transmit", !.data = Upto(out_buffer, Chunk)]
    <2>2. new \in Call
      BY <2>1 DEF Call
    <2>3. call' = [call EXCEPT ![t] = new]
      BY <1>4 DEF Slice, Call
    <2>. HIDE DEF new
    <2>4. call' \in [Caller -> Call]
      BY <2>2, <2>3
    <2>. QED
      BY <1>4, <2>4 DEF Slice, BufferInv, BufferTypeOK, Call, Caller
  <1>5. ASSUME NEW t \in Caller, Transmit(t)
        PROVE  BufferInv'
    <2>1. PICK n \in AllBytes :
            /\ sent' = sent \o Upto(Encode(call[t].data), n)
            /\ call' = [call EXCEPT ![t].at = "rest", ![t].num_sent = n]
      BY <1>5 DEF Transmit, Take
    <2>2. n \in Nat
      BY SendBufferAssumption DEF AllBytes
    <2>3. Encode(call[t].data) \in Seq(OutByte)
      BY EncodeTyped
    <2>. DEFINE more == Upto(Encode(call[t].data), n)
                new == [call[t] EXCEPT !.at = "rest", !.num_sent = n]
    <2>4. more \in Seq(OutByte)
      BY <2>2, <2>3, UptoFacts
    <2>5. new \in Call /\ call' = [call EXCEPT ![t] = new]
      BY <2>1, <2>2 DEF Call
    <2>6. sent' = sent \o more
      BY <2>1
    <2>. HIDE DEF more, new
    <2>7. sent' \in Seq(OutByte)
      BY <2>4, <2>6, Joined
    <2>8. call' \in [Caller -> Call]
      BY <2>5
    <2>9. out_buffer' = out_buffer /\ raises' = raises /\ written' = written
      BY <1>5 DEF Transmit, Take
    <2>. QED
      BY <2>7, <2>8, <2>9 DEF BufferInv, BufferTypeOK, Call, Caller, OutByte
  <1>6. ASSUME NEW t \in Caller, LoadRest(t)
        PROVE  BufferInv'
    <2>1. From(out_buffer, call[t].num_sent) \in Seq(Char)
      BY FromFacts
    <2>. DEFINE new == [call[t] EXCEPT !.at = "truncate",
                                       !.data = From(out_buffer, call[t].num_sent)]
    <2>2. new \in Call
      BY <2>1 DEF Call
    <2>3. call' = [call EXCEPT ![t] = new]
      BY <1>6 DEF LoadRest, Call
    <2>. HIDE DEF new
    <2>4. call' \in [Caller -> Call]
      BY <2>2, <2>3
    <2>. QED
      BY <1>6, <2>4 DEF LoadRest, BufferInv, BufferTypeOK, Call, Caller
  <1>7. ASSUME NEW t \in Caller, StoreRest(t)
        PROVE  BufferInv'
    <2>1. call' \in [Caller -> Call] /\ out_buffer' \in Seq(Char)
      BY <1>0, <1>7 DEF StoreRest
    <2>. QED
      BY <1>7, <2>1 DEF StoreRest, BufferInv, BufferTypeOK, Call, Caller
  <1>8. ASSUME NEW t \in Caller, Raise(t)
        PROVE  BufferInv'
    <2>1. call' \in [Caller -> Call]
      BY <1>0, <1>8 DEF Raise
    <2>. QED
      BY <1>8, <2>1 DEF Raise, BufferInv, BufferTypeOK, Call, Caller
  <1>9. CASE UNCHANGED bufferVars
    BY <1>9 DEF bufferVars, BufferInv, BufferTypeOK
  <1>. QED
    BY <1>1, <1>2, <1>3, <1>4, <1>5, <1>6, <1>7, <1>8, <1>9 DEF BufferNext, Step, Caller


-----------------------------------------------------------------------------
(* A connection that no worker writes to.  What is pending is in the buffer,*)
(* but for a store that is about to put it there.                           *)

Pending ==
  CASE call[Main].at \in {"store", "truncate"} -> call[Main].data
    [] call[Main].at = "rest" -> From(out_buffer, call[Main].num_sent)
    [] OTHER -> out_buffer

OutSoFar ==
  /\ Progress(Pending, written, sent)
  /\ Counted(written)
  /\ call[Main].at = "transmit" => call[Main].data = Upto(out_buffer, Chunk)

LEMMA PendingTyped ==
  ASSUME BufferInv
  PROVE  /\ Pending \in Seq(Char) /\ Pending \in Seq(Character)
         /\ written \in Seq(Character) /\ sent \in Seq(Byte)
  <1>1. /\ out_buffer \in Seq(Char) /\ call[Main].data \in Seq(Char)
        /\ call[Main].num_sent \in Nat
        /\ written \in Seq(Char) /\ sent \in Seq(OutByte)
    BY BufferInvParts DEF Caller
  <1>2. From(out_buffer, call[Main].num_sent) \in Seq(Char)
    BY <1>1, FromFacts
  <1>3. Pending \in Seq(Char)
    BY <1>1, <1>2 DEF Pending
  <1>. QED
    BY <1>1, <1>3, CharTyped, OutByteTyped

LEMMA InitSoFar == BufferInit => OutSoFar
  <1>. SUFFICES ASSUME BufferInit PROVE OutSoFar
    OBVIOUS
  <1>1. call[Main] = Idle
    BY DEF BufferInit
  <1>2. call[Main].at = "idle"
    BY <1>1 DEF Idle
  <1>3. Pending = <<>> /\ written = <<>> /\ sent = <<>>
    BY <1>2 DEF Pending, BufferInit
  <1>4. Len(<<>>) = 0
    OBVIOUS
  <1>5. Progress(<<>>, <<>>, <<>>)
    BY <1>4 DEF Progress, Offset, Ordered
  <1>6. Counted(written)
    BY <1>3, <1>4 DEF Counted
  <1>. QED
    BY <1>2, <1>3, <1>5, <1>6 DEF OutSoFar

LEMMA NextSoFar ==
  ASSUME Thread = {}, BufferInv, OutSoFar, [BufferNext]_bufferVars
  PROVE  OutSoFar'
  <1>. USE PendingTyped
  <1>0. /\ call \in [Caller -> Call] /\ Main \in Caller /\ call[Main] \in Call
        /\ out_buffer \in Seq(Char) /\ written \in Seq(Char)
        /\ Progress(Pending, written, sent) /\ Counted(written)
    BY BufferInvParts DEF OutSoFar, Caller
  (* A step that only moves what is pending.                                *)
  <1>. DEFINE Same == /\ Pending' = Pending /\ written' = written /\ sent' = sent
                      /\ call'[Main].at = "transmit" =>
                           call'[Main].data = Upto(out_buffer', Chunk)
  <1>1. Same => OutSoFar'
    BY <1>0 DEF OutSoFar
  <1>2. CASE HandleWrite
    <2>1. /\ call'[Main].at = "slice" /\ call[Main].at = "idle"
          /\ out_buffer' = out_buffer /\ written' = written /\ sent' = sent
      BY <1>0, <1>2 DEF HandleWrite, Call
    <2>. QED
      BY <1>1, <2>1 DEF Pending
  <1>3. CASE Send(Main)
    <2>1. PICK n \in 1..(MaxChars - Len(written)) :
            \E w \in Widths :
              LET data == [k \in 1..n |-> <<Len(written) + k, w>>]
              IN /\ call' = [call EXCEPT ![Main] = [Idle EXCEPT !.at = "store",
                                                                !.data = out_buffer \o data]]
                 /\ written' = written \o data
      BY <1>3 DEF Send
    <2>2. PICK w \in Widths :
              LET data == [k \in 1..n |-> <<Len(written) + k, w>>]
              IN /\ call' = [call EXCEPT ![Main] = [Idle EXCEPT !.at = "store",
                                                                !.data = out_buffer \o data]]
                 /\ written' = written \o data
      BY <2>1
    <2>. DEFINE data == [k \in 1..n |-> <<Len(written) + k, w>>]
    <2>3. /\ data \in Seq(Char) /\ Len(data) = n
          /\ \A k \in 1..n : data[k] = <<Len(written) + k, w>>
          /\ written \o data \in Seq(Char)
      BY TextTyped
    <2>4. /\ call' = [call EXCEPT ![Main] = [Idle EXCEPT !.at = "store",
                                                         !.data = out_buffer \o data]]
          /\ written' = written \o data
      BY <2>2
    <2>. HIDE DEF data
    <2>5. call'[Main] = [Idle EXCEPT !.at = "store", !.data = out_buffer \o data]
      BY <1>0, <2>4
    <2>6. call'[Main].at = "store" /\ call'[Main].data = out_buffer \o data
      BY <2>5 DEF Idle
    <2>7. call[Main].at = "idle" /\ sent' = sent
      BY <1>3 DEF Send
    <2>8. Pending = out_buffer /\ Pending' = out_buffer \o data
      BY <2>6, <2>7 DEF Pending
    <2>9. Progress(Pending \o data, written \o data, sent)
      BY <1>0, <2>3, CharTyped, GivenMore
    <2>10. Counted(written \o data)
      <3>. DEFINE all == written \o data
      <3>0. written \in Seq(Char) /\ data \in Seq(Char) /\ Len(written) \in Nat
        BY <1>0, <2>3
      <3>1. /\ Len(all) = Len(written) + Len(data)
            /\ \A k \in 1..Len(written) : all[k] = written[k]
            /\ \A k \in 1..Len(all) : ~(k <= Len(written)) =>
                 k - Len(written) \in 1..Len(data) /\ all[k] = data[k - Len(written)]
        BY ONLY <3>0, Joined, Zenon
      <3>. HIDE DEF all
      <3>2. ASSUME NEW k \in 1..Len(all)
            PROVE  all[k][1] = k
        <4>1. CASE k <= Len(written)
          <5>1. k \in 1..Len(written)
            BY <3>0, <3>1, <4>1
          <5>. QED
            BY <1>0, <3>1, <5>1 DEF Counted
        <4>2. CASE ~(k <= Len(written))
          <5>1. k - Len(written) \in 1..n /\ all[k] = data[k - Len(written)]
            BY <2>3, <3>1, <4>2
          <5>2. all[k] = <<Len(written) + (k - Len(written)), w>>
            BY <2>3, <5>1
          <5>3. Len(written) + (k - Len(written)) = k
            BY <3>0
          <5>. QED
            BY <5>2, <5>3
        <4>. QED
          BY <4>1, <4>2
      <3>3. Counted(all)
        BY <3>2 DEF Counted
      <3>. QED
        BY <3>3 DEF all
    <2>. QED
      BY <2>4, <2>6, <2>7, <2>8, <2>9, <2>10 DEF OutSoFar
  <1>4. CASE StoreAppended(Main)
    <2>1. call'[Main] = [Idle EXCEPT !.at = "slice"] /\ call[Main].at = "store"
          /\ out_buffer' = call[Main].data /\ written' = written /\ sent' = sent
      BY <1>0, <1>4 DEF StoreAppended
    <2>2. call'[Main].at = "slice"
      BY <2>1 DEF Idle
    <2>. QED
      BY <1>1, <2>1, <2>2 DEF Pending
  <1>5. CASE Slice(Main)
    <2>1. /\ call[Main].at = "slice" /\ call'[Main].at = "transmit"
          /\ call'[Main].data = Upto(out_buffer, Chunk)
          /\ out_buffer' = out_buffer /\ written' = written /\ sent' = sent
      BY <1>0, <1>5 DEF Slice, Call
    <2>. QED
      BY <1>1, <2>1 DEF Pending
  <1>6. CASE Transmit(Main)
    <2>1. PICK n \in AllBytes :
            /\ n <= Len(Encode(call[Main].data))
            /\ sent' = sent \o Upto(Encode(call[Main].data), n)
            /\ call' = [call EXCEPT ![Main].at = "rest", ![Main].num_sent = n]
      BY <1>6 DEF Transmit, Take
    <2>2. n \in Nat /\ Chunk \in Nat
      BY SendBufferAssumption DEF AllBytes
    <2>3. /\ call[Main].at = "transmit" /\ out_buffer' = out_buffer /\ written' = written
          /\ call'[Main].at = "rest" /\ call'[Main].num_sent = n
      BY <1>0, <1>6, <2>1 DEF Transmit, Take, Call
    <2>4. Pending = out_buffer /\ Pending' = From(out_buffer, n)
      BY <2>3 DEF Pending
    <2>5. call[Main].data = Upto(Pending, Chunk)
      BY <2>3, <2>4 DEF OutSoFar
    <2>6. Progress(From(Pending, n), written, sent \o Upto(Encode(Upto(Pending, Chunk)), n))
      BY <1>0, <2>1, <2>2, <2>5, SentMore
    <2>. QED
      BY <1>0, <2>1, <2>3, <2>4, <2>5, <2>6 DEF OutSoFar
  <1>7. CASE LoadRest(Main)
    <2>1. /\ call[Main].at = "rest" /\ call'[Main].at = "truncate"
          /\ call'[Main].data = From(out_buffer, call[Main].num_sent)
          /\ out_buffer' = out_buffer /\ written' = written /\ sent' = sent
      BY <1>0, <1>7 DEF LoadRest, Call
    <2>. QED
      BY <1>1, <2>1 DEF Pending
  <1>8. CASE StoreRest(Main)
    <2>1. /\ call'[Main] = Idle /\ call[Main].at = "truncate"
          /\ out_buffer' = call[Main].data /\ written' = written /\ sent' = sent
      BY <1>0, <1>8 DEF StoreRest
    <2>2. call'[Main].at = "idle"
      BY <2>1 DEF Idle
    <2>. QED
      BY <1>1, <2>1, <2>2 DEF Pending
  <1>9. CASE Raise(Main)
    <2>1. /\ call'[Main] = Idle /\ call[Main].at = "transmit"
          /\ out_buffer' = out_buffer /\ written' = written /\ sent' = sent
      BY <1>0, <1>9 DEF Raise
    <2>2. call'[Main].at = "idle"
      BY <2>1 DEF Idle
    <2>. QED
      BY <1>1, <2>1, <2>2 DEF Pending
  <1>10. CASE UNCHANGED bufferVars
    <2>1. out_buffer' = out_buffer /\ call' = call /\ written' = written /\ sent' = sent
      BY <1>10 DEF bufferVars
    <2>2. Pending' = Pending
      BY <2>1 DEF Pending
    <2>. QED
      BY <1>1, <2>1, <2>2 DEF OutSoFar
  <1>11. Thread \cup {Main} = {Main}
    OBVIOUS
  <1>. QED
    BY <1>2, <1>3, <1>4, <1>5, <1>6, <1>7, <1>8, <1>9, <1>10, <1>11 DEF BufferNext, Step

LEMMA SoFarInOrder ==
  ASSUME BufferInv, OutSoFar
  PROVE  OutInOrder
  <1>. SUFFICES ASSUME Quiet
                PROVE  /\ \A i \in 1..(Len(Output) - 1) : Precedes(Output[i], Output[i + 1])
                       /\ (\A i \in DOMAIN written : written[i][2] = 1) =>
                            Output = Encode(written)
    BY DEF OutInOrder
  <1>1. call[Main].at = "idle"
    BY DEF Quiet
  <1>2. Pending = out_buffer
    BY <1>1 DEF Pending
  <1>3. /\ Output \in Seq(Byte) /\ Ordered(Output)
        /\ OneByte(written) => Output = Encode(written)
    BY <1>2, PendingTyped, AllOut DEF OutSoFar, Output
  <1>4. DOMAIN written = 1..Len(written)
    BY PendingTyped
  <1>5. ASSUME NEW i \in 1..(Len(Output) - 1)
        PROVE  Precedes(Output[i], Output[i + 1])
    <2>1. Len(Output) \in Nat
      BY <1>3
    <2>2. i \in 1..Len(Output) /\ i + 1 \in 1..Len(Output) /\ i < i + 1
      BY <2>1
    <2>. QED
      BY <1>3, <2>2 DEF Ordered
  <1>. QED
    BY <1>3, <1>4, <1>5 DEF OneByte

(* The types of the state hold, whoever calls send().                       *)
THEOREM BufferTyped == BufferSpec => []BufferTypeOK
  <1>1. BufferInv => BufferTypeOK
    BY DEF BufferInv
  <1>. QED
    BY <1>1, InitTyped, NextTyped, PTL DEF BufferSpec

(* A connection that only the main loop writes to sends what it was given,  *)
(* in order, nothing twice, and nothing left out if no character is wider   *)
(* than a byte: for texts and chunks of any length, through partial sends,  *)
(* full sockets and a socket that breaks (core.py 508-535).                 *)
THEOREM OutInOrderHolds ==
  ASSUME Thread = {}
  PROVE  BufferSpec => []OutInOrder
  <1>1. BufferInit => BufferInv /\ OutSoFar
    BY InitTyped, InitSoFar
  <1>2. (BufferInv /\ OutSoFar) /\ [BufferNext]_bufferVars => (BufferInv /\ OutSoFar)'
    BY NextTyped, NextSoFar
  <1>3. BufferInv /\ OutSoFar => OutInOrder
    BY SoFarInOrder
  <1>. QED
    BY <1>1, <1>2, <1>3, PTL DEF BufferSpec

=============================================================================
