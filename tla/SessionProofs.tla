---------------------------- MODULE SessionProofs ----------------------------
(***************************************************************************)
(* Proofs about Session, for every number of connections and of stanzas,    *)
(* and every way recv() cuts the input.                                     *)
(***************************************************************************)
EXTENDS Session, SequenceLemmas, TLAPS

-----------------------------------------------------------------------------
(* Folds.                                                                   *)

(* A set of numbers has a greatest one.                                     *)
LEMMA Greatest ==
  ASSUME NEW n \in Nat, NEW s \in SUBSET (1..n), s # {}
  PROVE  Max(s) \in s /\ \A y \in s : y <= Max(s)
  <1>. DEFINE Has(t) == \E m \in t : \A y \in t : m >= y
              N == {k \in Nat : \A t \in SUBSET (1..k) : t # {} => Has(t)}
  <1>1. 0 \in N
    <2>1. \A t \in SUBSET (1..0) : t = {}
      OBVIOUS
    <2>. HIDE DEF Has
    <2>. QED
      BY <2>1
  <1>2. ASSUME NEW k \in Nat, k \in N
        PROVE  k + 1 \in N
    <2>1. ASSUME NEW t \in SUBSET (1..(k + 1)), t # {}
          PROVE  Has(t)
      <3>1. CASE k + 1 \in t
        <4>1. \A y \in t : k + 1 >= y
          OBVIOUS
        <4>. QED
          BY <3>1, <4>1
      <3>2. CASE k + 1 \notin t
        <4>1. t \in SUBSET (1..k)
          <5>1. ASSUME NEW y \in t PROVE y \in 1..k
            <6>1. y \in 1..(k + 1) /\ y # k + 1
              BY <3>2
            <6>. QED
              BY <6>1
          <5>. QED
            BY <5>1
        <4>. QED
          BY <1>2, <2>1, <4>1
      <3>. QED
        BY <3>1, <3>2
    <2>2. k + 1 \in Nat
      OBVIOUS
    <2>. QED
      BY <2>1, <2>2
  <1>3. Nat \subseteq N
    <2>. HIDE DEF N
    <2>. QED
      BY <1>1, <1>2, Induction
  <1>4. Has(s)
    BY <1>3
  <1>5. Max(s) \in s /\ \A y \in s : Max(s) >= y
    BY <1>4 DEF Max
  <1>6. \A y \in s : y \in Nat
    OBVIOUS
  <1>. QED
    BY <1>5, <1>6

LEMMA WithoutGreatest ==
  ASSUME NEW n \in Nat, NEW s \in SUBSET (1..(n + 1)), s # {}
  PROVE  s \ {Max(s)} \in SUBSET (1..n)
  <1>0. n + 1 \in Nat
    OBVIOUS
  <1>1. Max(s) \in s /\ \A y \in s : y <= Max(s)
    BY <1>0, Greatest
  <1>2. ASSUME NEW y \in s, y # Max(s)
        PROVE  y \in 1..n
    <2>1. y \in 1..(n + 1) /\ Max(s) \in 1..(n + 1) /\ y <= Max(s)
      BY <1>1
    <2>. QED
      BY <1>2, <2>1
  <1>. QED
    BY <1>2

LEMMA GreatestOfInterval ==
  ASSUME NEW n \in Nat, n # 0
  PROVE  Max(1..n) = n /\ (1..n) \ {n} = 1..(n - 1)
  <1>1. 1..n \in SUBSET (1..n) /\ 1..n # {} /\ n \in 1..n
    OBVIOUS
  <1>2. Max(1..n) \in 1..n /\ n <= Max(1..n)
    BY <1>1, Greatest
  <1>. QED
    BY <1>2

(* Parsing a chunk is parsing its symbols one after the other.              *)
LEMMA ParsedTrace ==
  ASSUME NEW S, NEW p, NEW chunk \in Seq(S)
  PROVE  \E f : /\ f[0] = p
                /\ \A k \in 1..Len(chunk) : f[k] = Symbolized(f[k - 1], chunk[k])
                /\ Parsed(p, chunk) = f[Len(chunk)]
  <1>. DEFINE D == DOMAIN chunk
              Def(g, A) == g = [s \in SUBSET A |->
                 IF s = {} THEN p
                 ELSE Symbolized(g[s \ {Max(s)}], chunk[Max(s)])]
              N == {k \in Nat : \E g : Def(g, 1..k)}
  <1>1. Parsed(p, chunk) = (CHOOSE g : Def(g, D))[D]
    BY DEF Parsed, FoldLeft, MapThenFoldSet
  <1>2. 0 \in N
    <2>. DEFINE g == [s \in SUBSET (1..0) |-> p]
    <2>1. \A s \in SUBSET (1..0) : s = {}
      OBVIOUS
    <2>2. Def(g, 1..0)
      BY <2>1
    <2>. HIDE DEF g
    <2>. QED
      BY <2>2
  <1>3. ASSUME NEW k \in Nat, k \in N
        PROVE  k + 1 \in N
    <2>1. PICK g : Def(g, 1..k)
      BY <1>3
    <2>. DEFINE h == [s \in SUBSET (1..(k + 1)) |->
                        IF s = {} THEN p
                        ELSE Symbolized(g[s \ {Max(s)}], chunk[Max(s)])]
    <2>2. \A s \in SUBSET (1..k) : s \in SUBSET (1..(k + 1)) /\ h[s] = g[s]
      <3>1. ASSUME NEW s \in SUBSET (1..k)
            PROVE  s \in SUBSET (1..(k + 1)) /\ h[s] = g[s]
        <4>1. g[s] = IF s = {} THEN p ELSE Symbolized(g[s \ {Max(s)}], chunk[Max(s)])
          BY <2>1
        <4>2. s \in SUBSET (1..(k + 1))
          OBVIOUS
        <4>. QED
          BY <4>1, <4>2
      <3>. QED
        BY <3>1
    <2>3. \A s \in SUBSET (1..(k + 1)) : s # {} => h[s \ {Max(s)}] = g[s \ {Max(s)}]
      BY <2>2, WithoutGreatest
    <2>4. h = [s \in SUBSET (1..(k + 1)) |->
                 IF s = {} THEN p ELSE Symbolized(h[s \ {Max(s)}], chunk[Max(s)])]
      BY <2>3
    <2>. HIDE DEF h
    <2>5. Def(h, 1..(k + 1))
      BY ONLY <2>4, Zenon
    <2>6. k + 1 \in Nat
      OBVIOUS
    <2>7. \E x : Def(x, 1..(k + 1))
      BY <2>5
    <2>. HIDE DEF Def
    <2>. QED
      BY <2>6, <2>7
  <1>4. Nat \subseteq N
    <2>. HIDE DEF N
    <2>. QED
      BY <1>2, <1>3, Induction
  <1>5. D = 1..Len(chunk) /\ Len(chunk) \in Nat
    OBVIOUS
  <1>6. \E g : Def(g, D)
    BY <1>4, <1>5
  <1>7. PICK G : Def(G, D) /\ Parsed(p, chunk) = G[D]
    <2>. HIDE DEF Def
    <2>. QED
      BY <1>1, <1>6
  <1>. DEFINE f == [k \in 0..Len(chunk) |-> G[1..k]]
  <1>8. ASSUME NEW s \in SUBSET D
        PROVE  G[s] = IF s = {} THEN p ELSE Symbolized(G[s \ {Max(s)}], chunk[Max(s)])
    BY <1>7
  <1>9. f[0] = p
    <2>1. 1..0 = {} /\ 0 \in 0..Len(chunk) /\ 1..0 \in SUBSET D
      BY <1>5
    <2>. QED
      BY <1>8, <2>1
  <1>10. ASSUME NEW k \in 1..Len(chunk)
         PROVE  f[k] = Symbolized(f[k - 1], chunk[k])
    <2>a. k \in Nat /\ k # 0 /\ k \in 0..Len(chunk) /\ k - 1 \in 0..Len(chunk) /\ k \in 1..k
      BY <1>5
    <2>b. 1..k \subseteq 1..Len(chunk)
      BY <1>5
    <2>1. /\ k \in Nat /\ k # 0 /\ 1..k \in SUBSET D /\ 1..k # {}
          /\ k \in 0..Len(chunk) /\ k - 1 \in 0..Len(chunk)
      BY <1>5, <2>a, <2>b, Zenon
    <2>2. Max(1..k) = k /\ (1..k) \ {k} = 1..(k - 1)
      BY <2>1, GreatestOfInterval
    <2>3. G[1..k] = Symbolized(G[1..(k - 1)], chunk[k])
      BY <1>8, <2>1, <2>2
    <2>. QED
      BY <2>1, <2>3
  <1>11. Parsed(p, chunk) = f[Len(chunk)]
    BY <1>5, <1>7
  <1>. HIDE DEF f
  <1>. QED
    BY <1>9, <1>10, <1>11
(* Events as the parser makes them: a stanza is there.                      *)
GoodEvent == {e \in Event : e.kind = "stanza" => e.stanza \in Stanza}

Number(e) == IF e.kind = "stanza" THEN <<e.stanza.no>> ELSE <<>>

LEMMA NumberTyped ==
  ASSUME NEW e \in GoodEvent
  PROVE  Number(e) \in Seq(Nat)
  <1>1. CASE e.kind = "stanza"
    <2>1. e.stanza \in Stanza
      BY <1>1 DEF GoodEvent
    <2>2. e.stanza.no \in Nat
      BY <2>1 DEF Stanza
    <2>. QED
      BY <1>1, <2>2 DEF Number
  <1>2. CASE e.kind # "stanza"
    BY <1>2 DEF Number
  <1>. QED
    BY <1>1, <1>2

LEMMA NumbersEmpty == Numbers(<<>>) = <<>>
  <1>1. [i \in DOMAIN <<>> |-> Number(<<>>[i])] = <<>>
    OBVIOUS
  <1>2. FlattenSeq(<<>>) = <<>>
    <2>1. Len(<<>>) = 0
      OBVIOUS
    <2>. QED
      BY <2>1 DEF FlattenSeq
  <1>. QED
    BY <1>1, <1>2 DEF Numbers, Number

LEMMA NumbersAppend ==
  ASSUME NEW events \in Seq(GoodEvent), NEW e \in GoodEvent
  PROVE  Numbers(Append(events, e)) = IF Len(events) = 0 THEN Number(e)
                                      ELSE Numbers(events) \o Number(e)
  <1>. DEFINE s == [i \in 1..Len(events) |-> Number(events[i])]
              t == [i \in 1..Len(Append(events, e)) |-> Number(Append(events, e)[i])]
  <1>0. Len(events) \in Nat /\ Len(Append(events, e)) = Len(events) + 1
    OBVIOUS
  <1>1. /\ DOMAIN events = 1..Len(events)
        /\ DOMAIN Append(events, e) = 1..Len(Append(events, e))
    OBVIOUS
  <1>2. Numbers(events) = FlattenSeq(s) /\ Numbers(Append(events, e)) = FlattenSeq(t)
    BY <1>1 DEF Numbers, Number
  <1>3. \A i \in 1..Len(events) : Number(events[i]) \in Seq(Nat)
    BY NumberTyped
  <1>4. Number(e) \in Seq(Nat)
    BY NumberTyped
  <1>5. s \in Seq(Seq(Nat)) /\ Len(s) = Len(events)
    BY <1>0, <1>3
  <1>6. t = Append(s, Number(e))
    <2>1. \A i \in 1..Len(events) : Append(events, e)[i] = events[i]
      OBVIOUS
    <2>2. Append(events, e)[Len(events) + 1] = e
      OBVIOUS
    <2>3. \A i \in 1..(Len(events) + 1) : i \in 1..Len(events) \/ i = Len(events) + 1
      BY <1>0
    <2>4. \A i \in 1..Len(events) : t[i] = s[i]
      BY <1>0, <2>1
    <2>5. t[Len(events) + 1] = Number(e)
      BY <1>0, <2>2
    <2>6. \A i \in 1..(Len(events) + 1) : t[i] \in Seq(Nat)
      BY <1>3, <1>4, <2>3, <2>4, <2>5
    <2>7. t \in Seq(Seq(Nat)) /\ Len(t) = Len(events) + 1
      BY <1>0, <2>6
    <2>8. /\ Append(s, Number(e)) \in Seq(Seq(Nat))
          /\ Len(Append(s, Number(e))) = Len(events) + 1
          /\ \A i \in 1..Len(events) : Append(s, Number(e))[i] = s[i]
          /\ Append(s, Number(e))[Len(events) + 1] = Number(e)
      BY <1>4, <1>5
    <2>. HIDE DEF s, t
    <2>9. \A i \in 1..(Len(events) + 1) : t[i] = Append(s, Number(e))[i]
      BY <2>3, <2>4, <2>5, <2>8
    <2>. QED
      BY <2>7, <2>8, <2>9, SameSequence
  <1>. HIDE DEF s, t
  <1>. QED
    BY <1>2, <1>4, <1>5, <1>6, FlattenAppend

-----------------------------------------------------------------------------
(* What is on its way to the server.                                        *)

TagFollows(x, y) ==
  \/ x = "head" /\ y = "rest"
  \/ x = "rest" /\ y = "end"
  \/ x \in {"open", "end"} /\ y \in {"head", "close"}

(* Tags follow each other as they should, and nothing is sent in part.      *)
Wired(w) ==
  /\ w \in Seq(Symbol)
  /\ \A i \in 1..Len(w), j \in 1..Len(w) : j = i + 1 => TagFollows(w[i].tag, w[j].tag)
  /\ w # <<>> => w[Len(w)].tag \in {"open", "end", "close"}
  /\ \A i \in 1..Len(w) : w[i].tag \in {"head", "rest", "end"} => w[i].stanza \in Stanza

(* f counts the stanzas that are complete, h of them before w.              *)
Tally(f, w, h) ==
  /\ f \in [0..Len(w) -> Nat]
  /\ f[0] = h
  /\ \A i \in 1..Len(w) :
       /\ f[i] = IF w[i].tag = "end" THEN f[i - 1] + 1 ELSE f[i - 1]
       /\ w[i].tag = "rest" => w[i].stanza.no = f[i - 1] + 1

(* h stanzas come before w, and the last one is the n-th.                   *)
Tallied(w, h, n) ==
  \E f \in [0..Len(w) -> Nat] :
    Tally(f, w, h) /\ f[Len(w)] = n /\ \A i \in 0..Len(w) : f[i] <= n

(* The tag of the k-th symbol of w.                                         *)
TagAt(w, k) == IF k \in 1..Len(w) THEN w[k].tag ELSE "none"

-----------------------------------------------------------------------------
(* Where a parser is.  It is fresh before a <stream>, and after a reset; it *)
(* is torn when it has the beginning of a tag that it needed in one piece.  *)

Alive(p) == ~p.dead /\ ~p.quirk

Fresh(p) == Alive(p) /\ p.root = "none" /\ p.open = 0 /\ p.depth = 0 /\ ~p.cut
Torn(p)  == Alive(p) /\ p.root = "none" /\ p.open = 0 /\ p.depth = 0 /\ p.cut

Inside(p)  == Alive(p) /\ p.root = "stream" /\ p.stream /\ p.depth = p.open
Between(p) == Inside(p) /\ p.open = 1 /\ ~p.cut
InTag(p)   == Inside(p) /\ p.open = 1 /\ p.cut
InBody(p, n) == Inside(p) /\ p.open = 2 /\ ~p.cut /\ p.tree \in Stanza /\ p.tree.no = n

(* It has found a stanza where <stream:stream> was expected.                *)
Misled(p) == p.quirk /\ p.root = "stanza" /\ p.depth # 0 /\ p.events = <<>>

(* It is in the stream, h stanzas are complete, and tag comes next.         *)
Follows(p, tag, h) ==
  \/ Between(p) /\ tag \in {"none", "head", "close"}
  \/ InTag(p) /\ tag = "rest"
  \/ InBody(p, h + 1) /\ tag = "end"

(* What it gets is what it expects.                                         *)
Expects(p, tag, h) ==
  \/ Follows(p, tag, h)
  \/ Fresh(p) /\ tag \in {"none", "open", "head", "close"}

(* A stanza is lost, and so is all that comes after it.                     *)
Lost(p, tag) ==
  \/ p.dead /\ tag # "open"
  \/ Torn(p) /\ tag = "rest"
  \/ Between(p) /\ tag = "end"

-----------------------------------------------------------------------------
(* The input of a connection, the types of which are the hard ones.         *)

InputTyped(c) ==
  /\ parser[c] \in Parser /\ ~parser[c].over /\ ~parser[c].quirk /\ parser[c].events = <<>>
  /\ Wired(net[c])
  /\ handled[c] \in Seq(Nat)
  /\ \A i \in 1..Len(handled[c]) : handled[c][i] = i
  /\ client[c].end = "no" => TagAt(net[c], Len(net[c])) # "close"

InputFollowed(c) ==
  LET h == Len(handled[c])
      tag == TagAt(net[c], 1)
  IN IF client[c].end = "reset" THEN net[c] = <<>>
     ELSE /\ h <= client[c].sent
          /\ \/ /\ ~split[c] /\ Tallied(net[c], h, client[c].sent)
                /\ Expects(parser[c], tag, h)
             \/ split[c] /\ h < client[c].sent /\ Lost(parser[c], tag)
             \/ /\ ~split[c] /\ h = client[c].sent /\ net[c] = <<>>
                /\ parser[c].dead /\ parser[c].depth # 2 /\ client[c].end # "no"

(* What is under way to the parser and in it, and waits for its handler.    *)
Carried(w) == {w[i].stanza : i \in {k \in 1..Len(w) : w[k].tag \in {"head", "rest", "end"}}}

Upcoming(p, w) == (Carried(w) \cup (IF p.depth = 2 THEN {p.tree} ELSE {})) \cap Stanza

Flying(c) == IF client[c].end = "reset" THEN {} ELSE Upcoming(parser[c], net[c])

Waiting(c) ==
  {s.kind : s \in Flying(c)} \cup {queue[c][i].kind : i \in 1..Len(queue[c])}
  \cup (IF job[c].at = "act" THEN {job[c].kind} ELSE {})

AuthKind == SaslKind \cup IqAuthKind

Busy(c) == job[c].at \notin {"idle", "last", "listing"}

(* Until it has a resource a client waits for each answer.                  *)
OneAtATime(c) ==
  ~OwnResource(c) =>
    /\ client[c].sent <= Len(handled[c]) + 1
    /\ client[c].sent > Len(handled[c]) \/ Busy(c) =>
         \A i \in 1..Len(queue[c]) : queue[c][i].kind \notin Kind
    /\ client[c].sent > Len(handled[c]) => ~Busy(c)
    /\ \A i, j \in 1..Len(queue[c]) :
         queue[c][i].kind \in Kind /\ queue[c][j].kind \in Kind => i = j

(* It authenticates before it has logged in, and does the rest afterwards:  *)
(* it asks for a resource while it has none, and once.                      *)
Authenticating(c) ==
  /\ data[c].jid => Waiting(c) \cap AuthKind = {}
  /\ ~data[c].jid => Waiting(c) \cap {"ask", "presence", "bind", "rebind"} = {}
  /\ data[c].sasl.complete => data[c].jid
  /\ data[c].resource # None => "bind" \notin Waiting(c)
  /\ Waiting(c) \cap Kind \subseteq Kinds[c]

(* The first <stream> comes before all else; after the parser was reset for *)
(* a client that has to start its stream again, it does that first.         *)
Headed(c) ==
  /\ client[c].sent = 0 => /\ ~Busy(c) /\ ~data[c].jid
                           /\ \A i \in 1..Len(queue[c]) : queue[c][i].kind \notin Kind
  /\ client[c].headers = 0 => client[c].sent = 0 /\ client[c].end # "close" /\ net[c] = <<>>
  /\ TagAt(net[c], 1) = "open" =>
       \/ client[c].headers = 1 /\ client[c].sent = 0
       \/ client[c].headers = 2 /\ data[c].jid /\ parser[c].stream
  /\ client[c].end = "no" /\ HeaderDue(c) => net[c] = <<>> /\ Fresh(parser[c])
  /\ Fresh(parser[c]) /\ client[c].end # "reset" =>
       \/ data[c].jid
       \/ net[c] = <<>> /\ (client[c].headers = 0 \/ client[c].end # "no")
       \/ TagAt(net[c], 1) = "open"
  /\ split[c] => data[c].jid

(* The second <stream> finds the parser of the first.                       *)
Restarted(c) ==
  /\ client[c].end = "no" /\ HeaderDue(c) /\ client[c].headers = 1 => parser[c].stream
  /\ \A i \in 1..Len(queue[c]) : queue[c][i].kind = "init" => client[c].headers = 1
                                                     /\ client[c].sent = 0
  /\ client[c].headers = 2 =>
       /\ data[c].sasl.complete
       /\ client[c].end # "reset" =>
            \/ TagAt(net[c], 1) = "open" /\ parser[c].stream
            \/ \E i \in 1..Len(queue[c]) : queue[c][i].kind = "reinit"
            \/ offered[c] = "bind"

(* Nothing comes after the end; and it is on its way, or waits, or is being *)
(* handled, unless expat has given up, as it does not before the client has *)
(* logged in.                                                               *)
Ended(c) ==
  /\ (\E i \in 1..Len(queue[c]) : queue[c][i].kind = "end") \/ data[c].closing =>
       net[c] = <<>> /\ client[c].end # "no"
  /\ \A i \in 1..Len(queue[c]), j \in 1..Len(queue[c]) :
       i < j /\ queue[c][i].kind = "end" => queue[c][j].kind = "end"
  /\ data[c].closing => ~Busy(c) /\ \A i \in 1..Len(queue[c]) : queue[c][i].kind = "end"
  /\ job[c].at \in {"last", "listing"} => data[c].closing
  /\ client[c].end = "close" =>
       \/ TagAt(net[c], Len(net[c])) = "close" \/ parser[c].dead \/ data[c].closing
       \/ \E i \in 1..Len(queue[c]) : queue[c][i].kind = "end"
  /\ parser[c].dead /\ client[c].end # "reset" => data[c].jid \/ data[c].closing

InputInv(c) ==
  /\ InputTyped(c) /\ InputFollowed(c) /\ OneAtATime(c) /\ Authenticating(c)
  /\ Headed(c) /\ Restarted(c) /\ Ended(c)

-----------------------------------------------------------------------------
(* What a symbol does to a parser, one lemma per place it can be in.        *)

GoodParser(p) == p \in Parser /\ p.events \in Seq(GoodEvent)

(* The fields of a parser.                                                  *)
LEMMA ParserFields ==
  ASSUME NEW p \in Parser
  PROVE  /\ p.root \in {"none", "stream", "stanza"} /\ p.open \in Nat /\ p.depth \in Nat
         /\ p.cut \in BOOLEAN /\ p.dead \in BOOLEAN /\ p.stream \in BOOLEAN
         /\ p.quirk \in BOOLEAN /\ p.over \in BOOLEAN
         /\ p.tree \in Stanza \cup {None} /\ p.events \in Seq(Event)
  BY DEF Parser

LEMMA HeadStep ==
  ASSUME NEW p, GoodParser(p), NEW y \in Symbol, y.tag = "head", ~p.dead, ~p.over
  PROVE  Symbolized(p, y) = [p EXCEPT !.cut = TRUE] /\ GoodParser(Symbolized(p, y))
  <1>1. Symbolized(p, y) = [p EXCEPT !.cut = TRUE]
    BY DEF Symbolized
  <1>2. [p EXCEPT !.cut = TRUE] \in Parser /\ [p EXCEPT !.cut = TRUE].events = p.events
    BY DEF GoodParser, Parser
  <1>. QED
    BY <1>1, <1>2 DEF GoodParser

LEMMA StreamHead ==
  ASSUME NEW p, GoodParser(p), NEW y \in Symbol, y.tag = "head", Between(p), ~p.over
  PROVE  LET q == Symbolized(p, y)
         IN GoodParser(q) /\ InTag(q) /\ ~q.over /\ q.events = p.events /\ q.tree = p.tree
  <1>1. Symbolized(p, y) = [p EXCEPT !.cut = TRUE] /\ GoodParser(Symbolized(p, y))
    BY HeadStep DEF Between, Inside, Alive
  <1>. QED
    BY <1>1 DEF Between, InTag, Inside, Alive, GoodParser, Parser

LEMMA StreamRest ==
  ASSUME NEW p, GoodParser(p), NEW y \in Symbol, y.tag = "rest", y.stanza \in Stanza,
         InTag(p), ~p.over
  PROVE  LET q == Symbolized(p, y)
         IN /\ GoodParser(q) /\ InBody(q, y.stanza.no) /\ ~q.over
            /\ q.events = p.events /\ q.tree = y.stanza
  <1>1. /\ ~p.dead /\ ~p.quirk /\ p.cut /\ p.open = 1 /\ p.depth = 1
        /\ p.root = "stream" /\ p.stream
    BY DEF InTag, Inside, Alive
  <1>2. Symbolized(p, y) = StartStanza(Opened(p, "stanza"), y.stanza)
    BY <1>1 DEF Symbolized, MayStart
  <1>. DEFINE o == Opened(p, "stanza")
  <1>a. o = [p EXCEPT !.open = 2, !.cut = FALSE, !.root = "stream"]
    <2>1. p \in Parser /\ 2 = p.open + 1
          /\ "stream" = IF p.root = "none" THEN "stanza" ELSE p.root
      BY <1>1 DEF GoodParser
    <2>. QED
      BY ONLY <2>1 DEF o, Opened, Parser
  <1>. HIDE DEF o
  <1>3. /\ o \in Parser /\ o.open = 2 /\ ~o.cut /\ o.root = "stream" /\ o.depth = 1
        /\ ~o.dead /\ ~o.quirk /\ o.stream /\ o.events = p.events /\ o.over = p.over
    BY <1>1, <1>a DEF GoodParser, Parser
  <1>. DEFINE d == [o EXCEPT !.depth = @ + 1]
  <1>4. /\ d \in Parser /\ d.open = 2 /\ ~d.cut /\ d.root = "stream" /\ d.depth = 2
        /\ ~d.dead /\ ~d.quirk /\ d.stream /\ d.events = p.events /\ d.over = p.over
    BY <1>3 DEF Parser
  <1>5. StartStanza(o, y.stanza) = [d EXCEPT !.tree = y.stanza]
    BY <1>4 DEF StartStanza
  <1>. HIDE DEF d
  <1>. DEFINE r == [d EXCEPT !.tree = y.stanza]
  <1>6. /\ r \in Parser /\ r.open = 2 /\ ~r.cut /\ r.root = "stream" /\ r.depth = 2
        /\ ~r.dead /\ ~r.quirk /\ r.stream /\ r.events = p.events /\ r.over = p.over
        /\ r.tree = y.stanza
    BY <1>4 DEF Parser
  <1>7. Symbolized(p, y) = r
    BY <1>2, <1>5 DEF o
  <1>. HIDE DEF r
  <1>. QED
    BY <1>6, <1>7 DEF InBody, Inside, Alive, GoodParser

LEMMA StreamEndTag ==
  ASSUME NEW p, GoodParser(p), NEW y \in Symbol, y.tag = "end", NEW n, InBody(p, n), ~p.over
  PROVE  LET q == Symbolized(p, y)
         IN /\ GoodParser(q) /\ Between(q) /\ ~q.over
            /\ q.events = Append(p.events, [kind |-> "stanza", stanza |-> p.tree])
            /\ [kind |-> "stanza", stanza |-> p.tree] \in GoodEvent
  <1>1. /\ ~p.dead /\ ~p.quirk /\ ~p.cut /\ p.open = 2 /\ p.depth = 2
        /\ p.root = "stream" /\ p.stream /\ p.tree \in Stanza
    BY DEF InBody, Inside, Alive
  <1>. DEFINE o == [p EXCEPT !.open = @ - 1]
  <1>2. Symbolized(p, y) = HandleEnd(o)
    BY <1>1 DEF Symbolized, InStanza
  <1>3. /\ o \in Parser /\ o.open = 1 /\ ~o.cut /\ o.root = "stream" /\ o.depth = 2
        /\ ~o.dead /\ ~o.quirk /\ o.stream /\ o.events = p.events /\ o.over = p.over
        /\ o.tree = p.tree
    BY <1>1 DEF GoodParser, Parser
  <1>. HIDE DEF o
  <1>. DEFINE d == [o EXCEPT !.depth = @ - 1]
  <1>4. /\ d \in Parser /\ d.open = 1 /\ ~d.cut /\ d.root = "stream" /\ d.depth = 1
        /\ ~d.dead /\ ~d.quirk /\ d.stream /\ d.events = p.events /\ d.over = p.over
        /\ d.tree = p.tree
    BY <1>3 DEF Parser
  <1>5. HandleEnd(o) = Dispatched([d EXCEPT !.tree = None], "stanza", d.tree)
    BY <1>3, <1>4 DEF HandleEnd
  <1>. HIDE DEF d
  <1>. DEFINE t == [d EXCEPT !.tree = None]
  <1>6. /\ t \in Parser /\ t.open = 1 /\ ~t.cut /\ t.root = "stream" /\ t.depth = 1
        /\ ~t.dead /\ ~t.quirk /\ t.stream /\ t.events = p.events /\ t.over = p.over
    BY <1>4 DEF Parser
  <1>. HIDE DEF t
  <1>7. [kind |-> "stanza", stanza |-> p.tree] \in GoodEvent
    BY <1>1 DEF GoodEvent, Event
  <1>. DEFINE e == [kind |-> "stanza", stanza |-> p.tree]
              r == [t EXCEPT !.events = Append(@, e)]
  <1>8. Symbolized(p, y) = r
    BY <1>2, <1>4, <1>5 DEF Dispatched, t
  <1>. HIDE DEF e
  <1>9. Append(p.events, e) \in Seq(GoodEvent) /\ Append(p.events, e) \in Seq(Event)
    BY <1>7 DEF GoodParser, GoodEvent, e
  <1>10. /\ r \in Parser /\ r.open = 1 /\ ~r.cut /\ r.root = "stream" /\ r.depth = 1
         /\ ~r.dead /\ ~r.quirk /\ r.stream /\ r.events = Append(p.events, e)
         /\ r.over = p.over
    BY <1>6, <1>9 DEF Parser
  <1>. HIDE DEF r
  <1>. QED
    BY <1>7, <1>8, <1>9, <1>10 DEF Between, Inside, Alive, GoodParser, e

LEMMA StreamClose ==
  ASSUME NEW p, GoodParser(p), NEW y \in Symbol, y.tag = "close", Between(p), ~p.over
  PROVE  LET q == Symbolized(p, y)
         IN /\ GoodParser(q) /\ Fresh(q) /\ q.over
            /\ q.events = Append(p.events, [kind |-> "end", stanza |-> None])
            /\ [kind |-> "end", stanza |-> None] \in GoodEvent
  <1>1. /\ ~p.dead /\ ~p.quirk /\ ~p.cut /\ p.open = 1 /\ p.depth = 1 /\ p.root = "stream"
    BY DEF Between, Inside, Alive
  <1>. DEFINE o == [p EXCEPT !.open = @ - 1]
  <1>2. Symbolized(p, y) = HandleEnd(o)
    BY <1>1 DEF Symbolized, InStream
  <1>3. o \in Parser /\ o.depth = 1 /\ ~o.quirk /\ o.events = p.events
    BY <1>1 DEF GoodParser, Parser
  <1>. HIDE DEF o
  <1>. DEFINE d == [o EXCEPT !.depth = @ - 1]
  <1>4. d \in Parser /\ d.depth = 0 /\ d.events = p.events
    BY <1>3 DEF Parser
  <1>5. HandleEnd(o) =
          [ResetParser(ResetStream(Dispatched(d, "end", None))) EXCEPT !.over = TRUE]
    BY <1>3, <1>4 DEF HandleEnd
  <1>. HIDE DEF d
  <1>. DEFINE e == [kind |-> "end", stanza |-> None]
              v == Dispatched(d, "end", None)
              s == ResetStream(v)
              r == [ResetParser(s) EXCEPT !.over = TRUE]
  <1>6. e \in GoodEvent
    BY DEF GoodEvent, Event
  <1>. HIDE DEF e
  <1>7. Append(p.events, e) \in Seq(GoodEvent) /\ Append(p.events, e) \in Seq(Event)
    BY <1>6 DEF GoodParser, GoodEvent
  <1>8. v \in Parser /\ v.events = Append(p.events, e)
    BY <1>4, <1>7 DEF Dispatched, Parser, e
  <1>. HIDE DEF v
  <1>9. s \in Parser /\ s.events = v.events /\ s.stream = FALSE
    BY <1>8 DEF ResetStream, Parser
  <1>. HIDE DEF s
  <1>10. /\ r \in Parser /\ r.events = s.events /\ r.over /\ ~r.dead /\ ~r.quirk
         /\ r.root = "none" /\ r.open = 0 /\ r.depth = 0 /\ ~r.cut
    BY <1>9 DEF ResetParser, NewParser, Parser
  <1>11. Symbolized(p, y) = r
    BY <1>2, <1>5 DEF s, v
  <1>. HIDE DEF r
  <1>. QED
    BY <1>6, <1>7, <1>8, <1>9, <1>10, <1>11 DEF Fresh, Alive, GoodParser, e

LEMMA FreshOpen ==
  ASSUME NEW p, GoodParser(p), NEW y \in Symbol, y.tag = "open", Fresh(p), ~p.over
  PROVE  LET q == Symbolized(p, y)
             e == [kind |-> IF p.stream THEN "reinit" ELSE "init", stanza |-> None]
         IN /\ GoodParser(q) /\ Between(q) /\ ~q.over
            /\ q.events = Append(p.events, e) /\ e \in GoodEvent
  <1>1. /\ ~p.dead /\ ~p.quirk /\ ~p.cut /\ p.open = 0 /\ p.depth = 0 /\ p.root = "none"
        /\ p.stream \in BOOLEAN
    BY DEF Fresh, Alive, GoodParser, Parser
  <1>2. Symbolized(p, y) = StartStream(Opened(p, "stream"))
    BY <1>1 DEF Symbolized, MayStart
  <1>. DEFINE o == Opened(p, "stream")
  <1>a. o = [p EXCEPT !.open = 1, !.cut = FALSE, !.root = "stream"]
    <2>1. p \in Parser /\ 1 = p.open + 1
          /\ "stream" = IF p.root = "none" THEN "stream" ELSE p.root
      BY <1>1 DEF GoodParser
    <2>. QED
      BY ONLY <2>1 DEF o, Opened, Parser
  <1>. HIDE DEF o
  <1>3. /\ o \in Parser /\ o.open = 1 /\ ~o.cut /\ o.root = "stream" /\ o.depth = 0
        /\ ~o.dead /\ ~o.quirk /\ o.stream = p.stream /\ o.events = p.events
        /\ o.over = p.over
    BY <1>1, <1>a DEF GoodParser, Parser
  <1>. DEFINE d == [o EXCEPT !.depth = @ + 1]
              e == [kind |-> IF p.stream THEN "reinit" ELSE "init", stanza |-> None]
  <1>4. /\ d \in Parser /\ d.open = 1 /\ ~d.cut /\ d.root = "stream" /\ d.depth = 1
        /\ ~d.dead /\ ~d.quirk /\ d.stream = p.stream /\ d.events = p.events
        /\ d.over = p.over
    BY <1>3 DEF Parser
  <1>5. e \in GoodEvent
    BY DEF GoodEvent, Event
  <1>6. StartStream(o) = [[d EXCEPT !.stream = TRUE] EXCEPT !.events = Append(@, e)]
    <2>1. CASE p.stream
      <3>1. d.stream = TRUE
        BY <1>1, <1>4, <2>1
      <3>2. [d EXCEPT !.stream = TRUE] = d
        BY <1>4, <3>1 DEF Parser
      <3>. QED
        BY <1>4, <2>1, <3>1, <3>2 DEF StartStream, Dispatched
    <2>2. CASE ~p.stream
      BY <1>4, <2>2 DEF StartStream, Dispatched
    <2>. QED
      BY <2>1, <2>2
  <1>. HIDE DEF d, e
  <1>. DEFINE t == [d EXCEPT !.stream = TRUE]
              r == [t EXCEPT !.events = Append(@, e)]
  <1>7. /\ t \in Parser /\ t.open = 1 /\ ~t.cut /\ t.root = "stream" /\ t.depth = 1
        /\ ~t.dead /\ ~t.quirk /\ t.stream = TRUE /\ t.events = p.events
        /\ t.over = p.over
    BY <1>4 DEF Parser
  <1>. HIDE DEF t
  <1>8. Append(p.events, e) \in Seq(GoodEvent) /\ Append(p.events, e) \in Seq(Event)
    BY <1>5 DEF GoodParser, GoodEvent
  <1>9. /\ r \in Parser /\ r.open = 1 /\ ~r.cut /\ r.root = "stream" /\ r.depth = 1
        /\ ~r.dead /\ ~r.quirk /\ r.stream /\ r.events = Append(p.events, e)
        /\ r.over = p.over
    BY <1>7, <1>8 DEF Parser
  <1>10. Symbolized(p, y) = r
    BY <1>2, <1>6 DEF o, t
  <1>. HIDE DEF r
  <1>. QED
    BY <1>5, <1>8, <1>9, <1>10 DEF Between, Inside, Alive, GoodParser, e

(* A dead parser, and expat's handlers after the end of the stream.         *)
LEMMA DeafStep ==
  ASSUME NEW p, p.dead \/ p.over, NEW y
  PROVE  Symbolized(p, y) = p
  BY DEF Symbolized

LEMMA DiesFields ==
  ASSUME NEW p, GoodParser(p)
  PROVE  /\ GoodParser(Dies(p)) /\ Dies(p).dead /\ Dies(p).quirk = p.quirk
         /\ Dies(p).root = p.root /\ Dies(p).depth = p.depth /\ Dies(p).over = p.over
         /\ Dies(p).events = p.events /\ Dies(p).tree = p.tree /\ Dies(p).cut = p.cut
  BY DEF Dies, GoodParser, Parser

LEMMA FreshHead ==
  ASSUME NEW p, GoodParser(p), NEW y \in Symbol, y.tag = "head", Fresh(p), ~p.over
  PROVE  LET q == Symbolized(p, y)
         IN GoodParser(q) /\ Torn(q) /\ ~q.over /\ q.events = p.events
  <1>1. Symbolized(p, y) = [p EXCEPT !.cut = TRUE] /\ GoodParser(Symbolized(p, y))
    BY HeadStep DEF Fresh, Alive
  <1>. QED
    BY <1>1 DEF Fresh, Torn, Alive, GoodParser, Parser

LEMMA FreshClose ==
  ASSUME NEW p, GoodParser(p), NEW y \in Symbol, y.tag = "close", Fresh(p), ~p.over
  PROVE  Symbolized(p, y) = Dies(p)
  BY DEF Symbolized, InStream, Fresh, Alive

(* The rest of a tag that was torn is text.                                 *)
LEMMA StreamText ==
  ASSUME NEW p, GoodParser(p), NEW y \in Symbol, y.tag = "rest", Between(p)
  PROVE  Symbolized(p, y) = p
  BY DEF Symbolized, Between, Inside, Alive

LEMMA StreamMismatch ==
  ASSUME NEW p, GoodParser(p), NEW y \in Symbol, y.tag = "end", Between(p), ~p.over
  PROVE  Symbolized(p, y) = Dies(p)
  BY DEF Symbolized, Between, Inside, Alive, InStanza

LEMMA TornRest ==
  ASSUME NEW p, GoodParser(p), NEW y \in Symbol, y.tag = "rest", Torn(p), ~p.over,
         p.events = <<>>
  PROVE  LET q == Symbolized(p, y)
         IN GoodParser(q) /\ Misled(q) /\ ~q.over
  <1>1. /\ ~p.dead /\ ~p.quirk /\ p.cut /\ p.open = 0 /\ p.depth = 0 /\ p.root = "none"
        /\ p \in Parser /\ p.events \in Seq(GoodEvent)
    BY DEF Torn, Alive, GoodParser
  <1>2. Symbolized(p, y) = StartStanza(Opened(p, "stanza"), y.stanza)
    BY <1>1 DEF Symbolized, MayStart
  <1>. DEFINE o == Opened(p, "stanza")
  <1>3. o = [p EXCEPT !.open = 1, !.cut = FALSE, !.root = "stanza"]
    BY ONLY <1>1 DEF Opened, Parser
  <1>. HIDE DEF o
  <1>4. /\ o \in Parser /\ o.root = "stanza" /\ o.depth = 0 /\ o.events = p.events
        /\ o.over = p.over
    BY <1>1, <1>3 DEF Parser
  <1>. DEFINE d == [o EXCEPT !.depth = @ + 1]
  <1>5. /\ d \in Parser /\ d.root = "stanza" /\ d.depth = 1 /\ d.events = p.events
        /\ d.over = p.over
    BY <1>4 DEF Parser
  <1>6. StartStanza(o, y.stanza) = [d EXCEPT !.quirk = TRUE]
    BY <1>5 DEF StartStanza
  <1>. HIDE DEF d
  <1>. DEFINE r == [d EXCEPT !.quirk = TRUE]
  <1>7. /\ r \in Parser /\ r.root = "stanza" /\ r.depth = 1 /\ r.events = p.events
        /\ r.over = p.over /\ r.quirk
    BY <1>5 DEF Parser
  <1>8. Symbolized(p, y) = r
    BY <1>2, <1>6 DEF o
  <1>. HIDE DEF r
  <1>9. r.events \in Seq(GoodEvent) /\ r.events = <<>> /\ ~r.over /\ r.depth # 0
    BY <1>1, <1>7
  <1>. QED
    BY <1>7, <1>8, <1>9 DEF Misled, GoodParser

(* What follows such a stanza changes nothing that matters.                 *)
LEMMA MisledStep ==
  ASSUME NEW p, GoodParser(p), NEW y \in Symbol, Misled(p), ~p.over
  PROVE  LET q == Symbolized(p, y)
         IN GoodParser(q) /\ Misled(q) /\ ~q.over
  <1>1. /\ p \in Parser /\ p.quirk /\ p.root = "stanza" /\ p.depth \in Nat \ {0}
        /\ p.events = <<>> /\ p.open \in Nat /\ p.events \in Seq(GoodEvent)
    BY DEF Misled, GoodParser, Parser
  <1>2. GoodParser(Dies(p)) /\ Misled(Dies(p)) /\ ~Dies(p).over
    BY DiesFields DEF Misled
  <1>3. CASE p.dead
    BY <1>3, DeafStep
  <1>4. ASSUME ~p.dead, NEW kind
        PROVE  LET o == Opened(p, kind)
               IN /\ o \in Parser /\ o.quirk /\ o.root = "stanza" /\ o.depth = p.depth
                  /\ o.events = <<>> /\ o.over = p.over
    <2>. DEFINE o == Opened(p, kind)
    <2>1. o = [p EXCEPT !.open = p.open + 1, !.cut = FALSE, !.root = "stanza"]
      BY ONLY <1>1 DEF Opened, Parser
    <2>. HIDE DEF o
    <2>2. p.open + 1 \in Nat
      BY <1>1
    <2>3. /\ o \in Parser /\ o.quirk /\ o.root = "stanza" /\ o.depth = p.depth
          /\ o.events = <<>> /\ o.over = p.over
      BY <1>1, <2>1, <2>2 DEF Parser
    <2>. QED
      BY <2>3 DEF o
  <1>5. ASSUME ~p.dead, y.tag = "open", MayStart(p)
        PROVE  LET q == Symbolized(p, y) IN GoodParser(q) /\ Misled(q) /\ ~q.over
    <2>. DEFINE o == Opened(p, "stream")
                d == [o EXCEPT !.depth = @ + 1]
    <2>1. Symbolized(p, y) = StartStream(o)
      BY <1>5 DEF Symbolized
    <2>2. /\ o \in Parser /\ o.quirk /\ o.root = "stanza" /\ o.depth = p.depth
          /\ o.events = <<>> /\ o.over = p.over
      BY <1>4, <1>5
    <2>. HIDE DEF o
    <2>3. /\ d \in Parser /\ d.quirk /\ d.root = "stanza" /\ d.depth = p.depth + 1
          /\ d.events = <<>> /\ d.over = p.over
      BY <1>1, <2>2 DEF Parser
    <2>4. d.depth # 1 /\ d.depth # 0
      BY <1>1, <2>3
    <2>5. StartStream(o) = d
      BY <2>4 DEF StartStream
    <2>. HIDE DEF d
    <2>. QED
      BY <1>1, <2>1, <2>3, <2>4, <2>5 DEF Misled, GoodParser
  <1>6. ASSUME ~p.dead, y.tag = "rest", p.cut, MayStart(p)
        PROVE  LET q == Symbolized(p, y) IN GoodParser(q) /\ Misled(q) /\ ~q.over
    <2>. DEFINE o == Opened(p, "stanza")
                d == [o EXCEPT !.depth = @ + 1]
                r == [d EXCEPT !.tree = y.stanza]
    <2>1. Symbolized(p, y) = StartStanza(o, y.stanza)
      BY <1>6 DEF Symbolized
    <2>2. /\ o \in Parser /\ o.quirk /\ o.root = "stanza" /\ o.depth = p.depth
          /\ o.events = <<>> /\ o.over = p.over
      BY <1>4, <1>6
    <2>. HIDE DEF o
    <2>3. /\ d \in Parser /\ d.quirk /\ d.root = "stanza" /\ d.depth = p.depth + 1
          /\ d.events = <<>> /\ d.over = p.over
      BY <1>1, <2>2 DEF Parser
    <2>4. d.depth # 1 /\ d.depth # 0
      BY <1>1, <2>3
    <2>5. StartStanza(o, y.stanza) = r \/ StartStanza(o, y.stanza) = d
      BY <2>4 DEF StartStanza
    <2>. HIDE DEF d
    <2>6. y.stanza \in Stanza \cup {None}
      BY DEF Symbol
    <2>7. /\ r \in Parser /\ r.quirk /\ r.root = "stanza" /\ r.depth = d.depth
          /\ r.events = <<>> /\ r.over = p.over
      BY <2>3, <2>6 DEF Parser
    <2>. HIDE DEF r
    <2>. QED
      BY <1>1, <2>1, <2>3, <2>4, <2>5, <2>7 DEF Misled, GoodParser
  <1>7. ASSUME ~p.dead, y.tag = "head"
        PROVE  LET q == Symbolized(p, y) IN GoodParser(q) /\ Misled(q) /\ ~q.over
    <2>1. Symbolized(p, y) = [p EXCEPT !.cut = TRUE] /\ GoodParser(Symbolized(p, y))
      BY <1>7, HeadStep
    <2>. QED
      BY <1>1, <2>1 DEF Misled, Parser
  <1>8. ASSUME ~p.dead, y.tag = "end", InStanza(p)
        PROVE  LET q == Symbolized(p, y) IN GoodParser(q) /\ Misled(q) /\ ~q.over
    <2>. DEFINE o == [p EXCEPT !.open = @ - 1]
    <2>1. Symbolized(p, y) = HandleEnd(o)
      BY <1>8 DEF Symbolized
    <2>2. p.open - 1 \in Nat
      BY <1>1, <1>8 DEF InStanza
    <2>3. /\ o \in Parser /\ o.quirk /\ o.root = "stanza" /\ o.depth = p.depth
          /\ o.events = <<>> /\ o.over = p.over
      BY <1>1, <2>2 DEF Parser
    <2>. HIDE DEF o
    <2>4. HandleEnd(o) = o
      BY <2>3 DEF HandleEnd
    <2>. QED
      BY <1>1, <2>1, <2>3, <2>4 DEF Misled, GoodParser
  <1>9. ASSUME ~p.dead, \/ y.tag = "open" /\ ~MayStart(p)
                        \/ y.tag = "rest" /\ p.cut /\ ~MayStart(p)
                        \/ y.tag = "rest" /\ ~p.cut
                        \/ y.tag = "end" /\ ~InStanza(p)
                        \/ y.tag = "close"
        PROVE  Symbolized(p, y) = Dies(p) \/ Symbolized(p, y) = p
    BY <1>1, <1>9 DEF Symbolized, InStream
  <1>10. y.tag \in {"open", "head", "rest", "end", "close"}
    BY DEF Symbol
  <1>. QED
    BY <1>2, <1>3, <1>5, <1>6, <1>7, <1>8, <1>9, <1>10

-----------------------------------------------------------------------------
(* What a chunk does to a parser that is in the stream, or about to be.     *)

HeaderKind(p) == IF p.stream THEN "reinit" ELSE "init"

(* What comes after the h-th up to the n-th.                                *)
Numbering(h, n) == [i \in 1..(n - h) |-> h + i]

(* The events of the first k symbols of w, the stanzas up to the n-th.      *)
Made(events, p, w, h, n, k) ==
  /\ events \in Seq(GoodEvent) /\ n \in Nat /\ h <= n
  /\ Numbers(events) = Numbering(h, n)
  /\ \A i \in 1..Len(events) :
       \/ /\ events[i].kind = "stanza" /\ events[i].stanza \in Upcoming(p, w)
          /\ events[i].stanza.no \in (h + 1)..n
       \/ events[i].kind = HeaderKind(p) /\ TagAt(w, 1) = "open" /\ Fresh(p)
       \/ events[i].kind = "end" /\ k = Len(w) /\ TagAt(w, k) = "close" /\ i = Len(events)
  /\ \A i \in 1..Len(events), j \in 1..Len(events) :
       i < j /\ events[i].kind = "stanza" /\ events[j].kind = "stanza" =>
         events[i].stanza.no < events[j].stanza.no
  /\ TagAt(w, 1) = "open" /\ k # 0 =>
       \E i \in 1..Len(events) : events[i].kind = HeaderKind(p)
  /\ TagAt(w, k) = "close" => \E i \in 1..Len(events) : events[i].kind = "end"

(* Where the parser is after them.                                          *)
Reached(q, w, f, k) ==
  \/ ~q.over /\ Follows(q, TagAt(w, k + 1), f[k])
  \/ ~q.over /\ k = 0 /\ Fresh(q) /\ TagAt(w, 1) \in {"none", "open"}
  \/ q.over /\ k = Len(w) /\ TagAt(w, k) = "close" /\ Fresh(q)

Parsing(q, p, w, f, h, k) ==
  /\ GoodParser(q) /\ Reached(q, w, f, k)
  /\ q.depth = 2 => q.tree \in Upcoming(p, w)
  /\ Made(q.events, p, w, h, f[k], k)

LEMMA NextTag ==
  ASSUME NEW w, Wired(w), NEW k \in 1..Len(w)
  PROVE  /\ w[k] \in Symbol /\ TagAt(w, k) = w[k].tag
         /\ w[k].tag = "head" => TagAt(w, k + 1) = "rest"
         /\ w[k].tag = "rest" => TagAt(w, k + 1) = "end"
         /\ w[k].tag \in {"open", "end"} => TagAt(w, k + 1) \in {"none", "head", "close"}
         /\ w[k].tag = "close" => k = Len(w) /\ TagAt(w, k + 1) = "none"
         /\ w[k].tag = "open" => k = 1
         /\ w[k].tag \in {"head", "rest", "end"} => w[k].stanza \in Stanza
         /\ k = Len(w) => TagAt(w, k + 1) = "none"
  <1>1. /\ w \in Seq(Symbol) /\ Len(w) \in Nat
        /\ \A i \in 1..Len(w), j \in 1..Len(w) : j = i + 1 => TagFollows(w[i].tag, w[j].tag)
        /\ w # <<>> => w[Len(w)].tag \in {"open", "end", "close"}
        /\ \A i \in 1..Len(w) : w[i].tag \in {"head", "rest", "end"} => w[i].stanza \in Stanza
    BY DEF Wired
  <1>2. w[k] \in Symbol /\ TagAt(w, k) = w[k].tag
    BY <1>1 DEF TagAt
  <1>3. w[k].tag \in {"open", "head", "rest", "end", "close"}
    BY <1>2 DEF Symbol
  <1>4. CASE k = Len(w)
    <2>1. w # <<>>
      BY <1>1
    <2>2. w[k].tag \in {"open", "end", "close"}
      BY <1>1, <1>4, <2>1
    <2>3. k + 1 \notin 1..Len(w)
      BY <1>1, <1>4
    <2>4. TagAt(w, k + 1) = "none"
      BY <2>3 DEF TagAt
    <2>5. w[k].tag = "open" => k = 1
      <3>1. SUFFICES ASSUME w[k].tag = "open", k # 1 PROVE FALSE
        OBVIOUS
      <3>2. k - 1 \in 1..Len(w) /\ k = (k - 1) + 1
        BY <1>1, <3>1
      <3>3. TagFollows(w[k - 1].tag, w[k].tag)
        BY <1>1, <3>2
      <3>. QED
        BY <3>1, <3>3 DEF TagFollows
    <2>. QED
      BY <1>1, <1>2, <1>4, <2>2, <2>4, <2>5
  <1>5. CASE k # Len(w)
    <2>1. k + 1 \in 1..Len(w)
      BY <1>1, <1>5
    <2>2. TagFollows(w[k].tag, w[k + 1].tag) /\ TagAt(w, k + 1) = w[k + 1].tag
      BY <1>1, <2>1 DEF TagAt
    <2>3. w[k].tag = "open" => k = 1
      <3>1. SUFFICES ASSUME w[k].tag = "open", k # 1 PROVE FALSE
        OBVIOUS
      <3>2. k - 1 \in 1..Len(w) /\ k = (k - 1) + 1
        BY <1>1, <3>1
      <3>3. TagFollows(w[k - 1].tag, w[k].tag)
        BY <1>1, <3>2
      <3>. QED
        BY <3>1, <3>3 DEF TagFollows
    <2>. QED
      BY <1>1, <1>2, <1>5, <2>2, <2>3 DEF TagFollows
  <1>. QED
    BY <1>4, <1>5

LEMMA NumbersMore ==
  ASSUME NEW events \in Seq(GoodEvent), NEW e \in GoodEvent,
         NEW h \in Nat, NEW n \in Nat, h <= n,
         Numbers(events) = Numbering(h, n),
         NEW m, \/ e.kind # "stanza" /\ m = n
                \/ e.kind = "stanza" /\ m = n + 1 /\ e.stanza.no = m
  PROVE  Numbers(Append(events, e)) = Numbering(h, m)
  <1>. DEFINE s == [i \in 1..(n - h) |-> h + i]
              t == [i \in 1..(m - h) |-> h + i]
  <1>0. n - h \in Nat /\ (m = n + 1 => m - h = (n - h) + 1)
    OBVIOUS
  <1>1. s \in Seq(Nat) /\ Len(s) = n - h /\ \A i \in 1..(n - h) : s[i] = h + i
    BY <1>0
  <1>2. m = n + 1 => /\ t \in Seq(Nat) /\ Len(t) = (n - h) + 1
                     /\ \A i \in 1..((n - h) + 1) : t[i] = h + i
    BY <1>0
  <1>2a. m = n => t = s
    OBVIOUS
  <1>3. Len(events) = 0 => s = <<>>
    <2>1. Len(events) = 0 => events = <<>>
      OBVIOUS
    <2>. QED
      BY <2>1, NumbersEmpty DEF Numbering
  <1>4. Number(e) \in Seq(Nat)
    BY NumberTyped
  <1>. HIDE DEF s, t
  <1>5. Numbers(Append(events, e)) = s \o Number(e)
    <2>1. <<>> \o Number(e) = Number(e)
      BY <1>4
    <2>2. Numbers(events) = s
      BY DEF s, Numbering
    <2>. QED
      BY <1>3, <2>1, <2>2, NumbersAppend
  <1>6. ASSUME e.kind # "stanza"
        PROVE  s \o Number(e) = s
    <2>1. Number(e) = <<>>
      BY <1>6 DEF Number
    <2>. QED
      BY <1>1, <2>1
  <1>7. ASSUME e.kind = "stanza", m = n + 1, e.stanza.no = m
        PROVE  s \o Number(e) = t
    <2>1. Number(e) = <<n + 1>>
      BY <1>7 DEF Number
    <2>. DEFINE r == s \o <<n + 1>>
    <2>2. r \in Seq(Nat) /\ Len(r) = (n - h) + 1
          /\ (\A i \in 1..(n - h) : r[i] = s[i]) /\ r[(n - h) + 1] = n + 1
      BY <1>0, <1>1
    <2>. HIDE DEF r
    <2>3. \A i \in 1..((n - h) + 1) : i \in 1..(n - h) \/ i = (n - h) + 1
      BY <1>0
    <2>4. h + ((n - h) + 1) = n + 1
      OBVIOUS
    <2>5. \A i \in 1..((n - h) + 1) : r[i] = t[i]
      BY <1>1, <1>2, <1>7, <2>2, <2>3, <2>4
    <2>6. r = t
      BY <1>2, <1>7, <2>2, <2>5, SameSequence
    <2>. QED
      BY <2>1, <2>6 DEF r
  <1>. QED
    BY <1>2a, <1>5, <1>6, <1>7 DEF t, Numbering

LEMMA Appended ==
  ASSUME NEW S, NEW s \in Seq(S), NEW e \in S
  PROVE  /\ Append(s, e) \in Seq(S) /\ Len(s) \in Nat /\ Len(Append(s, e)) = Len(s) + 1
         /\ \A i \in 1..Len(s) : i \in 1..(Len(s) + 1) /\ Append(s, e)[i] = s[i]
         /\ Append(s, e)[Len(s) + 1] = e /\ Len(s) + 1 \in 1..(Len(s) + 1)
         /\ \A i \in 1..(Len(s) + 1) : i \in 1..Len(s) \/ i = Len(s) + 1
  <1>1. Append(s, e) \in Seq(S) /\ Len(s) \in Nat /\ Len(Append(s, e)) = Len(s) + 1
    OBVIOUS
  <1>2. \A i \in 1..Len(s) : Append(s, e)[i] = s[i]
    OBVIOUS
  <1>3. Append(s, e)[Len(s) + 1] = e
    OBVIOUS
  <1>. QED
    BY <1>1, <1>2, <1>3

LEMMA MadeSame ==
  ASSUME NEW w, Wired(w), NEW k \in 1..Len(w), w[k].tag \in {"head", "rest"},
         NEW p, NEW h, NEW n, NEW events, Made(events, p, w, h, n, k - 1)
  PROVE  Made(events, p, w, h, n, k)
  <1>1. TagAt(w, k) = w[k].tag /\ Len(w) \in Nat
    BY NextTag DEF Wired
  <1>2. k - 1 # Len(w)
    BY <1>1
  <1>3. TagAt(w, 1) = "open" => k - 1 # 0
    BY <1>1
  <1>4. TagAt(w, k) # "close"
    BY <1>1
  <1>5. \A i \in 1..Len(events) :
          \/ /\ events[i].kind = "stanza" /\ events[i].stanza \in Upcoming(p, w)
             /\ events[i].stanza.no \in (h + 1)..n
          \/ events[i].kind = HeaderKind(p) /\ TagAt(w, 1) = "open" /\ Fresh(p)
    BY <1>2 DEF Made
  <1>. QED
    BY <1>3, <1>4, <1>5 DEF Made

LEMMA MadeMore ==
  ASSUME NEW w, Wired(w), NEW k \in 1..Len(w), NEW p, NEW h \in Nat, NEW n, NEW m, NEW events,
         Made(events, p, w, h, n, k - 1), NEW e \in GoodEvent,
         \/ /\ w[k].tag = "end" /\ e.kind = "stanza" /\ e.stanza \in Upcoming(p, w)
            /\ m = n + 1 /\ e.stanza.no = m
         \/ w[k].tag = "open" /\ e.kind = HeaderKind(p) /\ Fresh(p) /\ m = n
         \/ w[k].tag = "close" /\ e.kind = "end" /\ m = n
  PROVE  Made(Append(events, e), p, w, h, m, k)
  <1>. DEFINE all == Append(events, e)
  <1>0. /\ TagAt(w, k) = w[k].tag /\ Len(w) \in Nat
        /\ w[k].tag = "open" => k = 1
        /\ w[k].tag = "close" => k = Len(w)
    BY NextTag DEF Wired
  <1>1. /\ events \in Seq(GoodEvent) /\ n \in Nat /\ h <= n
        /\ Numbers(events) = Numbering(h, n)
        /\ \A i \in 1..Len(events), j \in 1..Len(events) :
             i < j /\ events[i].kind = "stanza" /\ events[j].kind = "stanza" =>
               events[i].stanza.no < events[j].stanza.no
    BY DEF Made
  <1>2. /\ all \in Seq(GoodEvent) /\ Len(events) \in Nat /\ Len(all) = Len(events) + 1
        /\ \A i \in 1..Len(events) : i \in 1..(Len(events) + 1) /\ all[i] = events[i]
        /\ all[Len(events) + 1] = e /\ Len(events) + 1 \in 1..(Len(events) + 1)
        /\ \A i \in 1..(Len(events) + 1) : i \in 1..Len(events) \/ i = Len(events) + 1
    BY <1>1, Appended
  <1>3. k - 1 # Len(w)
    BY <1>0
  <1>4. \A i \in 1..Len(events) :
          \/ /\ events[i].kind = "stanza" /\ events[i].stanza \in Upcoming(p, w)
             /\ events[i].stanza.no \in (h + 1)..n
          \/ events[i].kind = HeaderKind(p) /\ TagAt(w, 1) = "open" /\ Fresh(p)
    BY <1>3 DEF Made
  <1>5. HeaderKind(p) \in {"init", "reinit"}
    BY DEF HeaderKind
  <1>6. m \in Nat /\ h <= m /\ n <= m
    BY <1>1
  <1>7. Numbers(all) = Numbering(h, m)
    <2>1. \/ e.kind # "stanza" /\ m = n
          \/ e.kind = "stanza" /\ m = n + 1 /\ e.stanza.no = m
      BY <1>5
    <2>2. /\ events \in Seq(GoodEvent) /\ e \in GoodEvent /\ h \in Nat /\ n \in Nat /\ h <= n
          /\ Numbers(events) = Numbering(h, n)
      BY <1>1
    <2>3. CASE e.kind # "stanza" /\ m = n
      BY ONLY <2>3, <2>2, NumbersMore
    <2>4. CASE e.kind = "stanza" /\ m = n + 1 /\ e.stanza.no = m
      BY ONLY <2>4, <2>2, NumbersMore
    <2>. QED
      BY <2>1, <2>3, <2>4
  <1>. HIDE DEF all
  <1>8. ASSUME NEW i \in 1..Len(all)
        PROVE  \/ /\ all[i].kind = "stanza" /\ all[i].stanza \in Upcoming(p, w)
                  /\ all[i].stanza.no \in (h + 1)..m
               \/ all[i].kind = HeaderKind(p) /\ TagAt(w, 1) = "open" /\ Fresh(p)
               \/ all[i].kind = "end" /\ k = Len(w) /\ TagAt(w, k) = "close" /\ i = Len(all)
    <2>1. CASE i \in 1..Len(events)
      <3>1. (h + 1)..n \subseteq (h + 1)..m
        BY <1>1, <1>6
      <3>. QED
        BY <1>2, <1>4, <2>1, <3>1
    <2>2. CASE i = Len(events) + 1
      <3>1. all[i] = e /\ i = Len(all)
        BY <1>2, <2>2
      <3>2. m = n + 1 => m \in (h + 1)..m
        BY <1>1
      <3>. QED
        BY <1>0, <3>1, <3>2
    <2>. QED
      BY <1>2, <2>1, <2>2
  <1>9. ASSUME NEW i \in 1..Len(all), NEW j \in 1..Len(all), i < j,
               all[i].kind = "stanza", all[j].kind = "stanza"
        PROVE  all[i].stanza.no < all[j].stanza.no
    <2>1. i \in 1..Len(events)
      BY <1>2, <1>9
    <2>2. CASE j \in 1..Len(events)
      BY <1>1, <1>2, <1>9, <2>1, <2>2
    <2>3. CASE j = Len(events) + 1
      <3>1. all[j] = e /\ all[i] = events[i]
        BY <1>2, <2>1, <2>3
      <3>2. m = n + 1 /\ e.stanza.no = m
        BY <1>5, <1>9, <3>1
      <3>3. events[i].stanza.no \in (h + 1)..n
        BY <1>4, <1>5, <1>9, <2>1, <3>1
      <3>4. events[i].stanza.no < n + 1
        BY <1>1, <3>3
      <3>. QED
        BY <3>1, <3>2, <3>4
    <2>. QED
      BY <1>2, <2>2, <2>3
  <1>10. ASSUME TagAt(w, 1) = "open", k # 0
         PROVE  \E i \in 1..Len(all) : all[i].kind = HeaderKind(p)
    <2>1. CASE w[k].tag = "open"
      <3>1. all[Len(all)].kind = HeaderKind(p)
        BY <1>2, <2>1
      <3>. QED
        BY <1>2, <3>1
    <2>2. CASE w[k].tag # "open"
      <3>1. k - 1 # 0
        BY <1>0, <1>10, <2>2
      <3>2. PICK i \in 1..Len(events) : events[i].kind = HeaderKind(p)
        BY <1>10, <3>1 DEF Made
      <3>3. i \in 1..Len(all) /\ all[i].kind = HeaderKind(p)
        BY <1>2, <3>2
      <3>. QED
        BY <3>3
    <2>. QED
      BY <2>1, <2>2
  <1>11. ASSUME TagAt(w, k) = "close"
         PROVE  \E i \in 1..Len(all) : all[i].kind = "end"
    <2>1. e.kind = "end"
      BY <1>0, <1>11
    <2>2. all[Len(all)].kind = "end" /\ Len(all) \in 1..Len(all)
      BY <1>2, <2>1
    <2>. QED
      BY <2>2
  <1>. QED
    BY <1>2, <1>6, <1>7, <1>8, <1>9, <1>10, <1>11 DEF Made, all

(* Nothing has been parsed.                                                 *)
LEMMA MadeNothing ==
  ASSUME NEW p, NEW w, NEW h \in Nat
  PROVE  Made(<<>>, p, w, h, h, 0)
  <1>1. Numbering(h, h) = <<>>
    <2>1. 1..(h - h) = {}
      OBVIOUS
    <2>. QED
      BY <2>1 DEF Numbering
  <1>2. 0 \notin 1..Len(w) => TagAt(w, 0) = "none"
    BY DEF TagAt
  <1>3. 0 \notin 1..Len(w) /\ <<>> \in Seq(GoodEvent) /\ 1..Len(<<>>) = {}
    OBVIOUS
  <1>. QED
    BY <1>1, <1>2, <1>3, NumbersEmpty DEF Made

(* One symbol more.                                                         *)
LEMMA StreamStep ==
  ASSUME NEW w, Wired(w), NEW h \in Nat, NEW f, Tally(f, w, h), NEW k \in 1..Len(w),
         NEW p, p.stream \in BOOLEAN, NEW q, Parsing(q, p, w, f, h, k - 1),
         k = 1 => q = p /\ q.events = <<>>
  PROVE  Parsing(Symbolized(q, w[k]), p, w, f, h, k)
  <1>. DEFINE y == w[k]
              r == Symbolized(q, y)
  <1>0. /\ GoodParser(q) /\ Reached(q, w, f, k - 1)
        /\ q.depth = 2 => q.tree \in Upcoming(p, w)
        /\ Made(q.events, p, w, h, f[k - 1], k - 1)
    BY DEF Parsing
  <1>1. /\ y \in Symbol /\ TagAt(w, k) = y.tag
        /\ y.tag = "head" => TagAt(w, k + 1) = "rest"
        /\ y.tag = "rest" => TagAt(w, k + 1) = "end"
        /\ y.tag \in {"open", "end"} => TagAt(w, k + 1) \in {"none", "head", "close"}
        /\ y.tag = "close" => k = Len(w) /\ TagAt(w, k + 1) = "none"
        /\ y.tag = "open" => k = 1
        /\ y.tag \in {"head", "rest", "end"} => y.stanza \in Stanza
    BY NextTag
  <1>2. /\ f[k] = IF y.tag = "end" THEN f[k - 1] + 1 ELSE f[k - 1]
        /\ y.tag = "rest" => y.stanza.no = f[k - 1] + 1
        /\ f[k - 1] \in Nat /\ f[k] \in Nat
    <2>1. k \in 0..Len(w) /\ k - 1 \in 0..Len(w)
      OBVIOUS
    <2>. QED
      BY <2>1 DEF Tally
  <1>3. k - 1 # Len(w) /\ (k - 1) + 1 = k /\ Len(w) \in Nat
    BY DEF Wired
  <1>4. ~q.over
    BY <1>0, <1>3 DEF Reached
  <1>5. y.tag \in {"open", "head", "rest", "end", "close"}
    BY <1>1 DEF Symbol
  <1>6. y.tag # "none"
    BY <1>5
  <1>7. y.tag = "rest" => y.stanza \in Upcoming(p, w)
    BY <1>1 DEF Upcoming, Carried
  <1>. HIDE DEF y, r
  <1>. SUFFICES Parsing(r, p, w, f, h, k)
    BY DEF r, y
  <1>8. \/ Follows(q, y.tag, f[k - 1])
        \/ k = 1 /\ Fresh(q) /\ y.tag = "open"
    BY <1>0, <1>1, <1>3, <1>4, <1>6 DEF Reached
  <1>9. ASSUME GoodParser(r), Between(r), ~r.over, y.tag \in {"open", "end"},
               Made(r.events, p, w, h, f[k], k)
        PROVE  Parsing(r, p, w, f, h, k)
    <2>1. Reached(r, w, f, k)
      BY <1>1, <1>9 DEF Reached, Follows
    <2>2. r.depth # 2
      BY <1>9 DEF Between, Inside
    <2>. QED
      BY <1>9, <2>1, <2>2 DEF Parsing
  <1>10. CASE Between(q) /\ y.tag = "head"
    <2>1. GoodParser(r) /\ InTag(r) /\ ~r.over /\ r.events = q.events
      BY <1>0, <1>1, <1>4, <1>10, StreamHead DEF r
    <2>2. Reached(r, w, f, k)
      BY <1>1, <1>10, <2>1 DEF Reached, Follows
    <2>3. r.depth # 2
      BY <2>1 DEF InTag, Inside
    <2>4. f[k] = f[k - 1]
      BY <1>2, <1>10
    <2>5. Made(r.events, p, w, h, f[k], k)
      BY <1>0, <1>10, <2>1, <2>4, MadeSame DEF y
    <2>. QED
      BY <2>1, <2>2, <2>3, <2>5 DEF Parsing
  <1>11. CASE InTag(q) /\ y.tag = "rest"
    <2>1. /\ GoodParser(r) /\ InBody(r, y.stanza.no) /\ ~r.over /\ r.events = q.events
          /\ r.tree = y.stanza
      BY <1>0, <1>1, <1>4, <1>11, StreamRest DEF r
    <2>2. f[k] = f[k - 1] /\ y.stanza.no = f[k] + 1
      BY <1>2, <1>11
    <2>3. Reached(r, w, f, k)
      BY <1>1, <1>11, <2>1, <2>2 DEF Reached, Follows
    <2>4. r.tree \in Upcoming(p, w)
      BY <1>1, <1>7, <1>11, <2>1
    <2>5. Made(r.events, p, w, h, f[k], k)
      BY <1>0, <1>11, <2>1, <2>2, MadeSame DEF y
    <2>. QED
      BY <2>1, <2>3, <2>4, <2>5 DEF Parsing
  <1>12. CASE InBody(q, f[k - 1] + 1) /\ y.tag = "end"
    <2>. DEFINE e == [kind |-> "stanza", stanza |-> q.tree]
    <2>1. /\ GoodParser(r) /\ Between(r) /\ ~r.over
          /\ r.events = Append(q.events, e) /\ e \in GoodEvent
      BY <1>0, <1>1, <1>4, <1>12, StreamEndTag DEF r
    <2>2. q.depth = 2 /\ q.tree.no = f[k - 1] + 1
      BY <1>12 DEF InBody, Inside
    <2>3. f[k] = f[k - 1] + 1
      BY <1>2, <1>12
    <2>4. /\ e.kind = "stanza" /\ e.stanza \in Upcoming(p, w) /\ e.stanza.no = f[k]
      BY <1>0, <2>2, <2>3
    <2>. HIDE DEF e
    <2>5. Made(Append(q.events, e), p, w, h, f[k], k)
      BY <1>0, <1>12, <2>1, <2>3, <2>4, MadeMore DEF y
    <2>. QED
      BY <1>9, <1>12, <2>1, <2>5
  <1>13. CASE Between(q) /\ y.tag = "close"
    <2>. DEFINE e == [kind |-> "end", stanza |-> None]
    <2>1. /\ GoodParser(r) /\ Fresh(r) /\ r.over
          /\ r.events = Append(q.events, e) /\ e \in GoodEvent
      BY <1>0, <1>1, <1>4, <1>13, StreamClose DEF r
    <2>2. f[k] = f[k - 1] /\ e.kind = "end"
      BY <1>2, <1>13
    <2>3. Reached(r, w, f, k)
      BY <1>1, <1>13, <2>1 DEF Reached
    <2>4. r.depth # 2
      BY <2>1 DEF Fresh
    <2>. HIDE DEF e
    <2>5. Made(Append(q.events, e), p, w, h, f[k], k)
      BY <1>0, <1>13, <2>1, <2>2, MadeMore DEF y
    <2>. QED
      BY <2>1, <2>3, <2>4, <2>5 DEF Parsing
  <1>14. CASE k = 1 /\ Fresh(q) /\ y.tag = "open"
    <2>. DEFINE e == [kind |-> HeaderKind(p), stanza |-> None]
    <2>1. /\ GoodParser(r) /\ Between(r) /\ ~r.over
          /\ r.events = Append(q.events, e) /\ e \in GoodEvent
      BY <1>0, <1>1, <1>4, <1>14, FreshOpen DEF r, HeaderKind
    <2>2. f[k] = f[k - 1] /\ e.kind = HeaderKind(p) /\ Fresh(p)
      BY <1>2, <1>14
    <2>. HIDE DEF e
    <2>3. Made(Append(q.events, e), p, w, h, f[k], k)
      BY <1>0, <1>14, <2>1, <2>2, MadeMore DEF y
    <2>. QED
      BY <1>9, <1>14, <2>1, <2>3
  <1>. QED
    BY <1>6, <1>8, <1>10, <1>11, <1>12, <1>13, <1>14 DEF Follows

-----------------------------------------------------------------------------
(* Chunks.                                                                  *)

(* Parsing the first n symbols of w.                                        *)
Trace(g, p, w, n) ==
  g[0] = p /\ \A k \in 1..n : g[k] = Symbolized(g[k - 1], w[k])

LEMMA ChunkTrace ==
  ASSUME NEW w \in Seq(Symbol), NEW n \in 1..Len(w), NEW p
  PROVE  \E g : Trace(g, p, w, n) /\ Parsed(p, SubSeq(w, 1, n)) = g[n]
  <1>. DEFINE chunk == SubSeq(w, 1, n)
  <1>1. chunk \in Seq(Symbol) /\ Len(chunk) = n /\ \A i \in 1..n : chunk[i] = w[i]
    OBVIOUS
  <1>. HIDE DEF chunk
  <1>2. PICK g : /\ g[0] = p
                 /\ \A k \in 1..Len(chunk) : g[k] = Symbolized(g[k - 1], chunk[k])
                 /\ Parsed(p, chunk) = g[Len(chunk)]
    BY <1>1, ParsedTrace
  <1>3. Trace(g, p, w, n) /\ Parsed(p, chunk) = g[n]
    BY <1>1, <1>2 DEF Trace
  <1>. QED
    BY <1>3 DEF chunk

LEMMA StreamTrace ==
  ASSUME NEW w, Wired(w), NEW h \in Nat, NEW f, Tally(f, w, h), NEW n \in 0..Len(w),
         NEW p, GoodParser(p), ~p.over, p.events = <<>>,
         \/ Follows(p, TagAt(w, 1), h)
         \/ Fresh(p) /\ TagAt(w, 1) \in {"none", "open"},
         NEW g, Trace(g, p, w, n)
  PROVE  Parsing(g[n], p, w, f, h, n)
  <1>. DEFINE N == {k \in Nat : k <= n => Parsing(g[k], p, w, f, h, k)}
  <1>0. n \in Nat /\ Len(w) \in Nat /\ n <= Len(w) /\ p.stream \in BOOLEAN
    BY ParserFields DEF Wired, GoodParser
  <1>1. 0 \in N
    <2>1. f[0] = h /\ g[0] = p
      BY DEF Tally, Trace
    <2>2. Made(p.events, p, w, h, f[0], 0)
      BY <2>1, MadeNothing
    <2>3. Reached(p, w, f, 0)
      BY <2>1 DEF Reached
    <2>4. p.depth = 2 => p.tree \in Upcoming(p, w)
      BY DEF Follows, Between, InTag, InBody, Inside, Fresh, Upcoming
    <2>5. Parsing(g[0], p, w, f, h, 0)
      BY <2>1, <2>2, <2>3, <2>4 DEF Parsing
    <2>. QED
      BY <2>5
  <1>2. ASSUME NEW k \in Nat, k \in N
        PROVE  k + 1 \in N
    <2>1. ASSUME k + 1 <= n
          PROVE  Parsing(g[k + 1], p, w, f, h, k + 1)
      <3>1. k + 1 \in 1..Len(w) /\ k + 1 \in 1..n /\ (k + 1) - 1 = k /\ k <= n
        BY <1>0, <2>1
      <3>2. g[k + 1] = Symbolized(g[k], w[k + 1])
        BY <3>1 DEF Trace
      <3>3. Parsing(g[k], p, w, f, h, (k + 1) - 1)
        BY <1>2, <3>1
      <3>4. k + 1 = 1 => g[k] = p /\ g[k].events = <<>>
        BY DEF Trace
      <3>. DEFINE j == k + 1
                  q == g[k]
      <3>5. /\ j \in 1..Len(w) /\ Parsing(q, p, w, f, h, j - 1)
            /\ j = 1 => q = p /\ q.events = <<>>
        BY <3>1, <3>3, <3>4
      <3>. HIDE DEF N, j, q
      <3>6. Parsing(Symbolized(q, w[j]), p, w, f, h, j)
        BY ONLY Wired(w), h \in Nat, Tally(f, w, h), <1>0, <3>5, StreamStep
      <3>. QED
        BY <3>2, <3>6 DEF j, q
    <2>. QED
      BY <2>1
  <1>3. Nat \subseteq N
    <2>. HIDE DEF N
    <2>. QED
      BY <1>1, <1>2, Induction
  <1>. QED
    BY <1>0, <1>3

LEMMA MisledTrace ==
  ASSUME NEW w \in Seq(Symbol), NEW n \in 1..Len(w), NEW p, NEW g, Trace(g, p, w, n),
         NEW m \in 1..n, GoodParser(g[m]), Misled(g[m]), ~g[m].over
  PROVE  GoodParser(g[n]) /\ Misled(g[n]) /\ ~g[n].over
  <1>. DEFINE Off(q) == GoodParser(q) /\ Misled(q) /\ ~q.over
              N == {k \in Nat : m + k <= n => Off(g[m + k])}
  <1>1. 0 \in N
    OBVIOUS
  <1>2. ASSUME NEW k \in Nat, k \in N
        PROVE  k + 1 \in N
    <2>1. ASSUME m + (k + 1) <= n
          PROVE  Off(g[m + (k + 1)])
      <3>1. /\ m + (k + 1) \in 1..n /\ m + (k + 1) \in 1..Len(w)
            /\ (m + (k + 1)) - 1 = m + k /\ m + k <= n
        BY <2>1
      <3>2. /\ g[m + (k + 1)] = Symbolized(g[m + k], w[m + (k + 1)])
            /\ w[m + (k + 1)] \in Symbol
        BY <3>1 DEF Trace
      <3>3. Off(g[m + k])
        BY <1>2, <3>1
      <3>. QED
        BY <3>2, <3>3, MisledStep
    <2>. QED
      BY <2>1
  <1>3. Nat \subseteq N
    <2>. HIDE DEF N
    <2>. QED
      BY <1>1, <1>2, Induction
  <1>4. n - m \in N /\ m + (n - m) = n
    BY <1>3
  <1>. QED
    BY <1>4

LEMMA DeafTrace ==
  ASSUME NEW w \in Seq(Symbol), NEW n \in 0..Len(w), NEW p, NEW g, Trace(g, p, w, n),
         NEW m \in 0..n, g[m].dead
  PROVE  g[n] = g[m]
  <1>. DEFINE N == {k \in Nat : m + k <= n => g[m + k] = g[m]}
  <1>1. 0 \in N
    OBVIOUS
  <1>2. ASSUME NEW k \in Nat, k \in N
        PROVE  k + 1 \in N
    <2>1. ASSUME m + (k + 1) <= n
          PROVE  g[m + (k + 1)] = g[m]
      <3>1. m + (k + 1) \in 1..n /\ (m + (k + 1)) - 1 = m + k /\ m + k <= n
        BY <2>1
      <3>2. g[m + (k + 1)] = Symbolized(g[m + k], w[m + (k + 1)])
        BY <3>1 DEF Trace
      <3>3. g[m + k] = g[m]
        BY <1>2, <3>1
      <3>. QED
        BY <3>2, <3>3, DeafStep
    <2>. QED
      BY <2>1
  <1>3. Nat \subseteq N
    <2>. HIDE DEF N
    <2>. QED
      BY <1>1, <1>2, Induction
  <1>4. n - m \in N /\ m + (n - m) = n
    BY <1>3
  <1>. QED
    BY <1>4

LEMMA PrimedFields ==
  ASSUME NEW p, GoodParser(p)
  PROVE  /\ GoodParser(Primed(p)) /\ Between(Primed(p)) /\ ~Primed(p).over
         /\ Primed(p).events = p.events /\ Primed(p).depth = 1
  BY DEF Primed, ResetParser, NewParser, GoodParser, Between, Inside, Alive, Parser

LEMMA OverReset ==
  ASSUME NEW q, GoodParser(q), NEW r, r = [q EXCEPT !.over = FALSE]
  PROVE  /\ GoodParser(r) /\ ~r.over /\ r.root = q.root /\ r.open = q.open /\ r.cut = q.cut
         /\ r.dead = q.dead /\ r.depth = q.depth /\ r.stream = q.stream /\ r.tree = q.tree
         /\ r.quirk = q.quirk /\ r.events = q.events
  BY DEF GoodParser, Parser

(* A chunk is parsed once,                                                  *)
LEMMA FedOneTime ==
  ASSUME NEW p, p \in Parser, p.events = <<>>, NEW chunk, ~Parsed(p, chunk).quirk
  PROVE  Fed(p, chunk) = [Parsed(p, chunk) EXCEPT !.over = FALSE]
  <1>1. [p EXCEPT !.events = <<>>] = p
    BY DEF Parser
  <1>. QED
    BY <1>1 DEF Fed

(* or again, if it began with a stanza.                                     *)
LEMMA FedAgain ==
  ASSUME NEW p, p \in Parser, p.events = <<>>, NEW chunk, Parsed(p, chunk).quirk
  PROVE  Fed(p, chunk) =
           [Parsed(Primed(Parsed(p, chunk)), chunk) EXCEPT !.over = FALSE]
  <1>1. [p EXCEPT !.events = <<>>] = p
    BY DEF Parser
  <1>. QED
    BY <1>1 DEF Fed

(* Where a parser is after a chunk, and what it has made of it.             *)
FedTo(r, p, w, f, h, n) ==
  /\ GoodParser(r) /\ ~r.over
  /\ \/ Follows(r, TagAt(w, n + 1), f[n])
     \/ Fresh(r) /\ n = Len(w) /\ TagAt(w, n) = "close"
  /\ r.depth = 2 => r.tree \in Upcoming(p, w)
  /\ Made(r.events, p, w, h, f[n], n)

LEMMA ParsingFed ==
  ASSUME NEW w, NEW f, NEW h, NEW n \in Nat \ {0}, NEW p, NEW q, Parsing(q, p, w, f, h, n),
         NEW r, r = [q EXCEPT !.over = FALSE]
  PROVE  FedTo(r, p, w, f, h, n)
  <1>1. /\ GoodParser(q) /\ Reached(q, w, f, n)
        /\ q.depth = 2 => q.tree \in Upcoming(p, w)
        /\ Made(q.events, p, w, h, f[n], n)
    BY DEF Parsing
  <1>2. /\ GoodParser(r) /\ ~r.over /\ r.root = q.root /\ r.open = q.open /\ r.cut = q.cut
        /\ r.dead = q.dead /\ r.depth = q.depth /\ r.stream = q.stream /\ r.tree = q.tree
        /\ r.quirk = q.quirk /\ r.events = q.events
    BY <1>1, OverReset
  <1>3. /\ Follows(q, TagAt(w, n + 1), f[n]) => Follows(r, TagAt(w, n + 1), f[n])
        /\ Fresh(q) => Fresh(r)
    BY <1>2 DEF Follows, Fresh, Between, InTag, InBody, Inside, Alive
  <1>. QED
    BY <1>1, <1>2, <1>3 DEF Reached, FedTo

LEMMA ParsingAlive ==
  ASSUME NEW q, NEW p, NEW w, NEW f, NEW h, NEW n, Parsing(q, p, w, f, h, n)
  PROVE  ~q.quirk
  BY DEF Parsing, Reached, Follows, Fresh, Between, InTag, InBody, Inside, Alive

(* In the stream, and at its beginning.                                     *)
LEMMA FedInStream ==
  ASSUME NEW w, Wired(w), NEW h \in Nat, NEW f, Tally(f, w, h), NEW n \in 1..Len(w),
         NEW p, p \in Parser, ~p.over, p.events = <<>>,
         \/ Follows(p, TagAt(w, 1), h)
         \/ Fresh(p) /\ TagAt(w, 1) \in {"none", "open"}
  PROVE  FedTo(Fed(p, SubSeq(w, 1, n)), p, w, f, h, n)
  <1>0. w \in Seq(Symbol) /\ GoodParser(p) /\ n \in 0..Len(w) /\ n \in Nat \ {0}
    BY DEF Wired, GoodParser
  <1>1. PICK g : Trace(g, p, w, n) /\ Parsed(p, SubSeq(w, 1, n)) = g[n]
    BY <1>0, ChunkTrace
  <1>2. Parsing(g[n], p, w, f, h, n)
    BY <1>0, <1>1, StreamTrace
  <1>3. ~g[n].quirk
    BY <1>2, ParsingAlive
  <1>4. Fed(p, SubSeq(w, 1, n)) = [g[n] EXCEPT !.over = FALSE]
    <2>. DEFINE chunk == SubSeq(w, 1, n)
    <2>1. Parsed(p, chunk) = g[n] /\ ~g[n].quirk
      BY <1>1, <1>3
    <2>. HIDE DEF chunk
    <2>2. Fed(p, chunk) = [Parsed(p, chunk) EXCEPT !.over = FALSE]
      BY <2>1, FedOneTime
    <2>. QED
      BY <2>1, <2>2 DEF chunk
  <1>. QED
    BY <1>0, <1>2, <1>4, ParsingFed

(* The first tag of a client that does not start its stream again, in one   *)
(* piece: the chunk is parsed again, in a stream.                           *)
LEMMA FedStanzaFirst ==
  ASSUME NEW w, Wired(w), NEW h \in Nat, NEW f, Tally(f, w, h), NEW n \in 1..Len(w), n # 1,
         NEW p, p \in Parser, ~p.over, p.events = <<>>, Fresh(p), TagAt(w, 1) = "head"
  PROVE  FedTo(Fed(p, SubSeq(w, 1, n)), p, w, f, h, n)
  <1>0. /\ w \in Seq(Symbol) /\ GoodParser(p) /\ n \in 0..Len(w) /\ n \in Nat \ {0}
        /\ 1 \in 1..Len(w) /\ 2 \in 1..Len(w) /\ 1 \in 1..n /\ 2 \in 1..n
    BY DEF Wired, GoodParser
  <1>1. PICK g : Trace(g, p, w, n) /\ Parsed(p, SubSeq(w, 1, n)) = g[n]
    BY <1>0, ChunkTrace
  <1>2. g[0] = p /\ g[1] = Symbolized(p, w[1]) /\ g[2] = Symbolized(g[1], w[2])
    <2>1. 1 - 1 = 0 /\ 2 - 1 = 1
      OBVIOUS
    <2>. QED
      BY <1>0, <1>1, <2>1 DEF Trace
  <1>3. /\ w[1].tag = "head" /\ w[2].tag = "rest" /\ w[1] \in Symbol /\ w[2] \in Symbol
    <2>1. w[1].tag = "head" /\ w[1] \in Symbol /\ TagAt(w, 1 + 1) = "rest"
      BY <1>0, NextTag
    <2>2. 1 + 1 = 2
      OBVIOUS
    <2>3. TagAt(w, 2) = w[2].tag /\ w[2] \in Symbol
      BY <1>0, NextTag
    <2>. QED
      BY <2>1, <2>2, <2>3
  <1>4. GoodParser(g[1]) /\ Torn(g[1]) /\ ~g[1].over /\ g[1].events = <<>>
    BY <1>0, <1>2, <1>3, FreshHead
  <1>5. GoodParser(g[2]) /\ Misled(g[2]) /\ ~g[2].over
    BY <1>2, <1>3, <1>4, TornRest
  <1>6. GoodParser(g[n]) /\ Misled(g[n])
    BY <1>0, <1>1, <1>5, MisledTrace
  <1>. DEFINE o == Primed(g[n])
  <1>7. GoodParser(o) /\ Between(o) /\ ~o.over /\ o.events = <<>> /\ o.depth = 1
    BY <1>6, PrimedFields DEF Misled
  <1>8. PICK d : Trace(d, o, w, n) /\ Parsed(o, SubSeq(w, 1, n)) = d[n]
    BY <1>0, ChunkTrace
  <1>. HIDE DEF o
  <1>9. Parsing(d[n], o, w, f, h, n)
    <2>1. Follows(o, TagAt(w, 1), h)
      BY <1>7 DEF Follows
    <2>. QED
      BY <1>0, <1>7, <1>8, <2>1, StreamTrace
  <1>10. Fed(p, SubSeq(w, 1, n)) = [d[n] EXCEPT !.over = FALSE]
    <2>1. d[n] = Parsed(Primed(g[n]), SubSeq(w, 1, n)) /\ g[n].quirk
      BY <1>6, <1>8 DEF o, Misled
    <2>. DEFINE chunk == SubSeq(w, 1, n)
    <2>2. Parsed(p, chunk) = g[n] /\ Parsed(Primed(g[n]), chunk) = d[n]
      BY <1>1, <2>1
    <2>. HIDE DEF chunk
    <2>3. Fed(p, chunk) = [Parsed(Primed(Parsed(p, chunk)), chunk) EXCEPT !.over = FALSE]
      BY <2>1, <2>2, FedAgain
    <2>. QED
      BY <2>2, <2>3 DEF chunk
  <1>. DEFINE r == Fed(p, SubSeq(w, 1, n))
  <1>11. FedTo(r, o, w, f, h, n)
    BY <1>0, <1>9, <1>10, ParsingFed
  <1>. HIDE DEF r
  <1>12. Upcoming(o, w) \subseteq Upcoming(p, w) /\ TagAt(w, 1) # "open"
    BY <1>7 DEF Upcoming
  <1>13. Made(r.events, p, w, h, f[n], n)
    BY <1>11, <1>12 DEF FedTo, Made
  <1>14. FedTo(r, p, w, f, h, n)
    BY <1>11, <1>12, <1>13 DEF FedTo
  <1>. QED
    BY <1>14 DEF r

(* The first tag torn: its beginning is all that has come.                  *)
LEMMA FedTorn ==
  ASSUME NEW w, Wired(w), 1 \in 1..Len(w),
         NEW p, p \in Parser, ~p.over, p.events = <<>>, Fresh(p), TagAt(w, 1) = "head"
  PROVE  LET r == Fed(p, SubSeq(w, 1, 1))
         IN GoodParser(r) /\ Torn(r) /\ ~r.over /\ r.events = <<>>
  <1>0. w \in Seq(Symbol) /\ GoodParser(p)
    BY DEF Wired, GoodParser
  <1>1. PICK g : Trace(g, p, w, 1) /\ Parsed(p, SubSeq(w, 1, 1)) = g[1]
    BY <1>0, ChunkTrace
  <1>2. g[1] = Symbolized(p, w[1])
    <2>1. 1 \in 1..1 /\ 1 - 1 = 0
      OBVIOUS
    <2>. QED
      BY <1>1, <2>1 DEF Trace
  <1>3. w[1].tag = "head" /\ w[1] \in Symbol
    BY NextTag
  <1>4. GoodParser(g[1]) /\ Torn(g[1]) /\ ~g[1].over /\ g[1].events = <<>>
    BY <1>0, <1>2, <1>3, FreshHead
  <1>5. Fed(p, SubSeq(w, 1, 1)) = [g[1] EXCEPT !.over = FALSE]
    <2>. DEFINE chunk == SubSeq(w, 1, 1)
    <2>1. Parsed(p, chunk) = g[1] /\ ~g[1].quirk
      BY <1>1, <1>4 DEF Torn, Alive
    <2>. HIDE DEF chunk
    <2>2. Fed(p, chunk) = [Parsed(p, chunk) EXCEPT !.over = FALSE]
      BY <2>1, FedOneTime
    <2>. QED
      BY <2>1, <2>2 DEF chunk
  <1>. DEFINE r == Fed(p, SubSeq(w, 1, 1))
  <1>6. /\ GoodParser(r) /\ ~r.over /\ r.root = g[1].root /\ r.open = g[1].open
        /\ r.cut = g[1].cut /\ r.dead = g[1].dead /\ r.depth = g[1].depth
        /\ r.quirk = g[1].quirk /\ r.events = g[1].events
    BY <1>4, <1>5, OverReset
  <1>. HIDE DEF r
  <1>7. GoodParser(r) /\ Torn(r) /\ ~r.over /\ r.events = <<>>
    BY <1>4, <1>6 DEF Torn, Alive
  <1>. QED
    BY <1>7 DEF r

(* The end of a stream that has not begun kills the parser.                 *)
LEMMA FedClosed ==
  ASSUME NEW w, Wired(w), NEW n \in 1..Len(w),
         NEW p, p \in Parser, ~p.over, p.events = <<>>, Fresh(p), TagAt(w, 1) = "close"
  PROVE  LET r == Fed(p, SubSeq(w, 1, n))
         IN /\ GoodParser(r) /\ r.dead /\ ~r.quirk /\ ~r.over /\ r.events = <<>>
            /\ r.depth = 0 /\ ~(r.cut /\ r.root = "none") /\ Len(w) = 1 /\ n = 1
  <1>0. w \in Seq(Symbol) /\ GoodParser(p) /\ 1 \in 1..Len(w)
    BY DEF Wired, GoodParser
  <1>1. Len(w) = 1 /\ n = 1 /\ w[1].tag = "close" /\ w[1] \in Symbol
    <2>1. w[1] \in Symbol /\ TagAt(w, 1) = w[1].tag /\ (w[1].tag = "close" => 1 = Len(w))
      BY <1>0, NextTag
    <2>2. w[1].tag = "close" /\ Len(w) = 1
      BY <2>1
    <2>. QED
      BY <2>1, <2>2
  <1>2. PICK g : Trace(g, p, w, n) /\ Parsed(p, SubSeq(w, 1, n)) = g[n]
    BY <1>0, ChunkTrace
  <1>3. g[1] = Symbolized(p, w[1])
    <2>1. 1 \in 1..1 /\ 1 - 1 = 0
      OBVIOUS
    <2>. QED
      BY <1>1, <1>2, <2>1 DEF Trace
  <1>4. g[n] = Dies(p)
    BY <1>0, <1>1, <1>3, FreshClose
  <1>5. GoodParser(g[n]) /\ g[n].dead /\ ~g[n].quirk /\ g[n].depth = 0 /\ g[n].events = <<>>
        /\ ~g[n].cut
    BY <1>0, <1>4, DiesFields DEF Fresh, Alive
  <1>6. Fed(p, SubSeq(w, 1, n)) = [g[n] EXCEPT !.over = FALSE]
    <2>. DEFINE chunk == SubSeq(w, 1, n)
    <2>1. Parsed(p, chunk) = g[n] /\ ~g[n].quirk
      BY <1>2, <1>5
    <2>. HIDE DEF chunk
    <2>2. Fed(p, chunk) = [Parsed(p, chunk) EXCEPT !.over = FALSE]
      BY <2>1, FedOneTime
    <2>. QED
      BY <2>1, <2>2 DEF chunk
  <1>. DEFINE r == Fed(p, SubSeq(w, 1, n))
              q == g[n]
  <1>7. /\ GoodParser(r) /\ ~r.over /\ r.cut = q.cut /\ r.dead = q.dead
        /\ r.depth = q.depth /\ r.quirk = q.quirk /\ r.events = q.events
    <2>1. GoodParser(q) /\ r = [q EXCEPT !.over = FALSE]
      BY <1>5, <1>6
    <2>. HIDE DEF q, r
    <2>. QED
      BY <2>1, OverReset
  <1>. HIDE DEF r
  <1>8. /\ GoodParser(r) /\ r.dead /\ ~r.quirk /\ ~r.over /\ r.events = <<>>
        /\ r.depth = 0 /\ ~r.cut
    BY <1>5, <1>7
  <1>. QED
    BY <1>1, <1>8 DEF r

(* What is lost stays lost.                                                 *)
LEMMA FedDead ==
  ASSUME NEW w, Wired(w), NEW n \in 1..Len(w),
         NEW p, p \in Parser, ~p.over, p.events = <<>>, p.dead, ~p.quirk
  PROVE  Fed(p, SubSeq(w, 1, n)) = p
  <1>0. w \in Seq(Symbol) /\ n \in 0..Len(w) /\ 0 \in 0..n
    BY DEF Wired
  <1>1. PICK g : Trace(g, p, w, n) /\ Parsed(p, SubSeq(w, 1, n)) = g[n]
    BY <1>0, ChunkTrace
  <1>2. g[0] = p
    BY <1>1 DEF Trace
  <1>3. g[n] = p
    BY <1>0, <1>1, <1>2, DeafTrace
  <1>4. Fed(p, SubSeq(w, 1, n)) = [g[n] EXCEPT !.over = FALSE]
    <2>. DEFINE chunk == SubSeq(w, 1, n)
    <2>1. Parsed(p, chunk) = g[n] /\ ~g[n].quirk
      BY <1>1, <1>3
    <2>. HIDE DEF chunk
    <2>2. Fed(p, chunk) = [Parsed(p, chunk) EXCEPT !.over = FALSE]
      BY <2>1, FedOneTime
    <2>. QED
      BY <2>1, <2>2 DEF chunk
  <1>5. p.over = FALSE
    BY DEF Parser
  <1>. QED
    <2>1. [p EXCEPT !.over = FALSE] = p
      BY ONLY p \in Parser, <1>5 DEF Parser
    <2>. QED
      BY ONLY <1>3, <1>4, <2>1

LEMMA FedMismatch ==
  ASSUME NEW w, Wired(w), NEW n \in 1..Len(w),
         NEW p, GoodParser(p), ~p.over, Between(p), TagAt(w, 1) = "end"
  PROVE  LET q == Parsed(p, SubSeq(w, 1, n))
         IN q = Dies(p)
  <1>0. w \in Seq(Symbol) /\ n \in 0..Len(w) /\ 1 \in 1..Len(w) /\ 1 \in 1..n /\ 1 \in 0..n
    BY DEF Wired
  <1>1. PICK g : Trace(g, p, w, n) /\ Parsed(p, SubSeq(w, 1, n)) = g[n]
    BY <1>0, ChunkTrace
  <1>2. g[1] = Symbolized(p, w[1])
    <2>1. 1 - 1 = 0
      OBVIOUS
    <2>. QED
      BY <1>0, <1>1, <2>1 DEF Trace
  <1>3. w[1].tag = "end" /\ w[1] \in Symbol
    BY <1>0, NextTag
  <1>4. g[1] = Dies(p) /\ g[1].dead
    BY <1>2, <1>3, StreamMismatch, DiesFields
  <1>5. g[n] = g[1]
    BY <1>0, <1>1, <1>4, DeafTrace
  <1>. QED
    BY <1>1, <1>4, <1>5

(* The rest of the torn tag: it is text in the stream it is parsed in again,*)
(* and the end tag does not match.                                          *)
LEMMA ParsedText ==
  ASSUME NEW w, Wired(w), NEW n \in 1..Len(w),
         NEW p, GoodParser(p), ~p.over, Between(p), TagAt(w, 1) = "rest"
  PROVE  LET q == Parsed(p, SubSeq(w, 1, n))
         IN q = IF n = 1 THEN p ELSE Dies(p)
  <1>0. w \in Seq(Symbol) /\ n \in 0..Len(w) /\ 1 \in 1..Len(w) /\ 1 \in 1..n /\ 1 \in 0..n
    BY DEF Wired
  <1>1. PICK g : Trace(g, p, w, n) /\ Parsed(p, SubSeq(w, 1, n)) = g[n]
    BY <1>0, ChunkTrace
  <1>2. g[1] = Symbolized(p, w[1])
    <2>1. 1 - 1 = 0
      OBVIOUS
    <2>. QED
      BY <1>0, <1>1, <2>1 DEF Trace
  <1>3. w[1].tag = "rest" /\ w[1] \in Symbol /\ TagAt(w, 1 + 1) = "end" /\ 1 + 1 = 2
    BY <1>0, NextTag
  <1>4. g[1] = p
    BY <1>2, <1>3, StreamText
  <1>5. CASE n = 1
    BY <1>1, <1>4, <1>5
  <1>6. CASE n # 1
    <2>1. 2 \in 1..n /\ 2 \in 1..Len(w) /\ 2 - 1 = 1 /\ 2 \in 0..n
      BY <1>0, <1>6
    <2>2. g[2] = Symbolized(p, w[2])
      BY <1>1, <1>4, <2>1 DEF Trace
    <2>3. w[2].tag = "end" /\ w[2] \in Symbol
      BY <1>3, <2>1, NextTag
    <2>4. g[2] = Dies(p) /\ g[2].dead
      BY <2>2, <2>3, StreamMismatch, DiesFields
    <2>5. g[n] = g[2]
      BY <1>0, <1>1, <2>1, <2>4, DeafTrace
    <2>. QED
      BY <1>1, <1>6, <2>4, <2>5
  <1>. QED
    BY <1>5, <1>6

LEMMA FedLost ==
  ASSUME NEW w, Wired(w), NEW n \in 1..Len(w),
         NEW p, p \in Parser, ~p.over, p.events = <<>>, ~p.quirk, Lost(p, TagAt(w, 1))
  PROVE  LET r == Fed(p, SubSeq(w, 1, n))
         IN /\ GoodParser(r) /\ ~r.over /\ ~r.quirk /\ r.events = <<>>
            /\ Lost(r, TagAt(w, n + 1)) /\ (p.dead => r.dead)
            /\ r.depth = 2 => r = p
  <1>. DEFINE chunk == SubSeq(w, 1, n)
              r == Fed(p, chunk)
  <1>0. w \in Seq(Symbol) /\ GoodParser(p) /\ 1 \in 1..Len(w) /\ 1 \in 1..n
    BY DEF Wired, GoodParser
  <1>a. TagAt(w, n + 1) # "open"
    <2>. DEFINE k == n + 1
    <2>1. k \in 1..Len(w) \/ n = Len(w)
      BY <1>0
    <2>2. k # 1
      OBVIOUS
    <2>. HIDE DEF k
    <2>3. CASE k \in 1..Len(w)
      BY <2>2, <2>3, NextTag DEF k
    <2>4. CASE n = Len(w)
      BY <2>4, NextTag
    <2>. QED
      BY <2>1, <2>3, <2>4 DEF k
  <1>1. CASE p.dead
    BY <1>0, <1>a, <1>1, FedDead DEF Lost
  <1>b. Torn(p) \/ Between(p) => ~p.dead
    BY DEF Torn, Between, Inside, Alive
  <1>2. CASE Between(p) /\ TagAt(w, 1) = "end"
    <2>1. Parsed(p, chunk) = Dies(p)
      BY <1>0, <1>2, FedMismatch
    <2>2. /\ GoodParser(Dies(p)) /\ Dies(p).dead /\ ~Dies(p).quirk /\ Dies(p).events = <<>>
          /\ Dies(p).depth = 1
      BY <1>0, <1>2, DiesFields DEF Between, Inside, Alive
    <2>. HIDE DEF chunk
    <2>3. r = [Dies(p) EXCEPT !.over = FALSE]
      BY <2>1, <2>2, FedOneTime
    <2>4. /\ GoodParser(r) /\ ~r.over /\ r.dead = Dies(p).dead /\ r.depth = Dies(p).depth
          /\ r.quirk = Dies(p).quirk /\ r.events = Dies(p).events
      BY ONLY <2>2, <2>3, OverReset
    <2>. HIDE DEF r
    <2>5. GoodParser(r) /\ ~r.over /\ ~r.quirk /\ r.events = <<>> /\ r.dead /\ r.depth = 1
      BY <2>2, <2>4
    <2>. QED
      BY <1>a, <1>b, <1>2, <2>5 DEF Lost, r, chunk
  <1>3. CASE Torn(p) /\ TagAt(w, 1) = "rest"
    <2>1. PICK g : Trace(g, p, w, n) /\ Parsed(p, chunk) = g[n]
      BY <1>0, ChunkTrace
    <2>2. g[1] = Symbolized(p, w[1])
      <3>1. 1 - 1 = 0 /\ g[0] = p
        BY <2>1 DEF Trace
      <3>. QED
        BY <1>0, <2>1, <3>1 DEF Trace
    <2>3. w[1].tag = "rest" /\ w[1] \in Symbol
      BY <1>0, <1>3, NextTag
    <2>4. GoodParser(g[1]) /\ Misled(g[1]) /\ ~g[1].over
      BY <1>0, <1>3, <2>2, <2>3, TornRest
    <2>5. GoodParser(g[n]) /\ Misled(g[n])
      BY <1>0, <2>1, <2>4, MisledTrace
    <2>. DEFINE o == Primed(g[n])
                q == Parsed(o, chunk)
    <2>6. GoodParser(o) /\ Between(o) /\ ~o.over /\ o.events = <<>> /\ o.depth = 1
      BY <2>5, PrimedFields DEF Misled
    <2>7. r = [q EXCEPT !.over = FALSE]
      <3>. HIDE DEF chunk
      <3>1. Parsed(p, chunk) = g[n] /\ g[n].quirk
        BY <2>1, <2>5 DEF Misled
      <3>. QED
        BY <3>1, FedAgain
    <2>. HIDE DEF o
    <2>8. q = IF n = 1 THEN o ELSE Dies(o)
      BY <1>0, <1>3, <2>6, ParsedText
    <2>. HIDE DEF q
    <2>9. CASE n = 1
      <3>1. q = o
        BY <2>8, <2>9
      <3>2. /\ GoodParser(r) /\ ~r.over /\ r.root = q.root /\ r.open = q.open /\ r.cut = q.cut
            /\ r.dead = q.dead /\ r.depth = q.depth /\ r.stream = q.stream
            /\ r.quirk = q.quirk /\ r.events = q.events
        BY <2>6, <2>7, <3>1, OverReset
      <3>. HIDE DEF r
      <3>3. Between(r) /\ r.events = <<>> /\ r.depth = 1 /\ ~r.quirk
        BY <2>6, <3>1, <3>2 DEF Between, Inside, Alive
      <3>4. TagAt(w, n + 1) = "end"
        BY <1>0, <2>3, <2>9, NextTag
      <3>. QED
        BY <1>b, <1>3, <3>2, <3>3, <3>4 DEF Lost, r, chunk
    <2>10. CASE n # 1
      <3>1. q = Dies(o)
        BY <2>8, <2>10
      <3>2. /\ GoodParser(q) /\ q.dead /\ ~q.quirk /\ q.events = <<>> /\ q.depth = 1
        BY <2>6, <3>1, DiesFields DEF Between, Inside, Alive
      <3>3. /\ GoodParser(r) /\ ~r.over /\ r.dead = q.dead /\ r.depth = q.depth
            /\ r.quirk = q.quirk /\ r.events = q.events
        BY ONLY <2>7, <3>2, OverReset
      <3>. HIDE DEF r
      <3>4. r.events = <<>> /\ r.depth = 1 /\ ~r.quirk /\ r.dead
        BY <3>2, <3>3
      <3>. QED
        BY <1>a, <1>b, <1>3, <3>3, <3>4 DEF Lost, r, chunk
    <2>. QED
      BY <2>9, <2>10
  <1>. QED
    BY <1>1, <1>2, <1>3 DEF Lost

-----------------------------------------------------------------------------
(* What is sent and what is left of it when a part has been read.           *)

Rest(w, n) == SubSeq(w, n + 1, Len(w))

LEMMA RestFacts ==
  ASSUME NEW w, Wired(w), NEW n \in 1..Len(w), NEW r, r = Rest(w, n)
  PROVE  /\ r \in Seq(Symbol) /\ Len(r) = Len(w) - n
         /\ \A i \in 1..Len(r) : n + i \in 1..Len(w) /\ r[i] = w[n + i]
  <1>1. w \in Seq(Symbol) /\ Len(w) \in Nat
    BY DEF Wired
  <1>2. r \in Seq(Symbol) /\ Len(r) = Len(w) - n
    BY <1>1 DEF Rest
  <1>3. ASSUME NEW i \in 1..Len(r)
        PROVE  n + i \in 1..Len(w) /\ r[i] = w[n + i]
    <2>1. n + i \in 1..Len(w)
      BY <1>1, <1>2
    <2>2. i \in 1..(Len(w) - (n + 1) + 1) /\ (n + 1) + i - 1 = n + i
      BY <1>1, <1>2
    <2>3. r[i] = w[(n + 1) + i - 1]
      BY <1>1, <2>2 DEF Rest
    <2>. QED
      BY <2>1, <2>2, <2>3
  <1>. QED
    BY <1>2, <1>3

LEMMA WiredRest ==
  ASSUME NEW w, Wired(w), NEW n \in 1..Len(w), NEW r, r = Rest(w, n)
  PROVE  /\ Wired(r) /\ TagAt(r, 1) = TagAt(w, n + 1)
         /\ TagAt(r, Len(r)) \in {"none", TagAt(w, Len(w))}
         /\ Carried(r) \subseteq Carried(w)
         /\ n = Len(w) => r = <<>>
         /\ n # Len(w) => TagAt(r, Len(r)) = TagAt(w, Len(w))
  <1>1. /\ r \in Seq(Symbol) /\ Len(r) = Len(w) - n /\ Len(r) \in Nat /\ Len(w) \in Nat
        /\ \A i \in 1..Len(r) : n + i \in 1..Len(w) /\ r[i] = w[n + i]
    <2>1. /\ r \in Seq(Symbol) /\ Len(r) = Len(w) - n
          /\ \A i \in 1..Len(r) : n + i \in 1..Len(w) /\ r[i] = w[n + i]
      BY RestFacts
    <2>2. Len(r) \in Nat /\ Len(w) \in Nat
      BY <2>1 DEF Wired
    <2>. QED
      BY <2>1, <2>2
  <1>2. \A i \in 1..Len(r), j \in 1..Len(r) : j = i + 1 => TagFollows(r[i].tag, r[j].tag)
    <2>1. ASSUME NEW i \in 1..Len(r), NEW j \in 1..Len(r), j = i + 1
          PROVE  TagFollows(r[i].tag, r[j].tag)
      <3>1. n + j = (n + i) + 1
        BY <2>1
      <3>2. /\ n + i \in 1..Len(w) /\ n + j \in 1..Len(w) /\ r[i] = w[n + i] /\ r[j] = w[n + j]
        BY <1>1
      <3>. QED
        BY <3>1, <3>2 DEF Wired
    <2>. QED
      BY <2>1
  <1>3. r # <<>> => Len(r) \in 1..Len(r) /\ r[Len(r)] = w[Len(w)] /\ w # <<>>
    <2>1. ASSUME r # <<>>
          PROVE  Len(r) \in 1..Len(r) /\ n + Len(r) = Len(w) /\ w # <<>>
      BY <1>1, <2>1
    <2>. QED
      BY <1>1, <2>1
  <1>4. \A i \in 1..Len(r) : r[i].tag \in {"head", "rest", "end"} => r[i].stanza \in Stanza
    BY <1>1 DEF Wired
  <1>5. Wired(r)
    BY <1>1, <1>2, <1>3, <1>4 DEF Wired
  <1>6. TagAt(r, 1) = TagAt(w, n + 1)
    <2>1. 1 \in 1..Len(r) <=> n + 1 \in 1..Len(w)
      BY <1>1
    <2>. QED
      BY <1>1, <2>1 DEF TagAt
  <1>7. /\ TagAt(r, Len(r)) \in {"none", TagAt(w, Len(w))}
        /\ r # <<>> => TagAt(r, Len(r)) = TagAt(w, Len(w))
    <2>1. CASE r = <<>>
      <3>1. Len(r) \notin 1..Len(r)
        BY <2>1
      <3>. QED
        BY <3>1 DEF TagAt
    <2>2. CASE r # <<>>
      <3>1. Len(w) \in 1..Len(w)
        BY <1>1, <1>3, <2>2
      <3>. QED
        BY <1>3, <2>2, <3>1 DEF TagAt
    <2>. QED
      BY <2>1, <2>2
  <1>8. Carried(r) \subseteq Carried(w)
    <2>1. ASSUME NEW i \in {k \in 1..Len(r) : r[k].tag \in {"head", "rest", "end"}}
          PROVE  r[i].stanza \in Carried(w)
      <3>1. n + i \in 1..Len(w) /\ r[i] = w[n + i]
        BY <1>1
      <3>. QED
        BY <3>1 DEF Carried
    <2>. QED
      BY <2>1 DEF Carried
  <1>9. n = Len(w) => r = <<>>
    BY <1>1
  <1>10. n # Len(w) => r # <<>>
    <2>1. n # Len(w) => Len(r) # 0
      BY <1>1
    <2>. QED
      BY <2>1
  <1>. QED
    BY <1>5, <1>6, <1>7, <1>8, <1>9, <1>10

LEMMA TalliedRest ==
  ASSUME NEW w, Wired(w), NEW h, NEW f, Tally(f, w, h), NEW m, f[Len(w)] = m,
         \A i \in 0..Len(w) : f[i] <= m, NEW n \in 1..Len(w), NEW r, r = Rest(w, n)
  PROVE  Tallied(r, f[n], m)
  <1>1. /\ Len(r) = Len(w) - n /\ Len(r) \in Nat /\ Len(w) \in Nat
        /\ \A i \in 1..Len(r) : n + i \in 1..Len(w) /\ r[i] = w[n + i]
    <2>1. Len(w) \in Nat /\ Wired(w) /\ n \in 1..Len(w) /\ r = Rest(w, n)
      BY DEF Wired
    <2>2. /\ r \in Seq(Symbol) /\ Len(r) = Len(w) - n
          /\ \A i \in 1..Len(r) : n + i \in 1..Len(w) /\ r[i] = w[n + i]
      BY ONLY <2>1, RestFacts
    <2>3. Len(r) \in Nat
      BY ONLY <2>2
    <2>. QED
      BY ONLY <2>1, <2>2, <2>3
  <1>. DEFINE g == [i \in 0..Len(r) |-> f[n + i]]
  <1>2. \A i \in 0..Len(r) : n + i \in 0..Len(w)
    BY <1>1
  <1>3. g \in [0..Len(r) -> Nat] /\ \A i \in 0..Len(r) : g[i] = f[n + i] /\ g[i] <= m
    BY <1>2 DEF Tally
  <1>. HIDE DEF g
  <1>4. g[0] = f[n] /\ g[Len(r)] = m
    <2>1. 0 \in 0..Len(r) /\ Len(r) \in 0..Len(r) /\ n + 0 = n /\ n + Len(r) = Len(w)
      BY <1>1
    <2>. QED
      BY <1>3, <2>1
  <1>5. ASSUME NEW i \in 1..Len(r)
        PROVE  /\ g[i] = IF r[i].tag = "end" THEN g[i - 1] + 1 ELSE g[i - 1]
               /\ r[i].tag = "rest" => r[i].stanza.no = g[i - 1] + 1
    <2>1. /\ i \in 0..Len(r) /\ i - 1 \in 0..Len(r) /\ n + (i - 1) = (n + i) - 1
      BY <1>1
    <2>2. g[i] = f[n + i] /\ g[i - 1] = f[(n + i) - 1]
      BY <1>3, <2>1
    <2>3. n + i \in 1..Len(w) /\ r[i] = w[n + i]
      BY <1>1
    <2>. QED
      BY <2>2, <2>3 DEF Tally
  <1>. QED
    BY <1>3, <1>4, <1>5 DEF Tallied, Tally

(* What is sent goes behind what is under way.                              *)
Extends(y, w, x) ==
  /\ y # <<>> /\ Carried(y) = Carried(w) \cup Carried(x)
  /\ TagAt(y, 1) = IF w = <<>> THEN TagAt(x, 1) ELSE TagAt(w, 1)
  /\ TagAt(y, Len(y)) = TagAt(x, Len(x))

LEMMA WiredConcat ==
  ASSUME NEW w, Wired(w), NEW x, Wired(x), x # <<>>,
         w = <<>> \/ TagFollows(TagAt(w, Len(w)), TagAt(x, 1)),
         NEW y, y = w \o x
  PROVE  Wired(y) /\ Extends(y, w, x)
  <1>0. w \in Seq(Symbol) /\ x \in Seq(Symbol) /\ Len(w) \in Nat /\ Len(x) \in Nat
    BY DEF Wired
  <1>1. /\ y \in Seq(Symbol) /\ Len(y) = Len(w) + Len(x)
        /\ \A i \in 1..Len(w) : y[i] = w[i]
        /\ \A i \in 1..Len(y) : ~(i <= Len(w)) =>
             i - Len(w) \in 1..Len(x) /\ y[i] = x[i - Len(w)]
    BY <1>0, Joined
  <1>2. Len(x) # 0 /\ (w # <<>> => Len(w) # 0)
    BY <1>0
  <1>3. \A i \in 1..Len(x) : Len(w) + i \in 1..Len(y) /\ y[Len(w) + i] = x[i]
    <2>1. ASSUME NEW i \in 1..Len(x)
          PROVE  /\ Len(w) + i \in 1..Len(y) /\ ~(Len(w) + i <= Len(w))
                 /\ (Len(w) + i) - Len(w) = i
      BY <1>0, <1>1
    <2>. QED
      BY <1>1, <2>1
  <1>4. ASSUME NEW i \in 1..Len(y), NEW j \in 1..Len(y), j = i + 1
        PROVE  TagFollows(y[i].tag, y[j].tag)
    <2>1. CASE j <= Len(w)
      <3>1. i \in 1..Len(w) /\ j \in 1..Len(w)
        BY <1>0, <1>4, <2>1
      <3>. QED
        BY <1>1, <1>4, <3>1 DEF Wired
    <2>2. CASE i = Len(w)
      <3>1. i \in 1..Len(w) /\ j - Len(w) = 1 /\ ~(j <= Len(w)) /\ 1 \in 1..Len(x) /\ w # <<>>
        BY <1>0, <1>2, <1>4, <2>2
      <3>2. y[i] = w[i] /\ y[j] = x[1]
        BY <1>1, <3>1
      <3>3. TagAt(w, Len(w)) = w[i].tag /\ TagAt(x, 1) = x[1].tag
        BY <2>2, <3>1 DEF TagAt
      <3>. QED
        BY <3>1, <3>2, <3>3
    <2>3. CASE ~(i <= Len(w))
      <3>1. ~(j <= Len(w)) /\ j - Len(w) = (i - Len(w)) + 1
        BY <1>0, <1>4, <2>3
      <3>2. /\ i - Len(w) \in 1..Len(x) /\ y[i] = x[i - Len(w)]
            /\ j - Len(w) \in 1..Len(x) /\ y[j] = x[j - Len(w)]
        BY <1>1, <2>3, <3>1
      <3>. QED
        BY <3>1, <3>2 DEF Wired
    <2>. QED
      BY <1>0, <1>4, <2>1, <2>2, <2>3
  <1>5. y # <<>> /\ Len(y) \in 1..Len(y) /\ y[Len(y)] = x[Len(x)] /\ Len(x) \in 1..Len(x)
    <2>1. Len(x) \in 1..Len(x) /\ Len(w) + Len(x) = Len(y) /\ Len(y) # 0
      BY <1>0, <1>1, <1>2
    <2>2. y # <<>>
      BY <2>1
    <2>. QED
      BY <1>1, <1>3, <2>1, <2>2
  <1>6. ASSUME NEW i \in 1..Len(y), y[i].tag \in {"head", "rest", "end"}
        PROVE  y[i].stanza \in Stanza /\ y[i].stanza \in Carried(w) \cup Carried(x)
    <2>1. CASE i <= Len(w)
      <3>1. i \in 1..Len(w)
        BY <1>0, <2>1
      <3>. QED
        BY <1>1, <1>6, <3>1 DEF Wired, Carried
    <2>2. CASE ~(i <= Len(w))
      BY <1>1, <1>6, <2>2 DEF Wired, Carried
    <2>. QED
      BY <2>1, <2>2
  <1>7. Wired(y)
    <2>1. x[Len(x)].tag \in {"open", "end", "close"}
      BY DEF Wired
    <2>. QED
      BY <1>1, <1>4, <1>5, <1>6, <2>1 DEF Wired
  <1>8. Carried(y) = Carried(w) \cup Carried(x)
    <2>1. Carried(y) \subseteq Carried(w) \cup Carried(x)
      BY <1>6 DEF Carried
    <2>2. \A i \in 1..Len(w) : i \in 1..Len(y)
      BY <1>0, <1>1
    <2>3. Carried(w) \subseteq Carried(y)
      BY <1>1, <2>2 DEF Carried
    <2>4. Carried(x) \subseteq Carried(y)
      BY <1>3 DEF Carried
    <2>. QED
      BY <2>1, <2>3, <2>4
  <1>9. TagAt(y, Len(y)) = TagAt(x, Len(x))
    BY <1>5 DEF TagAt
  <1>10. TagAt(y, 1) = IF w = <<>> THEN TagAt(x, 1) ELSE TagAt(w, 1)
    <2>1. CASE w = <<>>
      <3>1. Len(w) = 0 /\ 1 \in 1..Len(x) /\ 0 + 1 = 1
        BY <1>0, <1>2, <2>1
      <3>2. 1 \in 1..Len(y) /\ y[1] = x[1]
        BY <1>3, <3>1
      <3>. QED
        BY <2>1, <3>1, <3>2 DEF TagAt
    <2>2. CASE w # <<>>
      <3>1. 1 \in 1..Len(w) /\ 1 \in 1..Len(y)
        BY <1>0, <1>1, <1>2, <2>2
      <3>. QED
        BY <1>1, <2>2, <3>1 DEF TagAt
    <2>. QED
      BY <2>1, <2>2
  <1>. QED
    BY <1>5, <1>7, <1>8, <1>9, <1>10 DEF Extends

LEMMA TalliedConcat ==
  ASSUME NEW w \in Seq(Symbol), NEW x \in Seq(Symbol), NEW h, NEW m, NEW n,
         Tallied(w, h, m), Tallied(x, m, n), NEW y, y = w \o x
  PROVE  Tallied(y, h, n)
  <1>0. Len(w) \in Nat /\ Len(x) \in Nat
    OBVIOUS
  <1>1. /\ y \in Seq(Symbol) /\ Len(y) = Len(w) + Len(x)
        /\ \A i \in 1..Len(w) : y[i] = w[i]
        /\ \A i \in 1..Len(y) : ~(i <= Len(w)) =>
             i - Len(w) \in 1..Len(x) /\ y[i] = x[i - Len(w)]
    BY <1>0, Joined
  <1>2. PICK f \in [0..Len(w) -> Nat] :
               Tally(f, w, h) /\ f[Len(w)] = m /\ \A i \in 0..Len(w) : f[i] <= m
    BY DEF Tallied
  <1>3. PICK g \in [0..Len(x) -> Nat] :
               Tally(g, x, m) /\ g[Len(x)] = n /\ \A i \in 0..Len(x) : g[i] <= n
    BY DEF Tallied
  <1>4. m \in Nat /\ n \in Nat /\ m <= n
    <2>1. Len(w) \in 0..Len(w) /\ Len(x) \in 0..Len(x) /\ 0 \in 0..Len(x) /\ g[0] = m
      BY <1>0, <1>3 DEF Tally
    <2>. QED
      BY <1>2, <1>3, <2>1
  <1>. DEFINE e == [i \in 0..Len(y) |-> IF i <= Len(w) THEN f[i] ELSE g[i - Len(w)]]
  <1>5. /\ \A i \in 0..Len(w) : i \in 0..Len(y) /\ i <= Len(w)
        /\ \A i \in 0..Len(y) : i <= Len(w) => i \in 0..Len(w)
        /\ \A i \in 0..Len(y) : ~(i <= Len(w)) => i - Len(w) \in 0..Len(x)
    BY <1>0, <1>1
  <1>6. /\ e \in [0..Len(y) -> Nat]
        /\ \A i \in 0..Len(w) : e[i] = f[i]
        /\ \A i \in 0..Len(y) : ~(i <= Len(w)) => e[i] = g[i - Len(w)]
    BY <1>2, <1>3, <1>5
  <1>. HIDE DEF e
  <1>7. \A i \in 0..Len(x) : Len(w) + i \in 0..Len(y) /\ e[Len(w) + i] = g[i]
    <2>1. ASSUME NEW i \in 0..Len(x)
          PROVE  Len(w) + i \in 0..Len(y) /\ e[Len(w) + i] = g[i]
      <3>1. Len(w) + i \in 0..Len(y) /\ (Len(w) + i) - Len(w) = i
        BY <1>0, <1>1
      <3>2. CASE i = 0
        <4>1. Len(w) + i = Len(w) /\ Len(w) \in 0..Len(w) /\ g[0] = m
          BY <1>0, <1>3, <3>2 DEF Tally
        <4>. QED
          BY <1>2, <1>6, <3>1, <3>2, <4>1
      <3>3. CASE i # 0
        <4>1. ~(Len(w) + i <= Len(w))
          BY <1>0, <3>3
        <4>. QED
          BY <1>6, <3>1, <4>1
      <3>. QED
        BY <3>2, <3>3
    <2>. QED
      BY <2>1
  <1>8. e[0] = h /\ e[Len(y)] = n
    <2>1. 0 \in 0..Len(w) /\ Len(x) \in 0..Len(x) /\ Len(w) + Len(x) = Len(y)
      BY <1>0, <1>1
    <2>2. f[0] = h /\ g[Len(x)] = n
      BY <1>2, <1>3 DEF Tally
    <2>. QED
      BY <1>6, <1>7, <2>1, <2>2
  <1>9. \A i \in 0..Len(y) : e[i] <= n
    <2>1. ASSUME NEW i \in 0..Len(y)
          PROVE  e[i] <= n
      <3>1. CASE i <= Len(w)
        <4>1. e[i] = f[i] /\ f[i] <= m /\ f[i] \in Nat
          BY <1>2, <1>5, <1>6, <3>1
        <4>. QED
          BY <1>4, <4>1
      <3>2. CASE ~(i <= Len(w))
        BY <1>3, <1>5, <1>6, <3>2
      <3>. QED
        BY <3>1, <3>2
    <2>. QED
      BY <2>1
  <1>10. ASSUME NEW i \in 1..Len(y)
         PROVE  /\ e[i] = IF y[i].tag = "end" THEN e[i - 1] + 1 ELSE e[i - 1]
                /\ y[i].tag = "rest" => y[i].stanza.no = e[i - 1] + 1
    <2>1. CASE i <= Len(w)
      <3>1. i \in 1..Len(w) /\ i \in 0..Len(w) /\ i - 1 \in 0..Len(w)
        BY <1>0, <1>1, <2>1
      <3>2. y[i] = w[i] /\ e[i] = f[i] /\ e[i - 1] = f[i - 1]
        BY <1>1, <1>6, <3>1
      <3>. QED
        BY <1>2, <3>1, <3>2 DEF Tally
    <2>2. CASE ~(i <= Len(w))
      <3>. DEFINE j == i - Len(w)
      <3>1. j \in 1..Len(x) /\ y[i] = x[j]
        BY <1>1, <2>2
      <3>2. Len(w) + j = i /\ Len(w) + (j - 1) = i - 1
        BY <1>0, <1>1
      <3>. HIDE DEF j
      <3>3. j \in 0..Len(x) /\ j - 1 \in 0..Len(x)
        BY <1>0, <3>1
      <3>4. e[i] = g[j] /\ e[i - 1] = g[j - 1]
        BY <1>7, <3>2, <3>3
      <3>. QED
        BY <1>3, <3>1, <3>4 DEF Tally
    <2>. QED
      BY <2>1, <2>2
  <1>. QED
    BY <1>6, <1>8, <1>9, <1>10 DEF Tallied, Tally
(* The count does not go down,                                              *)
LEMMA TallyGrows ==
  ASSUME NEW w \in Seq(Symbol), NEW h, NEW f, Tally(f, w, h), NEW i \in 0..Len(w)
  PROVE  h \in Nat /\ f[i] \in Nat /\ h <= f[i]
  <1>. DEFINE N == {k \in Nat : k <= Len(w) => h <= f[k]}
  <1>0. Len(w) \in Nat /\ h \in Nat /\ f \in [0..Len(w) -> Nat] /\ f[0] = h
    <2>1. Len(w) \in Nat /\ 0 \in 0..Len(w)
      OBVIOUS
    <2>. QED
      BY <2>1 DEF Tally
  <1>1. 0 \in N
    BY <1>0
  <1>2. ASSUME NEW k \in Nat, k \in N
        PROVE  k + 1 \in N
    <2>1. ASSUME k + 1 <= Len(w)
          PROVE  h <= f[k + 1]
      <3>1. k + 1 \in 1..Len(w) /\ (k + 1) - 1 = k /\ k \in 0..Len(w) /\ k + 1 \in 0..Len(w)
        BY <1>0, <2>1
      <3>2. f[k + 1] \in {f[k], f[k] + 1}
        BY <3>1 DEF Tally
      <3>3. h <= f[k] /\ f[k] \in Nat
        BY <1>0, <1>2, <3>1
      <3>. QED
        BY <1>0, <3>2, <3>3
    <2>. QED
      BY <2>1
  <1>3. Nat \subseteq N
    <2>. HIDE DEF N
    <2>. QED
      BY <1>1, <1>2, Induction
  <1>4. i \in Nat /\ i <= Len(w)
    BY <1>0
  <1>. QED
    BY <1>0, <1>3, <1>4

LEMMA TalliedTypes ==
  ASSUME NEW w \in Seq(Symbol), NEW h, NEW n, Tallied(w, h, n)
  PROVE  h \in Nat /\ n \in Nat /\ h <= n
  <1>1. PICK f \in [0..Len(w) -> Nat] :
               Tally(f, w, h) /\ f[Len(w)] = n /\ \A i \in 0..Len(w) : f[i] <= n
    BY DEF Tallied
  <1>2. Len(w) \in 0..Len(w)
    OBVIOUS
  <1>. QED
    BY <1>1, <1>2, TallyGrows

(* and a stanza on its way is one that has not been handled.                *)
LEMMA StanzaAhead ==
  ASSUME NEW w, Wired(w), NEW h, NEW n, Tallied(w, h, n),
         NEW i \in 1..Len(w), w[i].tag \in {"head", "rest", "end"}
  PROVE  h < n
  <1>0. w \in Seq(Symbol) /\ Len(w) \in Nat
    BY DEF Wired
  <1>1. PICK f \in [0..Len(w) -> Nat] :
               Tally(f, w, h) /\ f[Len(w)] = n /\ \A k \in 0..Len(w) : f[k] <= n
    BY DEF Tallied
  <1>2. ASSUME NEW k \in 1..Len(w), w[k].tag = "end"
        PROVE  h < n
    <2>1. k \in 0..Len(w) /\ k - 1 \in 0..Len(w) /\ Len(w) \in 0..Len(w)
      BY <1>0
    <2>2. f[k] = f[k - 1] + 1
      BY <1>1, <1>2 DEF Tally
    <2>3. h \in Nat /\ f[k - 1] \in Nat /\ h <= f[k - 1]
      BY <1>0, <1>1, <2>1, TallyGrows
    <2>4. f[k] <= n /\ n \in Nat
      BY <1>1, <2>1
    <2>. QED
      BY <2>2, <2>3, <2>4
  <1>3. ASSUME NEW k \in 1..Len(w), w[k].tag = "rest"
        PROVE  h < n
    <2>1. TagAt(w, k + 1) = "end"
      BY <1>3, NextTag
    <2>2. k + 1 \in 1..Len(w) /\ w[k + 1].tag = "end"
      BY <2>1 DEF TagAt
    <2>. QED
      BY <1>2, <2>2
  <1>4. ASSUME NEW k \in 1..Len(w), w[k].tag = "head"
        PROVE  h < n
    <2>1. TagAt(w, k + 1) = "rest"
      BY <1>4, NextTag
    <2>2. k + 1 \in 1..Len(w) /\ w[k + 1].tag = "rest"
      BY <2>1 DEF TagAt
    <2>. QED
      BY <1>3, <2>2
  <1>. QED
    BY <1>2, <1>3, <1>4

LEMMA NoStanzaAhead ==
  ASSUME NEW w, Wired(w), NEW h, Tallied(w, h, h)
  PROVE  /\ TagAt(w, 1) \in {"none", "open", "close"} /\ Carried(w) = {}
         /\ TagAt(w, 1) = "none" => w = <<>>
         /\ TagAt(w, 1) = "close" => TagAt(w, Len(w)) = "close"
  <1>0. w \in Seq(Symbol) /\ Len(w) \in Nat /\ h \in Nat
    <2>1. w \in Seq(Symbol) /\ Len(w) \in Nat
      BY DEF Wired
    <2>. QED
      BY <2>1, TalliedTypes
  <1>1. ASSUME NEW i \in 1..Len(w)
        PROVE  w[i].tag \in {"open", "close"}
    <2>0. w[i] \in Symbol
      BY <1>0
    <2>1. w[i].tag \in {"open", "head", "rest", "end", "close"}
      BY <2>0 DEF Symbol
    <2>2. w[i].tag \notin {"head", "rest", "end"}
      <3>1. ~(h < h)
        BY <1>0
      <3>. QED
        BY <3>1, StanzaAhead
    <2>. QED
      BY <2>1, <2>2
  <1>2. Carried(w) = {}
    BY <1>1 DEF Carried
  <1>3. TagAt(w, 1) \in {"none", "open", "close"}
    BY <1>1 DEF TagAt
  <1>4. TagAt(w, 1) = "none" => w = <<>>
    <2>1. ASSUME w # <<>> PROVE TagAt(w, 1) # "none"
      <3>1. 1 \in 1..Len(w)
        BY <1>0, <2>1
      <3>2. w[1].tag # "none"
        BY <1>1, <3>1
      <3>. QED
        BY <3>1, <3>2 DEF TagAt
    <2>. QED
      BY <2>1
  <1>5. ASSUME TagAt(w, 1) = "close"
        PROVE  TagAt(w, Len(w)) = "close"
    <2>1. 1 \in 1..Len(w) /\ w[1].tag = "close"
      BY <1>5 DEF TagAt
    <2>2. 1 = Len(w)
      BY <2>1, NextTag
    <2>. QED
      BY <1>5, <2>2
  <1>. QED
    BY <1>2, <1>3, <1>4, <1>5

(* Nothing on its way.                                                      *)
LEMMA NothingSent ==
  ASSUME NEW h, NEW n
  PROVE  /\ Wired(<<>>) /\ Carried(<<>>) = {} /\ \A k \in Nat : TagAt(<<>>, k) = "none"
         /\ Tallied(<<>>, h, n) => h = n /\ n \in Nat
         /\ h = n /\ n \in Nat => Tallied(<<>>, h, n)
  <1>0. Len(<<>>) = 0 /\ 1..0 = {} /\ 0..0 = {0} /\ <<>> \in Seq(Symbol)
    OBVIOUS
  <1>1. Wired(<<>>) /\ Carried(<<>>) = {} /\ \A k \in Nat : TagAt(<<>>, k) = "none"
    BY <1>0 DEF Wired, Carried, TagAt
  <1>2. ASSUME Tallied(<<>>, h, n)
        PROVE  h = n /\ n \in Nat
    BY <1>0, <1>2 DEF Tallied, Tally
  <1>3. ASSUME h = n, n \in Nat
        PROVE  Tallied(<<>>, h, n)
    <2>. DEFINE f == [i \in 0..0 |-> n]
    <2>1. f \in [0..0 -> Nat] /\ f[0] = n /\ \A i \in 0..0 : f[i] <= n
      BY <1>3
    <2>. HIDE DEF f
    <2>. QED
      BY <1>0, <1>3, <2>1 DEF Tallied, Tally
  <1>. QED
    BY <1>1, <1>2, <1>3

(* The tags of a stream,                                                    *)
LEMMA StreamTag ==
  ASSUME NEW y \in Symbol, y.tag \in {"open", "close"}, NEW w, w = <<y>>, NEW h \in Nat
  PROVE  /\ Wired(w) /\ Tallied(w, h, h) /\ Carried(w) = {} /\ w # <<>>
         /\ TagAt(w, 1) = y.tag /\ TagAt(w, Len(w)) = y.tag
  <1>0. /\ w \in Seq(Symbol) /\ Len(w) = 1 /\ w[1] = y /\ 1..1 = {1} /\ 0..1 = {0, 1}
        /\ w # <<>>
    OBVIOUS
  <1>1. Wired(w)
    <2>1. \A i \in 1..1, j \in 1..1 : j # i + 1
      OBVIOUS
    <2>. QED
      BY <1>0, <2>1 DEF Wired
  <1>2. Tallied(w, h, h)
    <2>. DEFINE f == [i \in 0..1 |-> h]
    <2>1. f \in [0..1 -> Nat] /\ \A i \in 0..1 : f[i] = h /\ f[i] <= h
      OBVIOUS
    <2>. HIDE DEF f
    <2>2. 1 - 1 = 0
      OBVIOUS
    <2>. QED
      BY <1>0, <2>1, <2>2 DEF Tallied, Tally
  <1>. QED
    BY <1>0, <1>1, <1>2 DEF Carried, TagAt

(* and a stanza.                                                            *)
LEMMA StanzaText ==
  ASSUME NEW s \in Stanza, NEW h \in Nat, s.no = h + 1, NEW w, w = Text(s)
  PROVE  /\ Wired(w) /\ Tallied(w, h, h + 1) /\ Carried(w) = {s} /\ w # <<>>
         /\ TagAt(w, 1) = "head" /\ TagAt(w, Len(w)) = "end"
  <1>0. /\ w \in Seq(Symbol) /\ Len(w) = 3 /\ w # <<>>
        /\ w[1] = [tag |-> "head", stanza |-> s] /\ w[2] = [tag |-> "rest", stanza |-> s]
        /\ w[3] = [tag |-> "end", stanza |-> s]
    BY DEF Text, Symbol
  <1>a. 1..3 = {1, 2, 3} /\ 0..3 = {0, 1, 2, 3} /\ 1 - 1 = 0 /\ 2 - 1 = 1 /\ 3 - 1 = 2
    OBVIOUS
  <1>1. Wired(w)
    <2>1. ASSUME NEW i \in 1..Len(w), NEW j \in 1..Len(w), j = i + 1
          PROVE  TagFollows(w[i].tag, w[j].tag)
      <3>1. (i = 1 /\ j = 2) \/ (i = 2 /\ j = 3)
        BY <1>0, <2>1
      <3>. QED
        BY <1>0, <3>1 DEF TagFollows
    <2>2. \A i \in 1..Len(w) : w[i].stanza = s
      BY <1>0, <1>a
    <2>. QED
      BY <1>0, <2>1, <2>2 DEF Wired
  <1>2. Tallied(w, h, h + 1)
    <2>. DEFINE f == [i \in 0..3 |-> IF i = 3 THEN h + 1 ELSE h]
    <2>1. /\ f \in [0..3 -> Nat] /\ \A i \in 0..3 : f[i] <= h + 1
          /\ f[0] = h /\ f[1] = h /\ f[2] = h /\ f[3] = h + 1
      OBVIOUS
    <2>. HIDE DEF f
    <2>2. \A i \in 1..Len(w) : i = 1 \/ i = 2 \/ i = 3
      BY <1>0
    <2>3. Tally(f, w, h)
      BY <1>0, <1>a, <2>1, <2>2 DEF Tally
    <2>. QED
      BY <1>0, <2>1, <2>3 DEF Tallied
  <1>3. Carried(w) = {s}
    <2>1. \A i \in 1..Len(w) : w[i].stanza = s
      BY <1>0, <1>a
    <2>2. 1 \in 1..Len(w) /\ w[1].tag \in {"head", "rest", "end"}
      BY <1>0, <1>a
    <2>. QED
      BY <2>1, <2>2 DEF Carried
  <1>. QED
    BY <1>0, <1>a, <1>1, <1>2, <1>3 DEF TagAt

-----------------------------------------------------------------------------
(* The invariant.                                                           *)

ClientState == [headers : 0..2, sent : Nat, end : {"no", "close", "eof", "reset"}]
JobState == [at : {"idle", "act", "check", "look", "create", "put", "last", "listing"},
             kind : MessageKind, name : Name, seen : SUBSET Name]
SaslState == [mech : {"none", "plain", "digest"}, progress : BOOLEAN,
              complete : BOOLEAN, state : 0..2, failures : 0..2]
DataState == [jid : BOOLEAN, resource : Name \cup {None}, closing : BOOLEAN,
              active : BOOLEAN, sasl : SaslState]
Message == [kind : MessageKind]

InputFunctions ==
  /\ client \in [Conn -> ClientState] /\ net \in [Conn -> Seq(Symbol)]
  /\ parser \in [Conn -> Parser] /\ queue \in [Conn -> Seq(Message)]
  /\ handled \in [Conn -> Seq(Nat)] /\ job \in [Conn -> JobState]
  /\ data \in [Conn -> DataState] /\ offered \in [Conn -> {"none", "auth", "bind"}]
  /\ split \in [Conn -> BOOLEAN]

TableFunctions ==
  /\ socket \in [Conn -> {"none", "open", "closed"}]
  /\ conns \in [Conn -> {"absent", "unnamed", "named"}]
  /\ DOMAIN resources \subseteq User
  /\ \A u \in DOMAIN resources :
       /\ DOMAIN resources[u] \subseteq Name
       /\ \A n \in DOMAIN resources[u] : resources[u][n] \in Conn
  /\ generated \in Name
  /\ halted \subseteq Conn /\ raced \subseteq User

IInv == InputFunctions /\ TableFunctions /\ \A c \in Conn : InputInv(c)

(* The connection d is as before.                                           *)
SameAt(d) ==
  /\ client'[d] = client[d] /\ net'[d] = net[d] /\ parser'[d] = parser[d]
  /\ queue'[d] = queue[d] /\ handled'[d] = handled[d] /\ job'[d] = job[d]
  /\ data'[d] = data[d] /\ offered'[d] = offered[d] /\ split'[d] = split[d]

OnlyAt(c) == \A d \in Conn \ {c} : SameAt(d)

LEMMA SameInput ==
  ASSUME NEW d, InputInv(d), SameAt(d)
  PROVE  InputInv(d)'
  <1>1. InputTyped(d)'
    BY DEF InputInv, SameAt, InputTyped
  <1>2. InputFollowed(d)'
    BY DEF InputInv, SameAt, InputFollowed
  <1>3. OneAtATime(d)'
    BY DEF InputInv, SameAt, OneAtATime, OwnResource, Busy
  <1>4. Authenticating(d)'
    <2>1. Flying(d)' = Flying(d)
      BY DEF SameAt, Flying
    <2>2. queue'[d] = queue[d] /\ job'[d] = job[d] /\ data'[d] = data[d]
      BY DEF SameAt
    <2>3. Waiting(d)' = Waiting(d)
      BY <2>1, <2>2 DEF Waiting
    <2>. QED
      BY <2>2, <2>3 DEF InputInv, Authenticating
  <1>5. Headed(d)'
    BY DEF InputInv, SameAt, Headed, HeaderDue, Busy
  <1>6. Restarted(d)'
    BY DEF InputInv, SameAt, Restarted, HeaderDue
  <1>7. Ended(d)'
    BY DEF InputInv, SameAt, Ended, Busy
  <1>. QED
    BY <1>1, <1>2, <1>3, <1>4, <1>5, <1>6, <1>7 DEF InputInv

(* Kinds of messages do not mix.                                            *)
LEMMA KindsDistinct ==
  /\ "init" \notin Kind /\ "reinit" \notin Kind /\ "end" \notin Kind
  /\ "ask" \in Kind /\ AuthKind \subseteq Kind /\ {"presence", "bind", "rebind"} \subseteq Kind
  BY DEF Kind, SaslKind, IqAuthKind, BindKind, AuthKind

(* No request is added to those that wait.                                  *)
LEMMA StillAuthenticating ==
  ASSUME NEW c \in Conn, Authenticating(c),
         Waiting(c)' \subseteq Waiting(c) \cup {"init", "reinit", "end"},
         data'[c].jid = data[c].jid, data'[c].sasl.complete = data[c].sasl.complete,
         data'[c].resource = data[c].resource \/ "bind" \notin Waiting(c)
  PROVE  Authenticating(c)'
  <1>1. Waiting(c)' \cap Kind \subseteq Waiting(c) \cap Kind
    BY KindsDistinct
  <1>2. /\ AuthKind \subseteq Kind /\ {"ask", "presence", "bind", "rebind"} \subseteq Kind
    BY KindsDistinct
  <1>3. \A k \in Kind : k \in Waiting(c)' => k \in Waiting(c)
    BY <1>1
  <1>4. data[c].jid => Waiting(c)' \cap AuthKind = {}
    BY <1>2, <1>3 DEF Authenticating
  <1>5. ~data[c].jid => Waiting(c)' \cap {"ask", "presence", "bind", "rebind"} = {}
    BY <1>2, <1>3 DEF Authenticating
  <1>6. data'[c].resource # None => "bind" \notin Waiting(c)'
    BY <1>2, <1>3 DEF Authenticating
  <1>7. Waiting(c)' \cap Kind \subseteq Kinds[c]
    BY <1>1 DEF Authenticating
  <1>. QED
    BY <1>4, <1>5, <1>6, <1>7 DEF Authenticating

LEMMA StepAt ==
  ASSUME IInv, NEW c \in Conn, InputFunctions', TableFunctions', OnlyAt(c), InputInv(c)'
  PROVE  IInv'
  <1>1. ASSUME NEW d \in Conn
        PROVE  InputInv(d)'
    <2>1. CASE d = c
      BY <2>1
    <2>2. CASE d # c
      BY <2>2, SameInput DEF IInv, OnlyAt
    <2>. QED
      BY <2>1, <2>2
  <1>. QED
    BY <1>1 DEF IInv

(* The types at a connection.                                               *)
LEMMA TypesAt ==
  ASSUME InputFunctions, NEW c \in Conn
  PROVE  /\ client[c] \in ClientState /\ net[c] \in Seq(Symbol) /\ parser[c] \in Parser
         /\ queue[c] \in Seq(Message) /\ handled[c] \in Seq(Nat) /\ job[c] \in JobState
         /\ data[c] \in DataState /\ offered[c] \in {"none", "auth", "bind"}
         /\ split[c] \in BOOLEAN
         /\ client[c].headers \in 0..2 /\ client[c].sent \in Nat
         /\ client[c].end \in {"no", "close", "eof", "reset"}
         /\ Len(handled[c]) \in Nat /\ Len(queue[c]) \in Nat
         /\ job[c].kind \in MessageKind
         /\ data[c].jid \in BOOLEAN /\ data[c].closing \in BOOLEAN
         /\ data[c].sasl \in SaslState /\ data[c].sasl.complete \in BOOLEAN
  <1>1. /\ client[c] \in ClientState /\ net[c] \in Seq(Symbol) /\ parser[c] \in Parser
        /\ queue[c] \in Seq(Message) /\ handled[c] \in Seq(Nat) /\ job[c] \in JobState
        /\ data[c] \in DataState /\ offered[c] \in {"none", "auth", "bind"}
        /\ split[c] \in BOOLEAN
    BY DEF InputFunctions
  <1>2. Len(handled[c]) \in Nat /\ Len(queue[c]) \in Nat
    BY <1>1
  <1>3. /\ client[c].headers \in 0..2 /\ client[c].sent \in Nat
        /\ client[c].end \in {"no", "close", "eof", "reset"}
    BY <1>1 DEF ClientState
  <1>4. job[c].kind \in MessageKind
    BY <1>1 DEF JobState
  <1>5. /\ data[c].jid \in BOOLEAN /\ data[c].closing \in BOOLEAN /\ data[c].sasl \in SaslState
    BY <1>1 DEF DataState
  <1>6. data[c].sasl.complete \in BOOLEAN
    BY <1>5 DEF SaslState
  <1>. QED
    BY <1>1, <1>2, <1>3, <1>4, <1>5, <1>6

-----------------------------------------------------------------------------
(* Initially.                                                               *)

LEMMA NewParserFresh ==
  /\ NewParser \in Parser /\ Fresh(NewParser) /\ ~NewParser.over /\ ~NewParser.quirk
  /\ NewParser.events = <<>> /\ ~NewParser.dead
  BY DEF NewParser, Parser, Fresh, Alive

LEMMA InitIInv == Init => IInv
  <1>. SUFFICES ASSUME Init
                PROVE  IInv
    OBVIOUS
  <1>1. InputFunctions
    <2>1. client \in [Conn -> ClientState]
      BY DEF Init, ClientState
    <2>2. job \in [Conn -> JobState]
      BY DEF Init, JobState, Idle, Name, MessageKind, Kind
    <2>3. data \in [Conn -> DataState]
      BY DEF Init, DataState, SaslState, NoSasl
    <2>4. /\ net \in [Conn -> Seq(Symbol)] /\ queue \in [Conn -> Seq(Message)]
          /\ handled \in [Conn -> Seq(Nat)]
      BY DEF Init
    <2>5. parser \in [Conn -> Parser]
      BY NewParserFresh DEF Init
    <2>6. offered \in [Conn -> {"none", "auth", "bind"}] /\ split \in [Conn -> BOOLEAN]
      BY DEF Init
    <2>. QED
      BY <2>1, <2>2, <2>3, <2>4, <2>5, <2>6 DEF InputFunctions
  <1>2. TableFunctions
    BY DEF Init, TableFunctions, Name
  <1>3. ASSUME NEW c \in Conn
        PROVE  InputInv(c)
    <2>1. /\ client[c].headers = 0 /\ client[c].sent = 0 /\ client[c].end = "no"
          /\ net[c] = <<>> /\ queue[c] = <<>> /\ handled[c] = <<>> /\ parser[c] = NewParser
          /\ job[c].at = "idle" /\ ~data[c].jid /\ data[c].resource = None
          /\ ~data[c].closing /\ ~data[c].sasl.complete /\ ~split[c]
      BY DEF Init, Idle, NoSasl
    <2>2. /\ Len(queue[c]) = 0 /\ Len(handled[c]) = 0 /\ Len(net[c]) = 0
          /\ 1..Len(queue[c]) = {} /\ 1..Len(handled[c]) = {}
      BY <2>1
    <2>3. /\ Wired(net[c]) /\ Carried(net[c]) = {} /\ TagAt(net[c], 1) = "none"
          /\ TagAt(net[c], Len(net[c])) = "none" /\ Tallied(net[c], 0, 0)
      <3>1. 0 \in Nat /\ 1 \in Nat
        OBVIOUS
      <3>. QED
        BY <2>1, <2>2, <3>1, NothingSent
    <2>4. InputTyped(c)
      BY <2>1, <2>2, <2>3, NewParserFresh DEF InputTyped
    <2>5. InputFollowed(c)
      <3>1. Expects(parser[c], TagAt(net[c], 1), 0)
        BY <2>1, <2>3, NewParserFresh DEF Expects
      <3>. QED
        BY <2>1, <2>2, <2>3, <3>1 DEF InputFollowed
    <2>6. OneAtATime(c)
      BY <2>1, <2>2 DEF OneAtATime, Busy
    <2>7. Waiting(c) = {}
      <3>1. parser[c].depth # 2
        BY <2>1, NewParserFresh DEF Fresh
      <3>2. Flying(c) = {}
        BY <2>3, <3>1 DEF Flying, Upcoming
      <3>. QED
        BY <2>1, <2>2, <3>2 DEF Waiting
    <2>8. Authenticating(c)
      BY <2>1, <2>7 DEF Authenticating
    <2>9. Headed(c)
      BY <2>1, <2>2, <2>3, NewParserFresh DEF Headed, Busy
    <2>10. Restarted(c)
      BY <2>1, <2>2 DEF Restarted
    <2>11. Ended(c)
      BY <2>1, <2>2, NewParserFresh DEF Ended, Busy
    <2>. QED
      BY <2>4, <2>5, <2>6, <2>8, <2>9, <2>10, <2>11 DEF InputInv
  <1>. QED
    BY <1>1, <1>2, <1>3 DEF IInv

-----------------------------------------------------------------------------
(* The client.                                                              *)

LEMMA AcceptKeeps ==
  ASSUME IInv, NEW c \in Conn, Accept(c)
  PROVE  IInv'
  <1>1. UNCHANGED <<client, net, parser, queue, job, data, resources, history, generated, raced>>
    BY DEF Accept
  <1>2. InputFunctions'
    BY <1>1 DEF IInv, InputFunctions, history
  <1>3. TableFunctions'
    BY <1>1 DEF IInv, TableFunctions, Accept, history
  <1>4. \A d \in Conn : SameAt(d)
    BY <1>1 DEF SameAt, history
  <1>5. InputInv(c)'
    BY <1>4, SameInput DEF IInv
  <1>. QED
    BY <1>2, <1>3, <1>4, <1>5, StepAt DEF OnlyAt

LEMMA ReadErrorKeeps ==
  ASSUME IInv, NEW c \in Conn, ReadError(c)
  PROVE  IInv'
  <1>1. UNCHANGED <<client, net, parser, queue, job, data, tables, history, raced>>
    BY DEF ReadError
  <1>2. InputFunctions'
    BY <1>1 DEF IInv, InputFunctions, history
  <1>3. TableFunctions'
    BY <1>1 DEF IInv, TableFunctions, ReadError, tables, history
  <1>4. \A d \in Conn : SameAt(d)
    BY <1>1 DEF SameAt, history
  <1>5. InputInv(c)'
    BY <1>4, SameInput DEF IInv
  <1>. QED
    BY <1>2, <1>3, <1>4, <1>5, StepAt DEF OnlyAt

(* When the answers have come nothing is on its way.                        *)
LEMMA AnsweredInput ==
  ASSUME IInv, NEW c \in Conn, Answered(c), client[c].end = "no"
  PROVE  /\ net[c] = <<>> /\ 1..Len(queue[c]) = {} /\ ~Busy(c) /\ job[c].at = "idle"
         /\ client[c].sent = Len(handled[c]) /\ ~split[c]
         /\ Expects(parser[c], "none", client[c].sent)
  <1>1. InputInv(c) /\ InputFunctions
    BY DEF IInv
  <1>2. net[c] = <<>> /\ queue[c] = <<>> /\ job[c].at = "idle" /\ Len(handled[c]) = client[c].sent
    BY DEF Answered
  <1>3. TagAt(net[c], 1) = "none" /\ client[c].sent \in Nat
    <2>1. 1 \in Nat
      OBVIOUS
    <2>. QED
      BY <1>1, <1>2, <2>1, NothingSent, TypesAt
  <1>4. ~split[c] /\ Expects(parser[c], "none", client[c].sent)
    BY <1>1, <1>2, <1>3 DEF InputInv, InputFollowed
  <1>. QED
    BY <1>2, <1>4 DEF Busy

LEMMA SendHeaderKeeps ==
  ASSUME IInv, NEW c \in Conn, SendHeader(c)
  PROVE  IInv'
  <1>0. InputInv(c) /\ InputFunctions /\ TableFunctions
    BY DEF IInv
  <1>1. /\ client' = [client EXCEPT ![c].headers = @ + 1]
        /\ net' = [net EXCEPT ![c] = @ \o OpenTag]
        /\ UNCHANGED <<socket, parser, queue, job, data, tables, history, raced>>
        /\ Answered(c) /\ HeaderDue(c) /\ client[c].end = "no"
    BY DEF SendHeader, Connected
  <1>2. /\ parser' = parser /\ queue' = queue /\ job' = job /\ data' = data
        /\ handled' = handled /\ offered' = offered /\ split' = split /\ tables' = tables
        /\ socket' = socket /\ halted' = halted /\ raced' = raced
    BY <1>1 DEF history
  <1>. DEFINE cl == client[c]
              w == net[c]
              x == net'[c]
              h == Len(handled[c])
  <1>3. /\ w = <<>> /\ 1..Len(queue[c]) = {} /\ ~Busy(c) /\ job[c].at = "idle"
        /\ cl.sent = h /\ ~split[c]
    BY <1>1, AnsweredInput
  <1>4. /\ cl.sent \in Nat /\ cl.headers \in 0..2 /\ h \in Nat /\ data[c].jid \in BOOLEAN
        /\ cl \in ClientState /\ parser[c] \in Parser
        /\ net[c] \in Seq(Symbol)
    BY <1>0, TypesAt
  <1>5. /\ x = OpenTag /\ client'[c] = [cl EXCEPT !.headers = cl.headers + 1]
    <2>1. OpenTag \in Seq(Symbol) /\ <<>> \o OpenTag = OpenTag
      BY DEF OpenTag, Symbol
    <2>2. x = w \o OpenTag /\ client'[c] = [cl EXCEPT !.headers = cl.headers + 1]
      BY <1>0, <1>1 DEF InputFunctions
    <2>. QED
      BY <1>3, <2>1, <2>2
  <1>6. /\ client'[c].headers = cl.headers + 1 /\ client'[c].sent = cl.sent
        /\ client'[c].end = "no"
    BY <1>1, <1>4, <1>5 DEF ClientState
  <1>7. /\ Wired(x) /\ Tallied(x, h, h) /\ Carried(x) = {} /\ x # <<>>
        /\ TagAt(x, 1) = "open" /\ TagAt(x, Len(x)) = "open"
    <2>. DEFINE y == [tag |-> "open", stanza |-> None]
    <2>1. y \in Symbol /\ x = <<y>> /\ y.tag = "open"
      BY <1>5 DEF OpenTag, Symbol
    <2>. HIDE DEF y, x, h
    <2>. QED
      BY <1>4, <2>1, StreamTag
  <1>8. /\ Fresh(parser[c]) /\ ~parser[c].dead /\ parser[c].depth = 0
    BY <1>0, <1>1 DEF InputInv, Headed, Fresh, Alive
  <1>9. \/ cl.headers = 0 /\ cl.sent = 0 /\ ~data[c].jid /\ ~data[c].sasl.complete
        \/ cl.headers = 1 /\ data[c].jid /\ data[c].sasl.complete /\ parser[c].stream
    <2>1. CASE cl.headers = 0
      <3>1. cl.sent = 0 /\ ~data[c].jid
        BY <1>0, <2>1 DEF InputInv, Headed
      <3>. QED
        BY <1>0, <2>1, <3>1 DEF InputInv, Authenticating
    <2>2. CASE cl.headers # 0
      <3>1. cl.headers = 1 /\ data[c].sasl.complete
        BY <1>1, <2>2 DEF HeaderDue
      <3>. QED
        BY <1>0, <1>1, <3>1 DEF InputInv, Authenticating, Restarted
    <2>. QED
      BY <2>1, <2>2
  <1>10. ~HeaderDue(c)'
    BY <1>2, <1>4, <1>6, <1>9 DEF HeaderDue
  <1>. HIDE DEF cl, w, x, h
  <1>11. InputTyped(c)'
    BY <1>0, <1>2, <1>6, <1>7 DEF InputInv, InputTyped, x
  <1>12. InputFollowed(c)'
    <2>1. Expects(parser[c], "open", h)
      BY <1>8 DEF Expects
    <2>. QED
      BY <1>2, <1>3, <1>4, <1>6, <1>7, <2>1 DEF InputFollowed, x, h
  <1>13. OneAtATime(c)'
    BY <1>0, <1>2, <1>6 DEF InputInv, OneAtATime, OwnResource, Busy, cl
  <1>14. Authenticating(c)'
    <2>1. Flying(c)' = {}
      BY <1>2, <1>7, <1>8 DEF Flying, Upcoming, x
    <2>2. Waiting(c)' \subseteq Waiting(c)
      BY <1>2, <2>1 DEF Waiting
    <2>. QED
      BY <1>0, <1>2, <2>2 DEF InputInv, Authenticating
  <1>15. Headed(c)'
    <2>1. client'[c].headers # 0 /\ (client'[c].headers = 1 \/ client'[c].headers = 2)
      BY <1>4, <1>6, <1>9
    <2>2. \/ client'[c].headers = 1 /\ client'[c].sent = 0
          \/ client'[c].headers = 2 /\ data[c].jid /\ parser[c].stream
      BY <1>6, <1>9
    <2>. QED
      BY <1>0, <1>2, <1>3, <1>6, <1>7, <1>10, <2>1, <2>2
         DEF InputInv, Headed, Busy, x, cl
  <1>16. Restarted(c)'
    <2>1. client'[c].headers = 2 => data[c].sasl.complete /\ parser[c].stream
      BY <1>6, <1>9
    <2>. QED
      BY <1>2, <1>3, <1>7, <1>10, <2>1 DEF Restarted, x
  <1>17. Ended(c)'
    <2>1. ~data[c].closing /\ (parser[c].dead => data[c].jid)
      BY <1>0, <1>1 DEF InputInv, Ended
    <2>. QED
      BY <1>1, <1>2, <1>3, <1>6, <2>1 DEF Ended, Busy
  <1>18. InputInv(c)'
    BY <1>11, <1>12, <1>13, <1>14, <1>15, <1>16, <1>17 DEF InputInv
  <1>19. InputFunctions'
    <2>1. client' \in [Conn -> ClientState]
      <3>1. client'[c] \in ClientState
        <4>1. cl.headers + 1 \in 0..2
          BY <1>4, <1>9
        <4>. QED
          BY <1>4, <1>5, <4>1 DEF ClientState
      <3>. QED
        BY <1>0, <1>1, <3>1 DEF InputFunctions
    <2>2. net' \in [Conn -> Seq(Symbol)]
      <3>1. net'[c] \in Seq(Symbol)
        BY <1>7 DEF Wired, x
      <3>. QED
        BY <1>0, <1>1, <3>1 DEF InputFunctions
    <2>. QED
      BY <1>0, <1>2, <2>1, <2>2 DEF InputFunctions
  <1>20. TableFunctions'
    BY <1>0, <1>2 DEF TableFunctions, tables
  <1>21. OnlyAt(c)
    BY <1>0, <1>1, <1>2 DEF OnlyAt, SameAt, InputFunctions
  <1>. QED
    BY <1>18, <1>19, <1>20, <1>21, StepAt
LEMMA SendCloseKeeps ==
  ASSUME IInv, NEW c \in Conn, SendClose(c)
  PROVE  IInv'
  <1>0. InputInv(c) /\ InputFunctions /\ TableFunctions
    BY DEF IInv
  <1>1. /\ client' = [client EXCEPT ![c].end = "close"]
        /\ net' = [net EXCEPT ![c] = @ \o CloseTag]
        /\ client[c].headers > 0 /\ client[c].end = "no"
    BY DEF SendClose, Connected
  <1>2. /\ parser' = parser /\ queue' = queue /\ job' = job /\ data' = data
        /\ handled' = handled /\ offered' = offered /\ split' = split /\ tables' = tables
        /\ socket' = socket /\ halted' = halted /\ raced' = raced
    BY DEF SendClose, history
  <1>. DEFINE cl == client[c]
              w == net[c]
              x == net'[c]
              h == Len(handled[c])
              y == [tag |-> "close", stanza |-> None]
              t == <<y>>
  <1>4. /\ cl.sent \in Nat /\ cl.headers \in 0..2 /\ h \in Nat /\ data[c].jid \in BOOLEAN
        /\ cl \in ClientState /\ parser[c] \in Parser
        /\ net[c] \in Seq(Symbol)
    BY <1>0, TypesAt
  <1>5. x = w \o t /\ client'[c] = [cl EXCEPT !.end = "close"]
    <2>1. CloseTag = t
      BY DEF CloseTag
    <2>. HIDE DEF t
    <2>. QED
      BY <1>0, <1>1, <2>1 DEF InputFunctions
  <1>6. /\ client'[c].headers = cl.headers /\ client'[c].sent = cl.sent
        /\ client'[c].end = "close" /\ client'[c] \in ClientState
    BY <1>4, <1>5 DEF ClientState
  <1>a. /\ Wired(w) /\ TagAt(w, Len(w)) # "close"
        /\ w # <<>> => TagAt(w, Len(w)) \in {"open", "end"}
    <2>1. Wired(w) /\ TagAt(w, Len(w)) # "close"
      BY <1>0, <1>1 DEF InputInv, InputTyped
    <2>. HIDE DEF w
    <2>2. ASSUME w # <<>>
          PROVE  TagAt(w, Len(w)) = w[Len(w)].tag /\ w[Len(w)].tag \in {"open", "end", "close"}
      <3>1. Len(w) \in 1..Len(w)
        BY <1>4, <2>2 DEF w
      <3>. QED
        BY <2>1, <2>2, <3>1 DEF Wired, TagAt
    <2>. QED
      BY <2>1, <2>2
  <1>b. y \in Symbol /\ y.tag = "close"
    BY DEF Symbol
  <1>c. ASSUME NEW k \in Nat
        PROVE  /\ Wired(t) /\ Tallied(t, k, k) /\ Carried(t) = {} /\ t # <<>>
               /\ TagAt(t, 1) = "close" /\ TagAt(t, Len(t)) = "close"
    <2>. HIDE DEF y
    <2>. QED
      BY <1>b, StreamTag
  <1>. HIDE DEF t, y
  <1>7. /\ Wired(x) /\ x # <<>> /\ Carried(x) = Carried(w) \cup {}
        /\ TagAt(x, 1) = IF w = <<>> THEN "close" ELSE TagAt(w, 1)
        /\ TagAt(x, Len(x)) = "close"
    <2>. HIDE DEF x, w
    <2>1. /\ Wired(t) /\ Carried(t) = {} /\ t # <<>>
          /\ TagAt(t, 1) = "close" /\ TagAt(t, Len(t)) = "close"
      <3>1. 0 \in Nat
        OBVIOUS
      <3>. QED
        BY <1>c, <3>1
    <2>2. w = <<>> \/ TagFollows(TagAt(w, Len(w)), TagAt(t, 1))
      BY <1>a, <2>1 DEF TagFollows
    <2>3. /\ Wired(x) /\ x # <<>> /\ Carried(x) = Carried(w) \cup Carried(t)
          /\ TagAt(x, 1) = IF w = <<>> THEN TagAt(t, 1) ELSE TagAt(w, 1)
          /\ TagAt(x, Len(x)) = TagAt(t, Len(t))
      <3>1. Wired(w) /\ Wired(t) /\ t # <<>> /\ x = w \o t
        BY <1>5, <1>a, <2>1
      <3>2. Wired(x) /\ Extends(x, w, t)
        BY ONLY <2>2, <3>1, WiredConcat
      <3>. QED
        BY <3>2 DEF Extends
    <2>. QED
      BY <2>1, <2>3
  <1>d. ASSUME NEW k, NEW n, Tallied(w, k, n)
        PROVE  Tallied(x, k, n)
    <2>1. n \in Nat
      BY <1>4, <1>d, TalliedTypes
    <2>. HIDE DEF x, w
    <2>2. t \in Seq(Symbol) /\ w \in Seq(Symbol)
      BY <1>a, <1>c, <2>1 DEF Wired
    <2>. QED
      BY <1>5, <1>c, <1>d, <2>1, <2>2, TalliedConcat
  <1>e. w = <<>> => TagAt(w, 1) = "none"
    <2>1. 1 \in Nat
      OBVIOUS
    <2>. QED
      BY <2>1, NothingSent
  <1>. HIDE DEF cl, w, x, h
  <1>11. InputTyped(c)'
    BY <1>0, <1>2, <1>6, <1>7 DEF InputInv, InputTyped, x
  <1>12. InputFollowed(c)'
    <2>1. ASSUME Expects(parser[c], TagAt(w, 1), h)
          PROVE  Expects(parser[c], TagAt(x, 1), h)
      BY <1>7, <1>e, <2>1 DEF Expects, Follows
    <2>2. ASSUME Lost(parser[c], TagAt(w, 1))
          PROVE  Lost(parser[c], TagAt(x, 1))
      BY <1>7, <1>e, <2>2 DEF Lost
    <2>3. /\ h <= cl.sent
          /\ \/ ~split[c] /\ Tallied(w, h, cl.sent) /\ Expects(parser[c], TagAt(w, 1), h)
             \/ split[c] /\ h < cl.sent /\ Lost(parser[c], TagAt(w, 1))
      BY <1>0, <1>1 DEF InputInv, InputFollowed, h, w, cl
    <2>. QED
      BY <1>2, <1>6, <1>d, <2>1, <2>2, <2>3 DEF InputFollowed, x, h
  <1>13. OneAtATime(c)'
    BY <1>0, <1>2, <1>6 DEF InputInv, OneAtATime, OwnResource, Busy, cl
  <1>14. Authenticating(c)'
    <2>1. Flying(c)' = Flying(c)
      BY <1>1, <1>2, <1>6, <1>7 DEF Flying, Upcoming, x, w
    <2>2. Waiting(c)' = Waiting(c)
      BY <1>2, <2>1 DEF Waiting
    <2>. QED
      BY <1>0, <1>2, <2>2 DEF InputInv, Authenticating
  <1>15. Headed(c)'
    <2>1. TagAt(x, 1) = "open" <=> TagAt(w, 1) = "open"
      BY <1>7, <1>e
    <2>2. cl.headers # 0
      BY <1>1, <1>4 DEF cl
    <2>3. Headed(c)
      BY <1>0 DEF InputInv
    <2>4. Fresh(parser[c]) => data[c].jid \/ TagAt(x, 1) = "open"
      BY <1>1, <2>1, <2>2, <2>3 DEF Headed, cl, w
    <2>. QED
      BY <1>1, <1>2, <1>6, <2>1, <2>2, <2>3, <2>4 DEF Headed, Busy, x, w, cl
  <1>16. Restarted(c)'
    <2>1. TagAt(x, 1) = "open" <=> TagAt(w, 1) = "open"
      BY <1>7, <1>e
    <2>. QED
      BY <1>0, <1>1, <1>2, <1>6, <2>1 DEF InputInv, Restarted, x, w, cl
  <1>17. Ended(c)'
    <2>1. Ended(c) /\ client[c].end = "no"
      BY <1>0, <1>1 DEF InputInv
    <2>. QED
      BY <1>2, <1>6, <1>7, <2>1 DEF Ended, Busy, x
  <1>18. InputInv(c)'
    BY <1>11, <1>12, <1>13, <1>14, <1>15, <1>16, <1>17 DEF InputInv
  <1>19. InputFunctions'
    <2>1. client' \in [Conn -> ClientState]
      BY <1>0, <1>1, <1>6 DEF InputFunctions
    <2>2. net' \in [Conn -> Seq(Symbol)]
      <3>1. net'[c] \in Seq(Symbol)
        BY <1>7 DEF Wired, x
      <3>. QED
        BY <1>0, <1>1, <3>1 DEF InputFunctions
    <2>. QED
      BY <1>0, <1>2, <2>1, <2>2 DEF InputFunctions
  <1>20. TableFunctions'
    BY <1>0, <1>2 DEF TableFunctions, tables
  <1>21. OnlyAt(c)
    BY <1>0, <1>1, <1>2 DEF OnlyAt, SameAt, InputFunctions
  <1>. QED
    BY <1>18, <1>19, <1>20, <1>21, StepAt

LEMMA LeaveKeeps ==
  ASSUME IInv, NEW c \in Conn, Leave(c)
  PROVE  IInv'
  <1>0. InputInv(c) /\ InputFunctions /\ TableFunctions
    BY DEF IInv
  <1>1. client' = [client EXCEPT ![c].end = "eof"] /\ client[c].end \in {"no", "close"}
    BY DEF Leave
  <1>2. /\ parser' = parser /\ queue' = queue /\ job' = job /\ data' = data /\ net' = net
        /\ handled' = handled /\ offered' = offered /\ split' = split /\ tables' = tables
        /\ socket' = socket /\ halted' = halted /\ raced' = raced
    BY DEF Leave, history
  <1>3. /\ client'[c].headers = client[c].headers /\ client'[c].sent = client[c].sent
        /\ client'[c].end = "eof" /\ client'[c] \in ClientState
    <2>1. client[c] \in ClientState /\ client'[c] = [client[c] EXCEPT !.end = "eof"]
      BY <1>0, <1>1 DEF InputFunctions
    <2>. QED
      BY <2>1 DEF ClientState
  <1>11. InputTyped(c)'
    BY <1>0, <1>2, <1>3 DEF InputInv, InputTyped
  <1>12. InputFollowed(c)'
    BY <1>0, <1>1, <1>2, <1>3 DEF InputInv, InputFollowed
  <1>13. OneAtATime(c)'
    BY <1>0, <1>2, <1>3 DEF InputInv, OneAtATime, OwnResource, Busy
  <1>14. Authenticating(c)'
    <2>1. Flying(c)' = Flying(c)
      BY <1>1, <1>2, <1>3 DEF Flying
    <2>2. Waiting(c)' = Waiting(c)
      BY <1>2, <2>1 DEF Waiting
    <2>. QED
      BY <1>0, <1>2, <2>2 DEF InputInv, Authenticating
  <1>15. Headed(c)'
    BY <1>0, <1>1, <1>2, <1>3 DEF InputInv, Headed, Busy
  <1>16. Restarted(c)'
    BY <1>0, <1>1, <1>2, <1>3 DEF InputInv, Restarted
  <1>17. Ended(c)'
    BY <1>0, <1>1, <1>2, <1>3 DEF InputInv, Ended, Busy
  <1>18. InputInv(c)'
    BY <1>11, <1>12, <1>13, <1>14, <1>15, <1>16, <1>17 DEF InputInv
  <1>19. InputFunctions'
    BY <1>0, <1>1, <1>2, <1>3 DEF InputFunctions
  <1>20. TableFunctions'
    BY <1>0, <1>2 DEF TableFunctions, tables
  <1>21. OnlyAt(c)
    BY <1>0, <1>1, <1>2 DEF OnlyAt, SameAt, InputFunctions
  <1>. QED
    BY <1>18, <1>19, <1>20, <1>21, StepAt

LEMMA FailKeeps ==
  ASSUME IInv, NEW c \in Conn, Fail(c)
  PROVE  IInv'
  <1>0. InputInv(c) /\ InputFunctions /\ TableFunctions
    BY DEF IInv
  <1>1. /\ client' = [client EXCEPT ![c].end = "reset"] /\ client[c].end \in {"no", "close"}
        /\ net' = [net EXCEPT ![c] = <<>>]
    BY DEF Fail
  <1>2. /\ parser' = parser /\ queue' = queue /\ job' = job /\ data' = data
        /\ handled' = handled /\ offered' = offered /\ split' = split /\ tables' = tables
        /\ socket' = socket /\ halted' = halted /\ raced' = raced
    BY DEF Fail, history
  <1>3. /\ client'[c].headers = client[c].headers /\ client'[c].sent = client[c].sent
        /\ client'[c].end = "reset" /\ client'[c] \in ClientState /\ net'[c] = <<>>
    <2>1. /\ client[c] \in ClientState /\ client'[c] = [client[c] EXCEPT !.end = "reset"]
          /\ net'[c] = <<>>
      BY <1>0, <1>1 DEF InputFunctions
    <2>. QED
      BY <2>1 DEF ClientState
  <1>4. Wired(<<>>) /\ TagAt(<<>>, 1) = "none"
    <2>1. 1 \in Nat
      OBVIOUS
    <2>. QED
      BY <2>1, NothingSent
  <1>11. InputTyped(c)'
    BY <1>0, <1>2, <1>3, <1>4 DEF InputInv, InputTyped
  <1>12. InputFollowed(c)'
    BY <1>3 DEF InputFollowed
  <1>13. OneAtATime(c)'
    BY <1>0, <1>2, <1>3 DEF InputInv, OneAtATime, OwnResource, Busy
  <1>14. Authenticating(c)'
    <2>1. Flying(c)' = {}
      BY <1>3 DEF Flying
    <2>2. Waiting(c)' \subseteq Waiting(c)
      BY <1>2, <2>1 DEF Waiting
    <2>. QED
      BY <1>0, <1>2, <2>2 DEF InputInv, Authenticating
  <1>15. Headed(c)'
    BY <1>0, <1>2, <1>3, <1>4 DEF InputInv, Headed, Busy
  <1>16. Restarted(c)'
    BY <1>0, <1>2, <1>3, <1>4 DEF InputInv, Restarted
  <1>17. Ended(c)'
    BY <1>0, <1>2, <1>3 DEF InputInv, Ended, Busy
  <1>18. InputInv(c)'
    BY <1>11, <1>12, <1>13, <1>14, <1>15, <1>16, <1>17 DEF InputInv
  <1>19. InputFunctions'
    <2>1. <<>> \in Seq(Symbol)
      OBVIOUS
    <2>. QED
      BY <1>0, <1>1, <1>2, <1>3, <2>1 DEF InputFunctions
  <1>20. TableFunctions'
    BY <1>0, <1>2 DEF TableFunctions, tables
  <1>21. OnlyAt(c)
    BY <1>0, <1>1, <1>2 DEF OnlyAt, SameAt, InputFunctions
  <1>. QED
    BY <1>18, <1>19, <1>20, <1>21, StepAt

LEMMA SendStanzaKeeps ==
  ASSUME IInv, NEW c \in Conn, SendStanza(c)
  PROVE  IInv'
  <1>0. InputInv(c) /\ InputFunctions /\ TableFunctions
    BY DEF IInv
  <1>1. PICK k \in Kinds[c] :
          /\ InTurn(c, k)
          /\ net' = [net EXCEPT ![c] = @ \o Text([kind |-> k, no |-> client[c].sent + 1])]
    BY DEF SendStanza
  <1>2. /\ client' = [client EXCEPT ![c].sent = @ + 1]
        /\ ~HeaderDue(c) /\ client[c].end = "no"
        /\ parser' = parser /\ queue' = queue /\ job' = job /\ data' = data
        /\ handled' = handled /\ offered' = offered /\ split' = split /\ tables' = tables
        /\ socket' = socket /\ halted' = halted /\ raced' = raced
    BY DEF SendStanza, Connected, history
  <1>. DEFINE cl == client[c]
              w == net[c]
              x == net'[c]
              h == Len(handled[c])
              s == [kind |-> k, no |-> client[c].sent + 1]
              t == Text(s)
  <1>3. k \in Kind
    BY SessionAssumption
  <1>4. /\ cl.sent \in Nat /\ cl.headers \in 0..2 /\ h \in Nat /\ data[c].jid \in BOOLEAN
        /\ cl \in ClientState /\ parser[c] \in Parser
        /\ net[c] \in Seq(Symbol)
    BY <1>0, TypesAt
  <1>5. x = w \o t /\ client'[c] = [cl EXCEPT !.sent = cl.sent + 1]
    BY <1>0, <1>1, <1>2 DEF InputFunctions
  <1>6. /\ client'[c].headers = cl.headers /\ client'[c].sent = cl.sent + 1
        /\ client'[c].end = "no" /\ client'[c] \in ClientState
    BY <1>2, <1>4, <1>5 DEF ClientState
  <1>a. /\ Wired(w) /\ (w # <<>> => TagAt(w, Len(w)) \in {"open", "end"})
    <2>1. Wired(w) /\ TagAt(w, Len(w)) # "close"
      BY <1>0, <1>2 DEF InputInv, InputTyped
    <2>. HIDE DEF w
    <2>2. ASSUME w # <<>>
          PROVE  TagAt(w, Len(w)) = w[Len(w)].tag /\ w[Len(w)].tag \in {"open", "end", "close"}
      <3>1. Len(w) \in 1..Len(w)
        BY <1>4, <2>2 DEF w
      <3>. QED
        BY <2>1, <2>2, <3>1 DEF Wired, TagAt
    <2>. QED
      BY <2>1, <2>2
  <1>b. s \in Stanza /\ s.no = cl.sent + 1 /\ s.kind = k
    BY <1>3, <1>4 DEF Stanza
  <1>c. /\ Wired(t) /\ Tallied(t, cl.sent, cl.sent + 1) /\ Carried(t) = {s} /\ t # <<>>
        /\ TagAt(t, 1) = "head" /\ TagAt(t, Len(t)) = "end"
    <2>. DEFINE n == cl.sent
    <2>1. s \in Stanza /\ n \in Nat /\ s.no = n + 1
      BY <1>4, <1>b
    <2>. HIDE DEF s, n
    <2>. QED
      BY <2>1, StanzaText DEF n
  <1>. HIDE DEF t, s
  <1>7. /\ Wired(x) /\ x # <<>> /\ Carried(x) = Carried(w) \cup {s}
        /\ TagAt(x, 1) = IF w = <<>> THEN "head" ELSE TagAt(w, 1)
        /\ TagAt(x, Len(x)) = "end"
    <2>. HIDE DEF x, w
    <2>2. w = <<>> \/ TagFollows(TagAt(w, Len(w)), TagAt(t, 1))
      BY <1>a, <1>c DEF TagFollows
    <2>3. /\ Wired(x) /\ x # <<>> /\ Carried(x) = Carried(w) \cup Carried(t)
          /\ TagAt(x, 1) = IF w = <<>> THEN TagAt(t, 1) ELSE TagAt(w, 1)
          /\ TagAt(x, Len(x)) = TagAt(t, Len(t))
      <3>1. Wired(w) /\ Wired(t) /\ t # <<>> /\ x = w \o t
        BY <1>5, <1>a, <1>c
      <3>2. Wired(x) /\ Extends(x, w, t)
        BY ONLY <2>2, <3>1, WiredConcat
      <3>. QED
        BY <3>2 DEF Extends
    <2>. QED
      BY <1>c, <2>3
  <1>. HIDE DEF cl, w, x, h
  <1>d. ASSUME Tallied(w, h, cl.sent)
        PROVE  Tallied(x, h, cl.sent + 1)
    <2>2. t \in Seq(Symbol) /\ w \in Seq(Symbol)
      BY <1>a, <1>c DEF Wired
    <2>. QED
      BY <1>5, <1>c, <1>d, <2>2, TalliedConcat
  <1>e. w = <<>> => TagAt(w, 1) = "none"
    <2>1. 1 \in Nat
      OBVIOUS
    <2>. QED
      BY <2>1, NothingSent
  <1>f. \/ OwnResource(c)
        \/ Answered(c) /\ w = <<>> /\ 1..Len(queue[c]) = {} /\ ~Busy(c) /\ cl.sent = h
    <2>1. OwnResource(c) \/ Answered(c)
      BY <1>1 DEF InTurn
    <2>. QED
      BY <1>2, <2>1, AnsweredInput DEF w, cl, h
  <1>g. /\ data[c].jid => k \notin AuthKind
        /\ ~data[c].jid => k \notin {"ask", "presence", "bind", "rebind"}
    <2>1. data[c].jid => k \notin AuthKind
      <3>1. ASSUME data[c].jid, k \in AuthKind PROVE FALSE
        <4>1. k \in {"plain-good", "plain-bad", "digest", "answer-good", "answer-bad",
                     "answer-empty", "iqauth-good", "iqauth-bad"}
          BY <3>1 DEF AuthKind, SaslKind, IqAuthKind
        <4>2. CASE k \in {"answer-good", "answer-bad", "answer-empty"}
          BY <1>1, <3>1, <4>2 DEF InTurn
        <4>3. CASE k \in {"plain-good", "plain-bad", "digest", "iqauth-good", "iqauth-bad"}
          BY <1>1, <3>1, <4>3 DEF InTurn
        <4>. QED
          BY <4>1, <4>2, <4>3
      <3>. QED
        BY <3>1
    <2>2. ~data[c].jid => k \notin {"ask", "presence", "bind", "rebind"}
      BY <1>1 DEF InTurn, OwnResource
    <2>. QED
      BY <2>1, <2>2
  <1>h. cl.headers # 0
    BY <1>2 DEF HeaderDue, cl
  <1>i. cl.sent # 0 \/ (Answered(c) /\ w = <<>> /\ 1..Len(queue[c]) = {})
    <2>1. OwnResource(c) => data[c].jid
      BY DEF OwnResource
    <2>2. cl.sent = 0 => ~data[c].jid
      BY <1>0 DEF InputInv, Headed, cl
    <2>. QED
      BY <1>f, <2>1, <2>2
  <1>11. InputTyped(c)'
    BY <1>0, <1>2, <1>6, <1>7 DEF InputInv, InputTyped, x
  <1>12. InputFollowed(c)'
    <2>1. ASSUME Expects(parser[c], TagAt(w, 1), h)
          PROVE  Expects(parser[c], TagAt(x, 1), h)
      BY <1>7, <1>e, <2>1 DEF Expects, Follows
    <2>2. ASSUME Lost(parser[c], TagAt(w, 1))
          PROVE  Lost(parser[c], TagAt(x, 1))
      BY <1>7, <1>e, <2>2 DEF Lost
    <2>3. /\ h <= cl.sent
          /\ \/ ~split[c] /\ Tallied(w, h, cl.sent) /\ Expects(parser[c], TagAt(w, 1), h)
             \/ split[c] /\ h < cl.sent /\ Lost(parser[c], TagAt(w, 1))
      BY <1>0, <1>2 DEF InputInv, InputFollowed, h, w, cl
    <2>4. h <= cl.sent + 1 /\ (h < cl.sent => h < cl.sent + 1)
      BY <1>4, <2>3
    <2>. QED
      BY <1>2, <1>6, <1>d, <2>1, <2>2, <2>3, <2>4 DEF InputFollowed, x, h
  <1>13. OneAtATime(c)'
    <2>1. CASE OwnResource(c)
      BY <1>2, <2>1 DEF OneAtATime, OwnResource
    <2>2. CASE 1..Len(queue[c]) = {} /\ ~Busy(c) /\ cl.sent = h
      <3>1. client'[c].sent <= h + 1
        BY <1>4, <1>6, <2>2
      <3>2. ~(Busy(c)')
        BY <1>2, <2>2 DEF Busy
      <3>. QED
        BY <1>2, <2>2, <3>1, <3>2 DEF OneAtATime, h
    <2>. QED
      BY <1>f, <2>1, <2>2
  <1>14. Authenticating(c)'
    <2>1. Flying(c)' \subseteq Flying(c) \cup {s}
      BY <1>2, <1>6, <1>7 DEF Flying, Upcoming, x, w
    <2>2. Waiting(c)' \subseteq Waiting(c) \cup {k}
      BY <1>2, <1>b, <2>1 DEF Waiting
    <2>3. Authenticating(c)
      BY <1>0 DEF InputInv
    <2>4. k = "bind" => data[c].resource = None
      BY <1>1 DEF InTurn, OwnResource
    <2>5. data[c].resource # None => "bind" \notin Waiting(c)'
      BY <2>2, <2>3, <2>4 DEF Authenticating
    <2>6. Waiting(c)' \cap Kind \subseteq Kinds[c]
      BY <2>2, <2>3 DEF Authenticating
    <2>7. /\ data[c].jid => Waiting(c)' \cap AuthKind = {}
          /\ ~data[c].jid => Waiting(c)' \cap {"ask", "presence", "bind", "rebind"} = {}
      BY <1>g, <2>2, <2>3 DEF Authenticating
    <2>. QED
      BY <1>2, <2>3, <2>5, <2>6, <2>7 DEF Authenticating
  <1>15. Headed(c)'
    <2>1. TagAt(x, 1) = "open" => TagAt(w, 1) = "open" /\ w # <<>>
      BY <1>7, <1>e
    <2>2. client'[c].sent # 0
      BY <1>4, <1>6
    <2>3. Headed(c)
      BY <1>0 DEF InputInv
    <2>4. ~HeaderDue(c)'
      BY <1>2, <1>6 DEF HeaderDue, cl
    <2>5. Fresh(parser[c]) => data[c].jid \/ TagAt(x, 1) = "open"
      <3>1. Fresh(parser[c]) => data[c].jid \/ TagAt(w, 1) = "open"
        BY <1>2, <1>h, <2>3 DEF Headed, cl, w
      <3>2. TagAt(w, 1) = "open" => TagAt(x, 1) = "open"
        BY <1>7, <1>e
      <3>. QED
        BY <3>1, <3>2
    <2>6. TagAt(x, 1) = "open" => cl.headers = 2 /\ data[c].jid /\ parser[c].stream
      <3>1. ASSUME TagAt(x, 1) = "open", cl.sent = 0 PROVE FALSE
        BY <1>i, <2>1, <3>1
      <3>. QED
        BY <2>1, <2>3, <3>1 DEF Headed, cl, w
    <2>. QED
      BY <1>2, <1>6, <1>h, <2>2, <2>3, <2>4, <2>5, <2>6 DEF Headed, x, cl
  <1>16. Restarted(c)'
    <2>1. TagAt(w, 1) = "open" => TagAt(x, 1) = "open"
      BY <1>7, <1>e
    <2>2. Restarted(c)
      BY <1>0 DEF InputInv
    <2>3. ~HeaderDue(c)'
      BY <1>2, <1>6 DEF HeaderDue, cl
    <2>4. \A i \in 1..Len(queue[c]) : queue[c][i].kind # "init"
      BY <1>i, <2>2 DEF Restarted, cl
    <2>. QED
      BY <1>2, <1>6, <2>1, <2>2, <2>3, <2>4 DEF Restarted, x, w, cl
  <1>17. Ended(c)'
    BY <1>0, <1>2, <1>6 DEF InputInv, Ended, Busy
  <1>18. InputInv(c)'
    BY <1>11, <1>12, <1>13, <1>14, <1>15, <1>16, <1>17 DEF InputInv
  <1>19. InputFunctions'
    <2>1. client' \in [Conn -> ClientState]
      BY <1>0, <1>2, <1>6 DEF InputFunctions
    <2>2. net' \in [Conn -> Seq(Symbol)]
      <3>1. net'[c] \in Seq(Symbol)
        BY <1>7 DEF Wired, x
      <3>. QED
        BY <1>0, <1>1, <3>1 DEF InputFunctions
    <2>. QED
      BY <1>0, <1>2, <2>1, <2>2 DEF InputFunctions
  <1>20. TableFunctions'
    BY <1>0, <1>2 DEF TableFunctions, tables
  <1>21. OnlyAt(c)
    BY <1>0, <1>1, <1>2 DEF OnlyAt, SameAt, InputFunctions
  <1>. QED
    BY <1>18, <1>19, <1>20, <1>21, StepAt

-----------------------------------------------------------------------------
(* Handlers that leave the input alone.                                     *)

LEMMA JobStep ==
  ASSUME IInv, NEW c \in Conn,
         client' = client, net' = net, parser' = parser, queue' = queue,
         handled' = handled, offered' = offered, split' = split,
         job'[c].at = "idle"
           \/ (Busy(c) /\ job'[c].at \in {"check", "look", "create", "put"}),
         data'[c].jid = data[c].jid, data'[c].closing = data[c].closing,
         data'[c].sasl.complete = data[c].sasl.complete, OwnResource(c) => OwnResource(c)',
         data'[c].resource = data[c].resource \/ "bind" \notin Waiting(c)
  PROVE  InputInv(c)'
  <1>0. InputInv(c) /\ InputFunctions
    BY DEF IInv
  <1>1. Busy(c)' => Busy(c)
    BY DEF Busy
  <1>2. HeaderDue(c)' = HeaderDue(c)
    BY DEF HeaderDue
  <1>11. InputTyped(c)'
    BY <1>0 DEF InputInv, InputTyped
  <1>12. InputFollowed(c)'
    BY <1>0 DEF InputInv, InputFollowed
  <1>13. OneAtATime(c)'
    <2>1. OneAtATime(c)
      BY <1>0 DEF InputInv
    <2>. QED
      BY <1>1, <2>1 DEF OneAtATime
  <1>14. Authenticating(c)'
    <2>1. Flying(c)' = Flying(c)
      BY DEF Flying
    <2>2. job'[c].at # "act"
      OBVIOUS
    <2>3. Waiting(c)' \subseteq Waiting(c)
      BY <2>1, <2>2 DEF Waiting
    <2>4. Authenticating(c)
      BY <1>0 DEF InputInv
    <2>. QED
      BY <2>3, <2>4, StillAuthenticating
  <1>15. Headed(c)'
    BY <1>0, <1>1, <1>2 DEF InputInv, Headed
  <1>16. Restarted(c)'
    BY <1>0, <1>2 DEF InputInv, Restarted
  <1>17. Ended(c)'
    <2>1. job'[c].at \notin {"last", "listing"}
      OBVIOUS
    <2>. QED
      BY <1>0, <1>1, <2>1 DEF InputInv, Ended
  <1>. QED
    BY <1>11, <1>12, <1>13, <1>14, <1>15, <1>16, <1>17 DEF InputInv

LEMMA PresenceActKeeps ==
  ASSUME IInv, NEW c \in Conn, PresenceAct(c)
  PROVE  IInv'
  <1>0. InputFunctions /\ TableFunctions
    BY DEF IInv
  <1>1. /\ job' = [job EXCEPT ![c] = Idle] /\ data' = [data EXCEPT ![c].active = TRUE]
        /\ client' = client /\ net' = net /\ parser' = parser /\ queue' = queue
        /\ handled' = handled /\ offered' = offered /\ split' = split /\ tables' = tables
        /\ socket' = socket /\ halted' = halted /\ raced' = raced
    BY DEF PresenceAct, history
  <1>2. job'[c] = Idle /\ data'[c] = [data[c] EXCEPT !.active = TRUE] /\ data[c] \in DataState
    BY <1>0, <1>1 DEF InputFunctions
  <1>3. /\ data'[c] \in DataState /\ data'[c].jid = data[c].jid
        /\ data'[c].closing = data[c].closing /\ data'[c].sasl = data[c].sasl
        /\ data'[c].resource = data[c].resource
    BY <1>2 DEF DataState
  <1>4. InputInv(c)'
    <2>1. job'[c].at = "idle"
      BY <1>2 DEF Idle
    <2>2. OwnResource(c) => OwnResource(c)'
      BY <1>3 DEF OwnResource
    <2>. QED
      BY <1>1, <1>3, <2>1, <2>2, JobStep
  <1>5. InputFunctions'
    <2>1. Idle \in JobState
      BY DEF Idle, JobState, MessageKind, Kind, Name
    <2>. QED
      BY <1>0, <1>1, <1>3, <2>1 DEF InputFunctions
  <1>6. TableFunctions'
    BY <1>0, <1>1 DEF TableFunctions, tables
  <1>7. OnlyAt(c)
    BY <1>0, <1>1 DEF OnlyAt, SameAt, InputFunctions
  <1>. QED
    BY <1>4, <1>5, <1>6, <1>7, StepAt

(* While a handler runs for a client that waits for its answer, nothing else*)
(* of that client waits.                                                    *)
LEMMA NoneWaits ==
  ASSUME IInv, NEW c \in Conn, Busy(c), ~OwnResource(c), job[c].at # "act"
  PROVE  Waiting(c) \cap Kind = {}
  <1>0. InputInv(c) /\ client[c].sent \in Nat /\ Len(handled[c]) \in Nat
    BY TypesAt DEF IInv
  <1>. DEFINE h == Len(handled[c])
              sent == client[c].sent
  <1>1. /\ \A i \in 1..Len(queue[c]) : queue[c][i].kind \notin Kind
        /\ sent <= h /\ ~(h < sent)
    BY <1>0 DEF InputInv, OneAtATime
  <1>2. ASSUME client[c].end # "reset"
        PROVE  Upcoming(parser[c], net[c]) = {}
    <2>1. Wired(net[c])
      BY <1>0 DEF InputInv, InputTyped
    <2>2. CASE Tallied(net[c], h, sent) /\ Expects(parser[c], TagAt(net[c], 1), h) /\ h <= sent
      <3>1. Tallied(net[c], h, h)
        <4>1. h = sent
          BY <1>0, <1>1, <2>2
        <4>. HIDE DEF h, sent
        <4>. QED
          BY <2>2, <4>1
      <3>2. TagAt(net[c], 1) \in {"none", "open", "close"} /\ Carried(net[c]) = {}
        BY <2>1, <3>1, NoStanzaAhead
      <3>3. parser[c].depth # 2
        BY <2>2, <3>2 DEF Expects, Follows, Between, InTag, InBody, Inside, Fresh
      <3>. QED
        BY <3>2, <3>3 DEF Upcoming
    <2>3. CASE net[c] = <<>> /\ parser[c].depth # 2
      BY <2>3, NothingSent DEF Upcoming
    <2>. QED
      BY <1>0, <1>1, <1>2, <2>2, <2>3 DEF InputInv, InputFollowed
  <1>3. Flying(c) = {}
    BY <1>2 DEF Flying
  <1>. QED
    BY <1>1, <1>3 DEF Waiting

LEMMA BindCheckKeeps ==
  ASSUME IInv, NEW c \in Conn, BindCheck(c)
  PROVE  IInv'
  <1>0. InputFunctions /\ TableFunctions
    BY DEF IInv
  <1>. DEFINE name == IF Taken(c) THEN generated + 1 ELSE 0
  <1>1. /\ job[c].at = "check"
        /\ data' = [data EXCEPT ![c].resource = name]
        /\ generated' = IF Taken(c) THEN name ELSE generated
        /\ job' = [job EXCEPT ![c] =
             IF conns[c] = "named" THEN [@ EXCEPT !.at = "look", !.name = name] ELSE Idle]
        /\ raced' = IF Rivals(c) = {} THEN raced ELSE raced \cup {UserOf[c]}
        /\ client' = client /\ net' = net /\ parser' = parser /\ queue' = queue
        /\ handled' = handled /\ offered' = offered /\ split' = split
        /\ socket' = socket /\ conns' = conns /\ resources' = resources /\ halted' = halted
    BY DEF BindCheck, history
  <1>2. name \in Name /\ name # None
    <2>1. name \in Nat
      BY <1>0 DEF TableFunctions, Name
    <2>. QED
      BY <2>1, SessionAssumption DEF Name
  <1>. HIDE DEF name
  <1>3. /\ data'[c] = [data[c] EXCEPT !.resource = name] /\ data[c] \in DataState
        /\ job'[c] = (IF conns[c] = "named" THEN [job[c] EXCEPT !.at = "look", !.name = name]
                      ELSE Idle)
        /\ job[c] \in JobState
    BY <1>0, <1>1 DEF InputFunctions
  <1>4. /\ data'[c] \in DataState /\ data'[c].jid = data[c].jid
        /\ data'[c].closing = data[c].closing /\ data'[c].sasl = data[c].sasl
        /\ data'[c].resource = name
    BY <1>2, <1>3 DEF DataState
  <1>5. Idle \in JobState /\ Idle.at = "idle"
    BY DEF Idle, JobState, MessageKind, Kind, Name
  <1>6. job'[c] \in JobState /\ job'[c].at \in {"look", "idle"}
    <2>1. CASE conns[c] = "named"
      BY <1>2, <1>3, <2>1 DEF JobState
    <2>2. CASE conns[c] # "named"
      BY <1>3, <1>5, <2>2
    <2>. QED
      BY <2>1, <2>2
  <1>7. InputInv(c)'
    <2>1. job'[c].at = "idle"
            \/ (Busy(c) /\ job'[c].at \in {"check", "look", "create", "put"})
      BY <1>1, <1>6 DEF Busy
    <2>2. OwnResource(c) => OwnResource(c)'
      BY <1>2, <1>4 DEF OwnResource
    <2>3. "bind" \notin Waiting(c)
      <3>1. CASE OwnResource(c)
        BY <3>1 DEF IInv, InputInv, Authenticating, OwnResource
      <3>2. CASE ~OwnResource(c)
        BY <1>1, <3>2, NoneWaits, KindsDistinct DEF Busy
      <3>. QED
        BY <3>1, <3>2
    <2>. QED
      BY <1>1, <1>4, <2>1, <2>2, <2>3, JobStep
  <1>8. InputFunctions'
    BY <1>0, <1>1, <1>4, <1>6 DEF InputFunctions
  <1>9. TableFunctions'
    <2>1. generated' \in Name /\ raced' \subseteq User
      BY <1>0, <1>1, <1>2, SessionAssumption DEF TableFunctions
    <2>. QED
      BY <1>0, <1>1, <2>1 DEF TableFunctions
  <1>10. OnlyAt(c)
    BY <1>0, <1>1 DEF OnlyAt, SameAt, InputFunctions
  <1>. QED
    BY <1>7, <1>8, <1>9, <1>10, StepAt

(* The steps of bindResource() that only change the tables.                 *)
LEMMA BindingKeeps ==
  ASSUME IInv, NEW c \in Conn, Binding(c), NEW j \in JobState,
         j.at \in {"idle", "create", "put"}, job' = [job EXCEPT ![c] = j],
         client' = client, net' = net, parser' = parser, queue' = queue,
         data' = data, handled' = handled, offered' = offered, split' = split,
         TableFunctions'
  PROVE  IInv'
  <1>0. InputFunctions /\ TableFunctions
    BY DEF IInv
  <1>1. job'[c] = j
    BY <1>0 DEF InputFunctions
  <1>2. InputInv(c)'
    <2>1. job'[c].at = "idle"
            \/ (Busy(c) /\ job'[c].at \in {"check", "look", "create", "put"})
      BY <1>1 DEF Busy, Binding
    <2>2. OwnResource(c) => OwnResource(c)'
      BY DEF OwnResource
    <2>. QED
      BY <2>1, <2>2, JobStep
  <1>3. InputFunctions'
    BY <1>0 DEF InputFunctions
  <1>4. OnlyAt(c)
    BY <1>0 DEF OnlyAt, SameAt, InputFunctions
  <1>. QED
    BY <1>2, <1>3, <1>4, StepAt

LEMMA BindLookKeeps ==
  ASSUME IInv, NEW c \in Conn, BindLook(c)
  PROVE  IInv'
  <1>0. InputFunctions /\ TableFunctions
    BY DEF IInv
  <1>. DEFINE at == IF UserOf[c] \in DOMAIN resources THEN "put" ELSE "create"
              j == [job[c] EXCEPT !.at = at]
  <1>1. /\ Binding(c) /\ job' = [job EXCEPT ![c].at = at]
        /\ client' = client /\ net' = net /\ parser' = parser /\ queue' = queue
        /\ data' = data /\ handled' = handled /\ offered' = offered /\ split' = split
        /\ socket' = socket /\ halted' = halted /\ raced' = raced
        /\ conns' = conns /\ resources' = resources /\ generated' = generated
    BY DEF BindLook, history, tables, Binding
  <1>2. at \in {"create", "put"}
    OBVIOUS
  <1>. HIDE DEF at
  <1>3. j \in JobState /\ j.at \in {"idle", "create", "put"}
    <2>1. job[c] \in JobState
      BY <1>0 DEF InputFunctions
    <2>. QED
      BY <1>2, <2>1 DEF JobState
  <1>4. job' = [job EXCEPT ![c] = j]
    BY <1>0, <1>1 DEF InputFunctions
  <1>5. TableFunctions'
    BY <1>0, <1>1 DEF TableFunctions
  <1>. HIDE DEF j
  <1>. QED
    BY <1>1, <1>3, <1>4, <1>5, BindingKeeps

LEMMA BindCreateKeeps ==
  ASSUME IInv, NEW c \in Conn, BindCreate(c)
  PROVE  IInv'
  <1>0. InputFunctions /\ TableFunctions
    BY DEF IInv
  <1>. DEFINE j == [job[c] EXCEPT !.at = "put"]
  <1>1. /\ Binding(c) /\ job' = [job EXCEPT ![c].at = "put"]
        /\ client' = client /\ net' = net /\ parser' = parser /\ queue' = queue
        /\ data' = data /\ handled' = handled /\ offered' = offered /\ split' = split
        /\ socket' = socket /\ halted' = halted /\ raced' = raced
        /\ conns' = conns /\ generated' = generated
        /\ resources' = [u \in DOMAIN resources \cup {UserOf[c]} |->
                           IF u = UserOf[c] THEN <<>> ELSE resources[u]]
    BY DEF BindCreate, history, Binding
  <1>3. j \in JobState /\ j.at \in {"idle", "create", "put"}
    <2>1. job[c] \in JobState
      BY <1>0 DEF InputFunctions
    <2>. QED
      BY <2>1 DEF JobState
  <1>4. job' = [job EXCEPT ![c] = j]
    BY <1>0, <1>1 DEF InputFunctions
  <1>5. TableFunctions'
    <2>1. UserOf[c] \in User /\ DOMAIN <<>> = {}
      BY SessionAssumption
    <2>2. DOMAIN resources' \subseteq User
      BY <1>0, <1>1, <2>1 DEF TableFunctions
    <2>3. \A u \in DOMAIN resources' :
            /\ DOMAIN resources'[u] \subseteq Name
            /\ \A n \in DOMAIN resources'[u] : resources'[u][n] \in Conn
      <3>1. ASSUME NEW u \in DOMAIN resources'
            PROVE  resources'[u] = IF u = UserOf[c] THEN <<>> ELSE resources[u]
        BY <1>1
      <3>2. \A u \in DOMAIN resources' : u # UserOf[c] => u \in DOMAIN resources
        BY <1>1
      <3>. QED
        BY <1>0, <2>1, <3>1, <3>2 DEF TableFunctions
    <2>. QED
      BY <1>0, <1>1, <2>2, <2>3 DEF TableFunctions
  <1>. HIDE DEF j
  <1>. QED
    BY <1>1, <1>3, <1>4, <1>5, BindingKeeps

LEMMA BindPutKeeps ==
  ASSUME IInv, NEW c \in Conn, BindPut(c)
  PROVE  IInv'
  <1>0. InputFunctions /\ TableFunctions
    BY DEF IInv
  <1>1. /\ Binding(c) /\ job' = [job EXCEPT ![c] = Idle]
        /\ client' = client /\ net' = net /\ parser' = parser /\ queue' = queue
        /\ data' = data /\ handled' = handled /\ offered' = offered /\ split' = split
        /\ socket' = socket /\ halted' = halted /\ raced' = raced
        /\ conns' = conns /\ generated' = generated
        /\ resources' = [resources EXCEPT ![UserOf[c]] =
             [n \in DOMAIN @ \cup {job[c].name} |-> IF n = job[c].name THEN c ELSE @[n]]]
    BY DEF BindPut, history, Binding
  <1>3. Idle \in JobState /\ Idle.at \in {"idle", "create", "put"}
    BY DEF Idle, JobState, MessageKind, Kind, Name
  <1>5. TableFunctions'
    <2>. DEFINE t == resources[UserOf[c]]
                v == [n \in DOMAIN t \cup {job[c].name} |->
                        IF n = job[c].name THEN c ELSE t[n]]
    <2>1. job[c].name \in Name
      BY <1>0 DEF InputFunctions, JobState
    <2>2. DOMAIN resources' = DOMAIN resources
      BY <1>1
    <2>3. ASSUME NEW u \in DOMAIN resources'
          PROVE  /\ DOMAIN resources'[u] \subseteq Name
                 /\ \A n \in DOMAIN resources'[u] : resources'[u][n] \in Conn
      <3>1. CASE u = UserOf[c]
        <4>1. resources'[u] = v
          BY <1>1, <2>2, <3>1
        <4>2. DOMAIN t \subseteq Name /\ \A n \in DOMAIN t : t[n] \in Conn
          BY <1>0, <2>2, <3>1 DEF TableFunctions
        <4>3. /\ DOMAIN v = DOMAIN t \cup {job[c].name}
              /\ \A n \in DOMAIN v : v[n] = IF n = job[c].name THEN c ELSE t[n]
          OBVIOUS
        <4>. HIDE DEF v, t
        <4>. QED
          BY <2>1, <4>1, <4>2, <4>3
      <3>2. CASE u # UserOf[c]
        <4>1. resources'[u] = resources[u]
          BY <1>1, <2>2, <3>2
        <4>. QED
          BY <1>0, <2>2, <4>1 DEF TableFunctions
      <3>. QED
        BY <3>1, <3>2
    <2>. QED
      BY <1>0, <1>1, <2>2, <2>3 DEF TableFunctions
  <1>. QED
    BY <1>1, <1>3, <1>5, BindingKeeps

-----------------------------------------------------------------------------
(* Authentication.                                                          *)

LEMMA SaslFields ==
  ASSUME NEW sasl \in SaslState, NEW st \in 0..2, NEW f \in 0..2,
         NEW mech \in {"none", "plain", "digest"}, NEW a \in BOOLEAN, NEW b \in BOOLEAN
  PROVE  /\ [sasl EXCEPT !.state = st] \in SaslState
         /\ [sasl EXCEPT !.failures = f] \in SaslState
         /\ [sasl EXCEPT !.failures = f, !.state = st] \in SaslState
         /\ [sasl EXCEPT !.state = st, !.complete = a, !.progress = b] \in SaslState
         /\ [sasl EXCEPT !.mech = mech, !.progress = b] \in SaslState
         /\ [sasl EXCEPT !.mech = mech, !.complete = a, !.progress = b] \in SaslState
  <1>1. [sasl EXCEPT !.state = st] \in SaslState
    BY DEF SaslState
  <1>2. [sasl EXCEPT !.failures = f] \in SaslState
    BY DEF SaslState
  <1>3. [sasl EXCEPT !.failures = f, !.state = st] \in SaslState
    BY DEF SaslState
  <1>4. [sasl EXCEPT !.state = st, !.complete = a, !.progress = b] \in SaslState
    BY DEF SaslState
  <1>5. [sasl EXCEPT !.mech = mech, !.progress = b] \in SaslState
    BY DEF SaslState
  <1>6. [sasl EXCEPT !.mech = mech, !.complete = a, !.progress = b] \in SaslState
    BY DEF SaslState
  <1>. QED
    BY <1>1, <1>2, <1>3, <1>4, <1>5, <1>6

LEMMA NoSaslTyped == NoSasl \in SaslState /\ NewDigest \in SaslState
  <1>1. NoSasl \in SaslState
    BY DEF NoSasl, SaslState
  <1>2. [NoSasl EXCEPT !.mech = "digest", !.progress = TRUE] \in SaslState
    <2>1. 0 \in 0..2 /\ TRUE \in BOOLEAN /\ "digest" \in {"none", "plain", "digest"}
      OBVIOUS
    <2>. QED
      BY ONLY <1>1, <2>1, SaslFields
  <1>. QED
    BY <1>1, <1>2 DEF NewDigest

LEMMA PlainTyped ==
  ASSUME NEW good \in BOOLEAN
  PROVE  SASLPlain(good) \in SaslState
  <1>. DEFINE bad == ~good
  <1>1. 0 \in 0..2 /\ bad \in BOOLEAN /\ "plain" \in {"none", "plain", "digest"}
    OBVIOUS
  <1>. HIDE DEF bad
  <1>2. [NoSasl EXCEPT !.mech = "plain", !.complete = good, !.progress = bad] \in SaslState
    BY <1>1, NoSaslTyped, SaslFields
  <1>. QED
    BY <1>2 DEF SASLPlain, bad

LEMMA FailureTyped ==
  ASSUME NEW sasl \in SaslState
  PROVE  Failure(sasl) \in SaslState
  <1>0. 0 \in 0..2 /\ TRUE \in BOOLEAN /\ "none" \in {"none", "plain", "digest"}
    OBVIOUS
  <1>1. CASE sasl.failures = 2
    BY <1>0, <1>1, SaslFields DEF Failure
  <1>2. CASE sasl.failures # 2
    <2>0. sasl.failures \in 0..2
      BY DEF SaslState
    <2>1. sasl.failures + 1 \in 0..2
      BY <1>2, <2>0
    <2>. QED
      BY <1>0, <1>2, <2>1, SaslFields DEF Failure
  <1>. QED
    BY <1>1, <1>2

LEMMA SASLTyped ==
  ASSUME NEW sasl \in SaslState, NEW kind
  PROVE  SASLDigestMD5(sasl, kind) \in SaslState
  <1>0. /\ 0 \in 0..2 /\ 1 \in 0..2 /\ 2 \in 0..2 /\ TRUE \in BOOLEAN /\ FALSE \in BOOLEAN
        /\ "none" \in {"none", "plain", "digest"}
    OBVIOUS
  <1>1. CASE sasl.state = 0
    BY <1>0, <1>1, SaslFields DEF SASLDigestMD5
  <1>2. CASE sasl.state = 1 /\ kind = "answer-good"
    <2>1. SASLDigestMD5(sasl, kind) = [sasl EXCEPT !.state = 2]
      BY <1>2 DEF SASLDigestMD5
    <2>. QED
      BY ONLY sasl \in SaslState, <1>0, <2>1, SaslFields
  <1>3. CASE sasl.state = 2 /\ kind = "answer-empty"
    <2>1. SASLDigestMD5(sasl, kind)
            = [sasl EXCEPT !.state = 0, !.complete = TRUE, !.progress = FALSE]
      BY <1>3 DEF SASLDigestMD5
    <2>2. [sasl EXCEPT !.state = 0, !.complete = TRUE, !.progress = FALSE] \in SaslState
      BY ONLY <1>0, SaslFields
    <2>. QED
      BY <2>1, <2>2
  <1>4. CASE /\ sasl.state # 0 /\ ~(sasl.state = 1 /\ kind = "answer-good")
             /\ ~(sasl.state = 2 /\ kind = "answer-empty")
    <2>1. SASLDigestMD5(sasl, kind) = Failure(sasl)
      BY <1>4 DEF SASLDigestMD5
    <2>. QED
      BY <2>1, FailureTyped
  <1>. QED
    BY <1>1, <1>2, <1>3, <1>4

(* A client that authenticates has nothing else on its way.                 *)
LEMMA LoggingIn ==
  ASSUME IInv, NEW c \in Conn, job[c].at = "act", job[c].kind \in AuthKind
  PROVE  /\ ~data[c].jid /\ ~data[c].sasl.complete /\ ~data[c].closing /\ Busy(c)
         /\ client[c].sent # 0 /\ client[c].headers = 1
         /\ \A i \in 1..Len(queue[c]) : queue[c][i].kind \notin Kind
         /\ client[c].sent <= Len(handled[c])
         /\ client[c].end # "reset" =>
              /\ ~split[c] /\ client[c].sent = Len(handled[c])
              /\ Tallied(net[c], client[c].sent, client[c].sent)
              /\ Carried(net[c]) = {} /\ TagAt(net[c], 1) \in {"none", "close"}
         /\ client[c].end = "no" => net[c] = <<>> /\ parser[c].stream
  <1>0. InputInv(c) /\ InputFunctions
    BY DEF IInv
  <1>1. Busy(c) /\ job[c].kind \in Waiting(c)
    BY DEF Busy, Waiting
  <1>2. ~data[c].jid /\ ~data[c].sasl.complete
    BY <1>0, <1>1 DEF InputInv, Authenticating
  <1>3. ~data[c].closing
    BY <1>0, <1>1 DEF InputInv, Ended
  <1>4. client[c].sent # 0 /\ client[c].headers # 0 /\ client[c].headers # 2
    BY <1>0, <1>1, <1>2 DEF InputInv, Headed, Restarted
  <1>5. /\ client[c].headers \in 0..2 /\ client[c].sent \in Nat /\ Len(handled[c]) \in Nat
        /\ data[c].sasl.complete \in BOOLEAN
    BY <1>0, TypesAt
  <1>6. ~OwnResource(c)
    BY <1>2 DEF OwnResource
  <1>7. ~(client[c].sent > Len(handled[c])) /\ client[c].sent <= Len(handled[c])
    BY <1>0, <1>1, <1>5, <1>6 DEF InputInv, OneAtATime
  <1>8. \A i \in 1..Len(queue[c]) : queue[c][i].kind \notin Kind
    BY <1>0, <1>1, <1>6 DEF InputInv, OneAtATime
  <1>9. ASSUME client[c].end # "reset"
        PROVE  /\ ~split[c] /\ client[c].sent = Len(handled[c])
               /\ Tallied(net[c], client[c].sent, client[c].sent)
               /\ Carried(net[c]) = {} /\ TagAt(net[c], 1) \in {"none", "close"}
               /\ client[c].end = "no" => net[c] = <<>> /\ parser[c].stream
    <2>1. ~split[c]
      BY <1>0, <1>2 DEF InputInv, Headed
    <2>2. client[c].sent = Len(handled[c])
      BY <1>0, <1>5, <1>7, <1>9 DEF InputInv, InputFollowed
    <2>3. /\ Tallied(net[c], client[c].sent, client[c].sent)
          /\ \/ Expects(parser[c], TagAt(net[c], 1), Len(handled[c]))
             \/ client[c].end # "no"
      <3>1. CASE Tallied(net[c], Len(handled[c]), client[c].sent)
                 /\ Expects(parser[c], TagAt(net[c], 1), Len(handled[c]))
        BY <2>2, <3>1
      <3>2. CASE net[c] = <<>> /\ client[c].end # "no"
        BY <1>5, <3>2, NothingSent
      <3>. QED
        BY <1>0, <1>9, <2>1, <3>1, <3>2 DEF InputInv, InputFollowed
    <2>4. Wired(net[c])
      BY <1>0 DEF InputInv, InputTyped
    <2>5. /\ TagAt(net[c], 1) \in {"none", "open", "close"} /\ Carried(net[c]) = {}
          /\ TagAt(net[c], 1) = "none" => net[c] = <<>>
          /\ TagAt(net[c], 1) = "close" => TagAt(net[c], Len(net[c])) = "close"
      BY <2>3, <2>4, NoStanzaAhead
    <2>6. TagAt(net[c], 1) # "open"
      BY <1>0, <1>2, <1>4 DEF InputInv, Headed
    <2>7. ASSUME client[c].end = "no"
          PROVE  net[c] = <<>> /\ parser[c].stream
      <3>1. TagAt(net[c], Len(net[c])) # "close"
        BY <1>0, <2>7 DEF InputInv, InputTyped
      <3>2. net[c] = <<>>
        BY <2>5, <2>6, <3>1
      <3>3. ~Fresh(parser[c])
        BY <1>0, <1>2, <1>4, <2>6, <2>7 DEF InputInv, Headed
      <3>4. Follows(parser[c], TagAt(net[c], 1), Len(handled[c]))
        BY <2>3, <2>7, <3>3 DEF Expects
      <3>. QED
        BY <3>2, <3>4 DEF Follows, Between, InTag, InBody, Inside
    <2>. QED
      BY <2>1, <2>2, <2>3, <2>5, <2>6, <2>7
  <1>10. client[c].headers = 1
    BY <1>4, <1>5
  <1>. QED
    BY <1>1, <1>2, <1>3, <1>4, <1>7, <1>8, <1>9, <1>10

LEMMA ResetFields ==
  ASSUME NEW p \in Parser
  PROVE  LET r == ResetParser(p)
         IN /\ r \in Parser /\ Fresh(r) /\ ~r.over /\ ~r.quirk /\ ~r.dead /\ r.depth = 0
            /\ r.stream = p.stream /\ r.events = p.events
  BY DEF ResetParser, NewParser, Parser, Fresh, Alive

(* It has logged in, and its parser is a new one.                           *)
LEMMA LoggedIn ==
  ASSUME IInv, NEW c \in Conn, job[c].at = "act", job[c].kind \in AuthKind,
         client' = client, net' = net, queue' = queue,
         handled' = handled, offered' = offered, split' = split,
         job'[c].at \in {"idle", "check"}, parser' = [parser EXCEPT ![c] = ResetParser(@)],
         data'[c].jid, data'[c].closing = data[c].closing
  PROVE  InputInv(c)'
  <1>0. InputInv(c) /\ InputFunctions
    BY DEF IInv
  <1>1. /\ ~data[c].jid /\ ~data[c].sasl.complete /\ ~data[c].closing /\ Busy(c)
        /\ client[c].sent # 0 /\ client[c].headers = 1
        /\ \A i \in 1..Len(queue[c]) : queue[c][i].kind \notin Kind
        /\ client[c].sent <= Len(handled[c])
    BY LoggingIn
  <1>2. client[c].end # "reset" =>
          /\ ~split[c] /\ client[c].sent = Len(handled[c])
          /\ Tallied(net[c], client[c].sent, client[c].sent)
          /\ Carried(net[c]) = {} /\ TagAt(net[c], 1) \in {"none", "close"}
    BY LoggingIn
  <1>3. client[c].end = "no" => net[c] = <<>> /\ parser[c].stream
    BY LoggingIn
  <1>4. parser[c] \in Parser /\ client[c].sent \in Nat /\ Len(handled[c]) \in Nat
    BY <1>0, TypesAt
  <1>. DEFINE r == parser'[c]
  <1>5. /\ r \in Parser /\ Fresh(r) /\ ~r.over /\ ~r.quirk /\ ~r.dead /\ r.depth = 0
        /\ r.stream = parser[c].stream /\ r.events = <<>>
    <2>1. r = ResetParser(parser[c])
      BY <1>0 DEF InputFunctions
    <2>2. parser[c].events = <<>>
      BY <1>0 DEF InputInv, InputTyped
    <2>. HIDE DEF r
    <2>. QED
      BY <1>4, <2>1, <2>2, ResetFields
  <1>. HIDE DEF r
  <1>11. InputTyped(c)'
    BY <1>0, <1>5 DEF InputInv, InputTyped, r
  <1>12. InputFollowed(c)'
    <2>1. CASE client[c].end = "reset"
      BY <1>0, <2>1 DEF InputInv, InputFollowed
    <2>2. CASE client[c].end # "reset"
      <3>1. Expects(r, TagAt(net[c], 1), Len(handled[c]))
        BY <1>2, <1>5, <2>2 DEF Expects
      <3>2. /\ Len(handled[c]) <= client[c].sent /\ ~split[c]
            /\ Tallied(net[c], Len(handled[c]), client[c].sent)
        BY <1>2, <1>4, <2>2
      <3>. QED
        BY <2>2, <3>1, <3>2 DEF InputFollowed, r
    <2>. QED
      BY <2>1, <2>2
  <1>13. OneAtATime(c)'
    <2>1. client[c].sent <= Len(handled[c]) + 1 /\ ~(client[c].sent > Len(handled[c]))
      BY <1>1, <1>4
    <2>. QED
      BY <1>1, <2>1 DEF OneAtATime
  <1>14. Authenticating(c)'
    <2>1. Flying(c)' = {}
      BY <1>2, <1>5 DEF Flying, Upcoming, r
    <2>2. job'[c].at # "act"
      OBVIOUS
    <2>3. Waiting(c)' = {queue[c][i].kind : i \in 1..Len(queue[c])}
      BY <2>1, <2>2 DEF Waiting
    <2>4. AuthKind \subseteq Kind
      BY DEF AuthKind, Kind
    <2>5. Waiting(c)' \cap Kind = {}
      BY <1>1, <2>3
    <2>6. "bind" \in Kind
      BY KindsDistinct
    <2>7. Waiting(c)' \cap AuthKind = {} /\ "bind" \notin Waiting(c)'
      BY <2>4, <2>5, <2>6
    <2>. QED
      BY <2>5, <2>7 DEF Authenticating
  <1>15. Headed(c)'
    BY <1>0, <1>1, <1>2, <1>3, <1>5 DEF InputInv, Headed, r
  <1>16. Restarted(c)'
    <2>1. client[c].headers # 2
      BY <1>1
    <2>. QED
      BY <1>0, <1>3, <1>5, <2>1 DEF InputInv, Restarted, r
  <1>17. Ended(c)'
    <2>1. job'[c].at \notin {"last", "listing"}
      OBVIOUS
    <2>. QED
      BY <1>0, <1>1, <2>1 DEF InputInv, Ended
  <1>. QED
    BY <1>11, <1>12, <1>13, <1>14, <1>15, <1>16, <1>17 DEF InputInv

LEMMA ExchangedKeeps ==
  ASSUME IInv, NEW c \in Conn, job[c].at = "act", job[c].kind \in AuthKind,
         NEW s \in SaslState, Exchanged(c, s), job' = [job EXCEPT ![c] = Idle],
         UNCHANGED <<client, net, socket, queue, resources, generated, history, raced>>
  PROVE  IInv'
  <1>0. InputInv(c) /\ InputFunctions /\ TableFunctions
    BY DEF IInv
  <1>1. /\ client' = client /\ net' = net /\ queue' = queue
        /\ handled' = handled /\ offered' = offered /\ split' = split
        /\ socket' = socket /\ halted' = halted /\ raced' = raced /\ resources' = resources
        /\ generated' = generated
        /\ data' = [data EXCEPT ![c].sasl = s, ![c].jid = @ \/ s.complete]
        /\ IF s.complete THEN Authenticated(c) ELSE UNCHANGED <<conns, parser>>
    BY DEF Exchanged, history
  <1>2. /\ data'[c] = [data[c] EXCEPT !.sasl = s, !.jid = data[c].jid \/ s.complete]
        /\ data[c] \in DataState /\ job'[c] = Idle
    BY <1>0, <1>1 DEF InputFunctions
  <1>3. s.complete \in BOOLEAN /\ (data[c].jid \/ s.complete) \in BOOLEAN
    BY DEF SaslState
  <1>4. /\ data'[c] \in DataState /\ data'[c].sasl = s
        /\ data'[c].jid = (data[c].jid \/ s.complete)
        /\ data'[c].closing = data[c].closing /\ data'[c].resource = data[c].resource
    BY <1>2, <1>3 DEF DataState
  <1>5. ~data[c].jid /\ ~data[c].sasl.complete
    BY LoggingIn
  <1>6. Idle \in JobState /\ Idle.at = "idle"
    BY DEF Idle, JobState, MessageKind, Kind, Name
  <1>7. OnlyAt(c)
    <2>1. \A d \in Conn \ {c} : parser'[d] = parser[d]
      BY <1>0, <1>1 DEF Authenticated, InputFunctions
    <2>. QED
      BY <1>0, <1>1, <2>1 DEF OnlyAt, SameAt, InputFunctions
  <1>8. TableFunctions'
    <2>1. conns' \in [Conn -> {"absent", "unnamed", "named"}]
      BY <1>0, <1>1 DEF TableFunctions, Authenticated
    <2>. QED
      BY <1>0, <1>1, <2>1 DEF TableFunctions
  <1>9. InputInv(c)'
    <2>1. CASE s.complete
      <3>1. parser' = [parser EXCEPT ![c] = ResetParser(@)] /\ data'[c].jid
        BY <1>1, <1>4, <2>1 DEF Authenticated
      <3>2. job'[c].at \in {"idle", "check"}
        BY <1>2, <1>6
      <3>. QED
        BY <1>1, <1>4, <3>1, <3>2, LoggedIn
    <2>2. CASE ~s.complete
      <3>1. parser' = parser
        BY <1>1, <2>2
      <3>2. data[c].jid \in BOOLEAN /\ data[c].sasl.complete \in BOOLEAN
        BY <1>0, TypesAt
      <3>3. data'[c].jid = data[c].jid /\ data'[c].sasl.complete = data[c].sasl.complete
        BY <1>3, <1>4, <1>5, <2>2, <3>2
      <3>4. job'[c].at = "idle"
        BY <1>2, <1>6
      <3>5. OwnResource(c) => OwnResource(c)'
        BY <1>5 DEF OwnResource
      <3>. QED
        BY <1>1, <1>4, <3>1, <3>3, <3>4, <3>5, JobStep
    <2>. QED
      BY <2>1, <2>2
  <1>10. InputFunctions'
    <2>1. parser' \in [Conn -> Parser]
      <3>1. parser'[c] \in Parser
        BY <1>9 DEF InputInv, InputTyped
      <3>2. parser' = [parser EXCEPT ![c] = ResetParser(@)] \/ parser' = parser
        BY <1>1 DEF Authenticated
      <3>. QED
        BY <1>0, <3>1, <3>2 DEF InputFunctions
    <2>. QED
      BY <1>0, <1>1, <1>4, <1>6, <2>1 DEF InputFunctions
  <1>. QED
    BY <1>7, <1>8, <1>9, <1>10, StepAt

LEMMA SASLAuthKeeps ==
  ASSUME IInv, NEW c \in Conn, SASLAuth(c)
  PROVE  IInv'
  <1>. DEFINE s == IF job[c].kind = "digest" THEN SASLDigestMD5(NewDigest, "digest")
                   ELSE SASLPlain(job[c].kind = "plain-good")
  <1>1. /\ job[c].at = "act" /\ job[c].kind \in AuthKind /\ Exchanged(c, s)
        /\ job' = [job EXCEPT ![c] = Idle]
        /\ UNCHANGED <<client, net, socket, queue, resources, generated, history, raced>>
    BY DEF SASLAuth, InWorker, AuthKind, SaslKind
  <1>2. s \in SaslState
    <2>1. (job[c].kind = "plain-good") \in BOOLEAN
      OBVIOUS
    <2>. QED
      BY <2>1, NoSaslTyped, SASLTyped, PlainTyped
  <1>. HIDE DEF s
  <1>. QED
    BY <1>1, <1>2, ExchangedKeeps

LEMMA SASLResponseKeeps ==
  ASSUME IInv, NEW c \in Conn, SASLResponse(c)
  PROVE  IInv'
  <1>. DEFINE s == IF data[c].sasl.mech = "digest" THEN SASLDigestMD5(data[c].sasl, job[c].kind)
                   ELSE data[c].sasl
  <1>1. /\ job[c].at = "act" /\ job[c].kind \in AuthKind /\ Exchanged(c, s)
        /\ job' = [job EXCEPT ![c] = Idle]
        /\ UNCHANGED <<client, net, socket, queue, resources, generated, history, raced>>
    BY DEF SASLResponse, InWorker, AuthKind, SaslKind
  <1>2. s \in SaslState
    <2>1. data[c].sasl \in SaslState
      BY TypesAt DEF IInv
    <2>. QED
      BY <2>1, SASLTyped
  <1>. HIDE DEF s
  <1>. QED
    BY <1>1, <1>2, ExchangedKeeps

LEMMA IQAuthSetKeeps ==
  ASSUME IInv, NEW c \in Conn, IQAuthSet(c)
  PROVE  IInv'
  <1>0. InputInv(c) /\ InputFunctions /\ TableFunctions
    BY DEF IInv
  <1>1. /\ client' = client /\ net' = net /\ queue' = queue
        /\ handled' = handled /\ offered' = offered /\ split' = split
        /\ socket' = socket /\ halted' = halted /\ raced' = raced /\ resources' = resources
        /\ generated' = generated /\ job[c].at = "act" /\ job[c].kind \in AuthKind
    BY DEF IQAuthSet, InWorker, AuthKind, history
  <1>2. Idle \in JobState /\ Idle.at = "idle"
    BY DEF Idle, JobState, MessageKind, Kind, Name
  <1>3. CASE job' = [job EXCEPT ![c] = Idle] /\ UNCHANGED <<data, conns, parser>>
    <2>1. data' = data /\ conns' = conns /\ parser' = parser /\ job'[c] = Idle
      BY <1>0, <1>3 DEF InputFunctions
    <2>2. OwnResource(c) => OwnResource(c)'
      BY <2>1 DEF OwnResource
    <2>3. InputInv(c)'
      BY <1>1, <1>2, <2>1, <2>2, JobStep
    <2>4. InputFunctions'
      BY <1>0, <1>1, <1>2, <1>3, <2>1 DEF InputFunctions
    <2>5. TableFunctions'
      BY <1>0, <1>1, <2>1 DEF TableFunctions
    <2>6. OnlyAt(c)
      BY <1>0, <1>1, <1>3, <2>1 DEF OnlyAt, SameAt, InputFunctions
    <2>. QED
      BY <2>3, <2>4, <2>5, <2>6, StepAt
  <1>4. CASE /\ data' = [data EXCEPT ![c].jid = TRUE] /\ Authenticated(c)
             /\ job' = [job EXCEPT ![c].at = "check"]
    <2>1. /\ data'[c] = [data[c] EXCEPT !.jid = TRUE] /\ data[c] \in DataState
          /\ job'[c] = [job[c] EXCEPT !.at = "check"] /\ job[c] \in JobState
          /\ parser' = [parser EXCEPT ![c] = ResetParser(@)]
          /\ conns' = [conns EXCEPT ![c] = "named"]
      BY <1>0, <1>4 DEF InputFunctions, Authenticated
    <2>2. /\ data'[c] \in DataState /\ data'[c].jid /\ data'[c].closing = data[c].closing
      BY <2>1 DEF DataState
    <2>3. job'[c] \in JobState /\ job'[c].at \in {"idle", "check"}
      BY <2>1 DEF JobState
    <2>4. InputInv(c)'
      BY <1>1, <2>1, <2>2, <2>3, LoggedIn
    <2>5. InputFunctions'
      <3>1. parser'[c] \in Parser
        BY <2>4 DEF InputInv, InputTyped
      <3>. QED
        BY <1>0, <1>1, <1>4, <2>1, <2>2, <2>3, <3>1 DEF InputFunctions
    <2>6. TableFunctions'
      BY <1>0, <1>1, <2>1 DEF TableFunctions
    <2>7. OnlyAt(c)
      BY <1>0, <1>1, <1>4, <2>1 DEF OnlyAt, SameAt, InputFunctions
    <2>. QED
      BY <2>4, <2>5, <2>6, <2>7, StepAt
  <1>. QED
    BY <1>3, <1>4 DEF IQAuthSet

-----------------------------------------------------------------------------
(* The main loop takes a message.                                           *)

LEMMA TakenFacts ==
  ASSUME NEW q \in Seq(Message), q # <<>>, NEW t, t = Tail(q)
  PROVE  /\ t \in Seq(Message) /\ Len(t) \in Nat /\ 1 \in 1..Len(q) /\ Head(q) = q[1]
         /\ \A i \in 1..Len(t) : i + 1 \in 1..Len(q) /\ t[i] = q[i + 1] /\ i + 1 # 1
         /\ \A i \in 1..Len(q) : i = 1 \/ (i - 1 \in 1..Len(t) /\ t[i - 1] = q[i])
         /\ \A i, j \in 1..Len(t) : (i < j => i + 1 < j + 1) /\ (i + 1 = j + 1 => i = j)
         /\ \A i \in 1..Len(t) : 1 < i + 1
  <1>1. /\ t \in Seq(Message) /\ Len(t) \in Nat /\ Len(q) \in Nat /\ Len(t) = Len(q) - 1
        /\ Head(q) = q[1] /\ \A i \in 1..Len(t) : t[i] = q[i + 1]
    OBVIOUS
  <1>2. \A i \in 1..Len(t) : i + 1 \in 1..Len(q) /\ i + 1 # 1 /\ 1 < i + 1
    BY <1>1
  <1>3. \A i \in 1..Len(q) : i = 1 \/ (i - 1 \in 1..Len(t) /\ (i - 1) + 1 = i)
    BY <1>1
  <1>4. \A i, j \in 1..Len(t) : (i < j => i + 1 < j + 1) /\ (i + 1 = j + 1 => i = j)
    BY <1>1
  <1>5. 1 \in 1..Len(q)
    <2>1. Len(q) # 0
      OBVIOUS
    <2>. QED
      BY <1>1, <2>1
  <1>. QED
    BY <1>1, <1>2, <1>3, <1>4, <1>5

(* A message leaves the queue; a request may be with its handler now.       *)
LEMMA MessageTaken ==
  ASSUME IInv, NEW c \in Conn, job[c].at = "idle", queue[c] # <<>>,
         NEW k, k = Head(queue[c]).kind, k # "end",
         queue' = [queue EXCEPT ![c] = Tail(@)],
         client' = client, net' = net, parser' = parser,
         handled' = handled, split' = split, data' = data,
         \/ job'[c].at = "idle"
         \/ k \in Kind /\ job'[c].at = "act" /\ job'[c].kind = k
         \/ k \in Kind /\ job'[c].at = "check",
         offered'[c] = offered[c]
           \/ (k = "init" /\ offered'[c] = "auth")
           \/ (k = "reinit" /\ offered'[c] = "bind" /\ data[c].sasl.complete),
         k = "reinit" /\ data[c].sasl.complete => offered'[c] = "bind"
  PROVE  InputInv(c)' /\ queue'[c] \in Seq(Message)
  <1>0. InputInv(c) /\ InputFunctions
    BY DEF IInv
  <1>. DEFINE q == queue[c]
              t == queue'[c]
  <1>1. q \in Seq(Message) /\ t = Tail(q)
    BY <1>0 DEF InputFunctions
  <1>. HIDE DEF q, t
  <1>2. /\ t \in Seq(Message) /\ Len(t) \in Nat /\ 1 \in 1..Len(q) /\ Head(q) = q[1]
        /\ \A i \in 1..Len(t) : i + 1 \in 1..Len(q) /\ t[i] = q[i + 1] /\ i + 1 # 1
        /\ \A i \in 1..Len(q) : i = 1 \/ (i - 1 \in 1..Len(t) /\ t[i - 1] = q[i])
        /\ \A i, j \in 1..Len(t) : (i < j => i + 1 < j + 1) /\ (i + 1 = j + 1 => i = j)
    BY <1>1, TakenFacts DEF q
  <1>3. q[1].kind = k
    BY <1>2 DEF q
  <1>4. job'[c].at \notin {"last", "listing"} /\ (Busy(c)' => k \in Kind)
    BY DEF Busy
  <1>5. HeaderDue(c)' = HeaderDue(c)
    BY DEF HeaderDue
  <1>11. InputTyped(c)'
    BY <1>0 DEF InputInv, InputTyped
  <1>12. InputFollowed(c)'
    BY <1>0 DEF InputInv, InputFollowed
  <1>13. OneAtATime(c)'
    <2>. SUFFICES ASSUME ~OwnResource(c)
                  PROVE  OneAtATime(c)'
      BY DEF OneAtATime, OwnResource
    <2>1. OneAtATime(c) /\ client[c].sent \in Nat /\ Len(handled[c]) \in Nat
      BY <1>0, TypesAt DEF InputInv
    <2>2. k \in Kind => \A i \in 1..Len(t) : t[i].kind \notin Kind
      BY <1>2, <1>3, <2>1 DEF OneAtATime, q
    <2>3. k \in Kind => ~(client[c].sent > Len(handled[c]))
      BY <1>2, <1>3, <2>1 DEF OneAtATime, q
    <2>4. client[c].sent > Len(handled[c]) =>
            \A i \in 1..Len(t) : t[i].kind \notin Kind
      BY <1>2, <2>1 DEF OneAtATime, q
    <2>5. \A i, j \in 1..Len(t) : t[i].kind \in Kind /\ t[j].kind \in Kind => i = j
      <3>1. ASSUME NEW i \in 1..Len(t), NEW j \in 1..Len(t),
                   t[i].kind \in Kind, t[j].kind \in Kind
            PROVE  i = j
        <4>1. /\ i + 1 \in 1..Len(q) /\ j + 1 \in 1..Len(q)
              /\ q[i + 1].kind \in Kind /\ q[j + 1].kind \in Kind
          BY <1>2, <3>1
        <4>2. i + 1 = j + 1
          BY <2>1, <4>1 DEF OneAtATime, q
        <4>. QED
          BY <4>2
      <3>. QED
        BY <3>1
    <2>6. client[c].sent <= Len(handled[c]) + 1
      BY <2>1 DEF OneAtATime
    <2>. QED
      BY <1>4, <2>2, <2>3, <2>4, <2>5, <2>6 DEF OneAtATime, t
  <1>14. Authenticating(c)'
    <2>1. Flying(c)' = Flying(c)
      BY DEF Flying
    <2>2. k \in {q[i].kind : i \in 1..Len(q)}
      BY <1>2, <1>3
    <2>3. {t[i].kind : i \in 1..Len(t)} \subseteq {q[i].kind : i \in 1..Len(q)}
      BY <1>2
    <2>4. (IF job'[c].at = "act" THEN {job'[c].kind} ELSE {}) \subseteq {k}
      OBVIOUS
    <2>5. Waiting(c)' \subseteq Waiting(c)
      BY <2>1, <2>2, <2>3, <2>4 DEF Waiting, q, t
    <2>. QED
      BY <1>0, <2>5 DEF InputInv, Authenticating
  <1>15. Headed(c)'
    <2>1. client[c].sent = 0 => ~(Busy(c)') /\ \A i \in 1..Len(t) : t[i].kind \notin Kind
      BY <1>0, <1>2, <1>3, <1>4 DEF InputInv, Headed, q
    <2>. QED
      BY <1>0, <1>5, <2>1 DEF InputInv, Headed, t
  <1>16. Restarted(c)'
    <2>1. Restarted(c)
      BY <1>0 DEF InputInv
    <2>2. \A i \in 1..Len(t) : t[i].kind = "init" => client[c].headers = 1 /\ client[c].sent = 0
      BY <1>2, <2>1 DEF Restarted, q
    <2>3. ASSUME client[c].headers = 2, client[c].end # "reset"
          PROVE  \/ TagAt(net[c], 1) = "open" /\ parser[c].stream
                 \/ \E i \in 1..Len(t) : t[i].kind = "reinit"
                 \/ offered'[c] = "bind"
      <3>1. data[c].sasl.complete /\ k # "init"
        BY <1>2, <1>3, <2>1, <2>3 DEF Restarted, q
      <3>2. CASE \E i \in 1..Len(q) : q[i].kind = "reinit"
        <4>1. PICK i \in 1..Len(q) : q[i].kind = "reinit"
          BY <3>2
        <4>2. CASE i = 1
          BY <1>3, <3>1, <4>1, <4>2
        <4>3. CASE i # 1
          BY <1>2, <4>1, <4>3
        <4>. QED
          BY <4>2, <4>3
      <3>3. CASE offered[c] = "bind"
        BY <3>1, <3>3
      <3>. QED
        BY <2>1, <2>3, <3>2, <3>3 DEF Restarted, q
    <2>. QED
      BY <1>5, <2>1, <2>2, <2>3 DEF Restarted, t
  <1>17. Ended(c)'
    <2>1. Ended(c)
      BY <1>0 DEF InputInv
    <2>2. ~data[c].closing
      <3>1. data[c].closing => q[1].kind = "end"
        BY <1>2, <2>1 DEF Ended, q
      <3>. QED
        BY <1>3, <3>1
    <2>3. \A i \in 1..Len(t) : t[i].kind = "end" => q[i + 1].kind = "end" /\ i + 1 \in 1..Len(q)
      BY <1>2
    <2>4. (\E i \in 1..Len(t) : t[i].kind = "end") => net[c] = <<>> /\ client[c].end # "no"
      BY <2>1, <2>3 DEF Ended, q
    <2>5. \A i \in 1..Len(t), j \in 1..Len(t) : i < j /\ t[i].kind = "end" => t[j].kind = "end"
      <3>1. ASSUME NEW i \in 1..Len(t), NEW j \in 1..Len(t), i < j, t[i].kind = "end"
            PROVE  t[j].kind = "end"
        <4>1. i + 1 \in 1..Len(q) /\ j + 1 \in 1..Len(q) /\ i + 1 < j + 1
          BY <1>2, <3>1
        <4>2. q[i + 1].kind = "end"
          BY <2>3, <3>1
        <4>3. q[j + 1].kind = "end"
          BY <2>1, <4>1, <4>2 DEF Ended, q
        <4>. QED
          BY <1>2, <4>3
      <3>. QED
        BY <3>1
    <2>6. (\E i \in 1..Len(q) : q[i].kind = "end") => \E i \in 1..Len(t) : t[i].kind = "end"
      <3>1. ASSUME NEW i \in 1..Len(q), q[i].kind = "end"
            PROVE  i - 1 \in 1..Len(t) /\ t[i - 1].kind = "end"
        BY <1>2, <1>3, <3>1
      <3>. QED
        BY <3>1
    <2>7. /\ client[c].end = "close" =>
               \/ TagAt(net[c], Len(net[c])) = "close" \/ parser[c].dead
               \/ \E i \in 1..Len(t) : t[i].kind = "end"
          /\ parser[c].dead /\ client[c].end # "reset" => data[c].jid
      BY <2>1, <2>2, <2>6 DEF Ended, q
    <2>. QED
      BY <1>4, <2>2, <2>4, <2>5, <2>7 DEF Ended, t
  <1>18. InputInv(c)'
    BY <1>11, <1>12, <1>13, <1>14, <1>15, <1>16, <1>17 DEF InputInv
  <1>. QED
    BY <1>2, <1>18 DEF t

(* The rest of a step that takes one.                                       *)
LEMMA TakenStep ==
  ASSUME IInv, NEW c \in Conn, NEW kinds, Takes(c, kinds), InputInv(c)',
         queue'[c] \in Seq(Message), NEW j \in JobState,
         NEW o \in {"none", "auth", "bind"},
         job' = [job EXCEPT ![c] = j], offered' = [offered EXCEPT ![c] = o],
         UNCHANGED <<client, net, socket, parser, data, tables, handled, split, halted, raced>>
  PROVE  IInv'
  <1>0. InputFunctions /\ TableFunctions
    BY DEF IInv
  <1>1. /\ client' = client /\ net' = net /\ parser' = parser /\ data' = data
        /\ handled' = handled /\ split' = split /\ socket' = socket
        /\ halted' = halted /\ raced' = raced
        /\ conns' = conns /\ resources' = resources /\ generated' = generated
        /\ queue' = [queue EXCEPT ![c] = Tail(@)]
    BY DEF tables, Takes
  <1>2. InputFunctions'
    BY <1>0, <1>1 DEF InputFunctions
  <1>3. TableFunctions'
    BY <1>0, <1>1 DEF TableFunctions
  <1>4. OnlyAt(c)
    BY <1>0, <1>1 DEF OnlyAt, SameAt, InputFunctions
  <1>. QED
    BY <1>2, <1>3, <1>4, StepAt

LEMMA InStreamInitKeeps ==
  ASSUME IInv, NEW c \in Conn, InStreamInit(c)
  PROVE  IInv'
  <1>0. InputFunctions
    BY DEF IInv
  <1>1. /\ Takes(c, {"init"}) /\ offered' = [offered EXCEPT ![c] = "auth"]
        /\ UNCHANGED <<client, net, socket, parser, job, data, tables,
                       handled, split, halted, raced>>
    BY DEF InStreamInit
  <1>2. /\ job[c].at = "idle" /\ queue[c] # <<>> /\ Head(queue[c]).kind = "init"
        /\ queue' = [queue EXCEPT ![c] = Tail(@)]
    BY <1>1 DEF Takes
  <1>3. offered'[c] = "auth" /\ job'[c].at = "idle"
    BY <1>0, <1>1, <1>2 DEF InputFunctions
  <1>4. InputInv(c)' /\ queue'[c] \in Seq(Message)
    BY <1>1, <1>2, <1>3, MessageTaken
  <1>5. job' = [job EXCEPT ![c] = job[c]] /\ job[c] \in JobState
    BY <1>0, <1>1 DEF InputFunctions
  <1>. QED
    BY <1>1, <1>4, <1>5, TakenStep

LEMMA InStreamReInitKeeps ==
  ASSUME IInv, NEW c \in Conn, InStreamReInit(c)
  PROVE  IInv'
  <1>0. InputFunctions
    BY DEF IInv
  <1>. DEFINE o == IF data[c].sasl.complete THEN "bind" ELSE offered[c]
  <1>1. /\ Takes(c, {"reinit"}) /\ offered' = [offered EXCEPT ![c] = o]
        /\ UNCHANGED <<client, net, socket, parser, job, data, tables,
                       handled, split, halted, raced>>
    BY <1>0 DEF InStreamReInit, InputFunctions
  <1>2. /\ job[c].at = "idle" /\ queue[c] # <<>> /\ Head(queue[c]).kind = "reinit"
        /\ queue' = [queue EXCEPT ![c] = Tail(@)]
    BY <1>1 DEF Takes
  <1>3. offered'[c] = o /\ job'[c].at = "idle" /\ o \in {"none", "auth", "bind"}
    BY <1>0, <1>1, <1>2 DEF InputFunctions
  <1>4. InputInv(c)' /\ queue'[c] \in Seq(Message)
    BY <1>1, <1>2, <1>3, MessageTaken
  <1>5. job' = [job EXCEPT ![c] = job[c]] /\ job[c] \in JobState
    BY <1>0, <1>1 DEF InputFunctions
  <1>. HIDE DEF o
  <1>. QED
    BY <1>1, <1>3, <1>4, <1>5, TakenStep

LEMMA AnswerKeeps ==
  ASSUME IInv, NEW c \in Conn, Answer(c)
  PROVE  IInv'
  <1>0. InputFunctions
    BY DEF IInv
  <1>1. /\ Takes(c, {"ask"})
        /\ UNCHANGED <<client, net, socket, parser, job, data, tables,
                       handled, split, halted, raced>>
        /\ offered' = offered
    BY DEF Answer, history
  <1>2. /\ job[c].at = "idle" /\ queue[c] # <<>> /\ Head(queue[c]).kind = "ask"
        /\ queue' = [queue EXCEPT ![c] = Tail(@)]
    BY <1>1 DEF Takes
  <1>3. offered'[c] = offered[c] /\ job'[c].at = "idle"
    BY <1>0, <1>1, <1>2 DEF InputFunctions
  <1>4. InputInv(c)' /\ queue'[c] \in Seq(Message)
    BY <1>1, <1>2, <1>3, MessageTaken
  <1>5. /\ job' = [job EXCEPT ![c] = job[c]] /\ job[c] \in JobState
        /\ offered' = [offered EXCEPT ![c] = offered[c]]
        /\ offered[c] \in {"none", "auth", "bind"}
    BY <1>0, <1>1 DEF InputFunctions
  <1>. QED
    BY <1>1, <1>4, <1>5, TakenStep

LEMMA StartHandlerKeeps ==
  ASSUME IInv, NEW c \in Conn, StartHandler(c)
  PROVE  IInv'
  <1>0. InputFunctions
    BY DEF IInv
  <1>. DEFINE k == Head(queue[c]).kind
              j == [Idle EXCEPT !.at = IF k \in BindKind THEN "check" ELSE "act", !.kind = k]
  <1>1. /\ Takes(c, Kind \ {"ask"}) /\ job' = [job EXCEPT ![c] = j]
        /\ UNCHANGED <<client, net, socket, parser, data, tables, handled, split, halted, raced>>
        /\ offered' = offered
    BY DEF StartHandler, history
  <1>2. /\ job[c].at = "idle" /\ queue[c] # <<>> /\ k \in Kind
        /\ queue' = [queue EXCEPT ![c] = Tail(@)]
    BY <1>1 DEF Takes
  <1>. HIDE DEF k
  <1>3. j \in JobState /\ j.at \in {"act", "check"} /\ j.kind = k
    <2>1. Idle \in JobState
      BY DEF Idle, JobState, MessageKind, Kind, Name
    <2>2. k \in MessageKind
      BY <1>2 DEF MessageKind
    <2>. HIDE DEF j
    <2>3. j = [Idle EXCEPT !.at = IF k \in BindKind THEN "check" ELSE "act", !.kind = k]
      BY DEF j
    <2>. QED
      BY <2>1, <2>2, <2>3 DEF JobState
  <1>. HIDE DEF j
  <1>4. offered'[c] = offered[c] /\ job'[c] = j /\ k # "end" /\ k # "reinit"
    BY <1>0, <1>1, <1>2, KindsDistinct DEF InputFunctions
  <1>5. InputInv(c)' /\ queue'[c] \in Seq(Message)
    BY <1>1, <1>2, <1>3, <1>4, MessageTaken DEF k
  <1>6. /\ offered' = [offered EXCEPT ![c] = offered[c]]
        /\ offered[c] \in {"none", "auth", "bind"}
    BY <1>0, <1>1 DEF InputFunctions
  <1>. QED
    BY <1>1, <1>3, <1>5, <1>6, TakenStep

-----------------------------------------------------------------------------
(* The end of a stream.                                                     *)

LEMMA ResetStreamFields ==
  ASSUME NEW p \in Parser
  PROVE  LET r == Dies(ResetStream(p))
         IN /\ r \in Parser /\ r.dead /\ ~r.quirk /\ r.over = p.over /\ r.events = p.events
            /\ r.depth = 0
  BY DEF Dies, ResetStream, Parser

LEMMA EndStep ==
  ASSUME IInv, NEW c \in Conn, net[c] = <<>>, client[c].end # "no",
         \A i \in 1..Len(queue[c]) : queue[c][i].kind = "end",
         client' = client, net' = net, handled' = handled, split' = split, offered' = offered,
         parser'[c] \in {parser[c], Dies(ResetStream(parser[c]))},
         job'[c].at \in {"idle", "last", "listing"}, queue'[c] \in Seq(Message),
         \A i \in 1..Len(queue'[c]) : queue'[c][i].kind = "end",
         data'[c].jid = data[c].jid, data'[c].resource = data[c].resource,
         data'[c].sasl = data[c].sasl, data'[c].closing
  PROVE  InputInv(c)'
  <1>0. InputInv(c) /\ InputFunctions
    BY DEF IInv
  <1>1. /\ parser[c] \in Parser /\ client[c].sent \in Nat /\ Len(handled[c]) \in Nat
    BY <1>0, TypesAt
  <1>. DEFINE p == parser[c]
              r == parser'[c]
  <1>2. /\ ~p.over /\ ~p.quirk /\ p.events = <<>>
    BY <1>0 DEF InputInv, InputTyped
  <1>3. /\ r \in Parser /\ ~r.over /\ ~r.quirk /\ r.events = <<>>
        /\ r = p \/ (r.dead /\ r.depth = 0)
    <2>1. CASE r = p
      BY <1>1, <1>2, <2>1
    <2>2. CASE r = Dies(ResetStream(p))
      BY <1>1, <1>2, <2>2, ResetStreamFields
    <2>. QED
      BY <2>1, <2>2
  <1>. HIDE DEF p, r
  <1>4. /\ ~(Busy(c)') /\ HeaderDue(c)' = HeaderDue(c) /\ OwnResource(c)' = OwnResource(c)
    BY DEF Busy, HeaderDue, OwnResource
  <1>5. Wired(<<>>) /\ Carried(<<>>) = {} /\ TagAt(<<>>, 1) = "none"
    <2>1. 1 \in Nat
      OBVIOUS
    <2>. QED
      BY <2>1, NothingSent
  <1>6. \A i \in 1..Len(queue'[c]) : queue'[c][i].kind \notin Kind \cup {"init", "reinit"}
    BY KindsDistinct
  <1>11. InputTyped(c)'
    BY <1>0, <1>3 DEF InputInv, InputTyped, r
  <1>12. InputFollowed(c)'
    <2>1. CASE r = p
      BY <1>0, <2>1 DEF InputInv, InputFollowed, r, p
    <2>2. CASE r.dead /\ r.depth = 0
      <3>1. ASSUME Tallied(<<>>, Len(handled[c]), client[c].sent)
            PROVE  Len(handled[c]) = client[c].sent
        BY <1>1, <3>1, NothingSent
      <3>2. Lost(r, "none")
        BY <2>2 DEF Lost
      <3>. QED
        BY <1>0, <1>5, <2>2, <3>1, <3>2 DEF InputInv, InputFollowed, r
    <2>. QED
      BY <1>3, <2>1, <2>2
  <1>13. OneAtATime(c)'
    BY <1>0, <1>4, <1>6 DEF InputInv, OneAtATime
  <1>14. Authenticating(c)'
    <2>1. Flying(c)' \subseteq Flying(c)
      BY <1>3 DEF Flying, Upcoming, p, r
    <2>2. Waiting(c)' \subseteq Waiting(c) \cup {"end"}
      BY <2>1 DEF Waiting
    <2>3. Authenticating(c)
      BY <1>0 DEF InputInv
    <2>. QED
      BY <2>2, <2>3, StillAuthenticating
  <1>15. Headed(c)'
    BY <1>0, <1>4, <1>5, <1>6 DEF InputInv, Headed
  <1>16. Restarted(c)'
    <2>1. Restarted(c)
      BY <1>0 DEF InputInv
    <2>2. client[c].headers = 2 => data[c].sasl.complete
      BY <2>1 DEF Restarted
    <2>3. client[c].headers = 2 /\ client[c].end # "reset" => offered[c] = "bind"
      <3>1. \A i \in 1..Len(queue[c]) : queue[c][i].kind # "reinit"
        OBVIOUS
      <3>. QED
        BY <1>5, <2>1, <3>1 DEF Restarted
    <2>. QED
      BY <1>6, <2>2, <2>3 DEF Restarted
  <1>17. Ended(c)'
    BY <1>4 DEF Ended
  <1>. QED
    BY <1>11, <1>12, <1>13, <1>14, <1>15, <1>16, <1>17 DEF InputInv

LEMMA CleanedUpFacts ==
  ASSUME IInv, NEW c \in Conn, CleanedUp(c), generated' = generated,
         halted' \subseteq Conn, raced' = raced
  PROVE  /\ TableFunctions'
         /\ \/ parser' = parser
            \/ parser' = [parser EXCEPT ![c] = Dies(ResetStream(@))]
  <1>0. InputFunctions /\ TableFunctions
    BY DEF IInv
  <1>1. CASE UNCHANGED <<resources, conns, socket, parser>>
    BY <1>0, <1>1 DEF TableFunctions
  <1>. DEFINE t == resources[UserOf[c]]
              v == Restrict(t, DOMAIN t \ {data[c].resource})
  <1>2. CASE /\ resources' = (IF OwnResource(c)
                              THEN [resources EXCEPT ![UserOf[c]] = v] ELSE resources)
             /\ conns' = [conns EXCEPT ![c] = "absent"]
             /\ socket' = [socket EXCEPT ![c] = "closed"]
             /\ parser' = [parser EXCEPT ![c] = Dies(ResetStream(@))]
    <2>1. DOMAIN v \subseteq DOMAIN t /\ \A n \in DOMAIN v : v[n] = t[n]
      BY DEF Restrict
    <2>. HIDE DEF v, t
    <2>2. DOMAIN resources' = DOMAIN resources
      BY <1>2
    <2>3. ASSUME NEW u \in DOMAIN resources'
          PROVE  /\ DOMAIN resources'[u] \subseteq Name
                 /\ \A n \in DOMAIN resources'[u] : resources'[u][n] \in Conn
      <3>1. CASE resources'[u] = resources[u]
        BY <1>0, <2>2, <3>1 DEF TableFunctions
      <3>2. CASE u = UserOf[c] /\ resources'[u] = v
        BY <1>0, <2>1, <2>2, <3>2 DEF TableFunctions, t
      <3>. QED
        BY <1>2, <2>2, <3>1, <3>2
    <2>. QED
      BY <1>0, <1>2, <2>2, <2>3 DEF TableFunctions
  <1>. QED
    BY <1>1, <1>2 DEF CleanedUp

LEMMA StreamEndKeeps ==
  ASSUME IInv, NEW c \in Conn, StreamEnd(c)
  PROVE  IInv'
  <1>0. InputInv(c) /\ InputFunctions /\ TableFunctions
    BY DEF IInv
  <1>1. /\ data' = [data EXCEPT ![c].closing = TRUE]
        /\ client' = client /\ net' = net /\ handled' = handled /\ split' = split
        /\ offered' = offered /\ halted' = halted /\ raced' = raced /\ generated' = generated
        /\ job[c].at = "idle" /\ queue[c] # <<>> /\ Head(queue[c]).kind = "end"
        /\ queue' = [queue EXCEPT ![c] = Tail(@)]
    BY DEF StreamEnd, Takes, history
  <1>. DEFINE e == [Idle EXCEPT !.at = "last", !.kind = "end"]
  <1>2. /\ \/ job' = job
           \/ job' = [job EXCEPT ![c] = e]
        /\ \/ UNCHANGED <<resources, conns, socket, parser>>
           \/ CleanedUp(c)
    <2>1. CASE data[c].closing
      BY <2>1 DEF StreamEnd
    <2>2. CASE ~data[c].closing /\ data[c].active
      BY <2>2 DEF StreamEnd
    <2>3. CASE ~data[c].closing /\ ~data[c].active
      BY <2>3 DEF StreamEnd
    <2>. QED
      BY <2>1, <2>2, <2>3
  <1>3. e \in JobState /\ e.at = "last"
    BY DEF Idle, JobState, MessageKind, Kind, Name
  <1>. HIDE DEF e
  <1>. DEFINE q == queue[c]
              t == queue'[c]
  <1>4. q \in Seq(Message) /\ t = Tail(q) /\ q # <<>>
    BY <1>0, <1>1 DEF InputFunctions
  <1>. HIDE DEF q, t
  <1>5. /\ t \in Seq(Message) /\ Len(t) \in Nat /\ 1 \in 1..Len(q) /\ Head(q) = q[1]
        /\ \A i \in 1..Len(t) : i + 1 \in 1..Len(q) /\ t[i] = q[i + 1] /\ 1 < i + 1
        /\ \A i \in 1..Len(q) : i = 1 \/ (i - 1 \in 1..Len(t) /\ t[i - 1] = q[i])
    BY <1>4, TakenFacts
  <1>6. /\ net[c] = <<>> /\ client[c].end # "no"
        /\ \A i \in 1..Len(q) : q[i].kind = "end"
        /\ \A i \in 1..Len(t) : t[i].kind = "end"
    <2>1. q[1].kind = "end" /\ Ended(c)
      BY <1>0, <1>1, <1>5 DEF InputInv, q
    <2>2. net[c] = <<>> /\ client[c].end # "no"
      BY <1>5, <2>1 DEF Ended, q
    <2>3. \A i \in 1..Len(t) : t[i].kind = "end"
      <3>1. ASSUME NEW i \in 1..Len(t)
            PROVE  q[i + 1].kind = "end"
        BY <1>5, <2>1 DEF Ended, q
      <3>. QED
        BY <1>5, <3>1
    <2>4. \A i \in 1..Len(q) : q[i].kind = "end"
      BY <1>5, <2>1, <2>3
    <2>. QED
      BY <2>2, <2>3, <2>4
  <1>7. /\ data'[c] = [data[c] EXCEPT !.closing = TRUE] /\ data[c] \in DataState
    BY <1>0, <1>1 DEF InputFunctions
  <1>8. /\ data'[c] \in DataState /\ data'[c].jid = data[c].jid
        /\ data'[c].resource = data[c].resource /\ data'[c].sasl = data[c].sasl
        /\ data'[c].closing
    BY <1>7 DEF DataState
  <1>9. job'[c] \in JobState /\ job'[c].at \in {"idle", "last", "listing"}
    <2>1. job'[c] = job[c] \/ job'[c] = e
      BY <1>0, <1>2 DEF InputFunctions
    <2>2. job[c] \in JobState
      BY <1>0 DEF InputFunctions
    <2>. QED
      BY <1>1, <1>3, <2>1, <2>2
  <1>10. /\ TableFunctions'
         /\ parser' = parser \/ parser' = [parser EXCEPT ![c] = Dies(ResetStream(@))]
    <2>1. CASE UNCHANGED <<resources, conns, socket, parser>>
      BY <1>0, <1>1, <2>1 DEF TableFunctions
    <2>2. CASE CleanedUp(c)
      <3>1. halted' \subseteq Conn
        BY <1>0, <1>1 DEF TableFunctions
      <3>. QED
        BY <1>1, <2>2, <3>1, CleanedUpFacts
    <2>. QED
      BY <1>2, <2>1, <2>2
  <1>11. InputInv(c)'
    <2>1. parser'[c] \in {parser[c], Dies(ResetStream(parser[c]))}
      BY <1>0, <1>10 DEF InputFunctions
    <2>. QED
      BY <1>1, <1>5, <1>6, <1>8, <1>9, <2>1, EndStep DEF q, t
  <1>12. InputFunctions'
    <2>1. parser' \in [Conn -> Parser]
      <3>1. parser'[c] \in Parser
        BY <1>11 DEF InputInv, InputTyped
      <3>. QED
        BY <1>0, <1>10, <3>1 DEF InputFunctions
    <2>2. job' \in [Conn -> JobState]
      BY <1>0, <1>2, <1>3 DEF InputFunctions
    <2>. QED
      BY <1>0, <1>1, <1>5, <1>8, <2>1, <2>2 DEF InputFunctions, t
  <1>13. OnlyAt(c)
    <2>1. \A d \in Conn \ {c} : parser'[d] = parser[d] /\ job'[d] = job[d]
      BY <1>0, <1>2, <1>10 DEF InputFunctions
    <2>. QED
      BY <1>0, <1>1, <2>1 DEF OnlyAt, SameAt, InputFunctions
  <1>. QED
    BY <1>10, <1>11, <1>12, <1>13, StepAt

(* A step at the end of a stream that leaves the tables typed.              *)
LEMMA LeavingStep ==
  ASSUME IInv, NEW c \in Conn, job[c].at \in {"last", "listing"}, NEW j \in JobState,
         j.at \in {"idle", "listing"}, job' = [job EXCEPT ![c] = j], TableFunctions',
         parser' = parser \/ parser' = [parser EXCEPT ![c] = Dies(ResetStream(@))],
         client' = client, net' = net, queue' = queue, data' = data,
         handled' = handled, split' = split, offered' = offered
  PROVE  IInv'
  <1>0. InputInv(c) /\ InputFunctions
    BY DEF IInv
  <1>1. job'[c] = j
    BY <1>0 DEF InputFunctions
  <1>2. /\ data[c].closing /\ net[c] = <<>> /\ client[c].end # "no"
        /\ \A i \in 1..Len(queue[c]) : queue[c][i].kind = "end"
    <2>1. Ended(c)
      BY <1>0 DEF InputInv
    <2>2. data[c].closing
      BY <2>1 DEF Ended
    <2>. QED
      BY <2>1, <2>2 DEF Ended
  <1>3. InputInv(c)'
    <2>1. parser'[c] \in {parser[c], Dies(ResetStream(parser[c]))}
      BY <1>0 DEF InputFunctions
    <2>2. queue'[c] \in Seq(Message) /\ job'[c].at \in {"idle", "last", "listing"}
      BY <1>0, <1>1 DEF InputFunctions
    <2>. QED
      BY <1>2, <2>1, <2>2, EndStep
  <1>4. InputFunctions'
    <2>1. parser' \in [Conn -> Parser]
      <3>1. parser'[c] \in Parser
        BY <1>3 DEF InputInv, InputTyped
      <3>. QED
        BY <1>0, <3>1 DEF InputFunctions
    <2>. QED
      BY <1>0, <2>1 DEF InputFunctions
  <1>5. OnlyAt(c)
    <2>1. \A d \in Conn \ {c} : parser'[d] = parser[d] /\ job'[d] = job[d]
      BY <1>0 DEF InputFunctions
    <2>. QED
      BY <1>0, <2>1 DEF OnlyAt, SameAt, InputFunctions
  <1>. QED
    BY <1>3, <1>4, <1>5, StepAt

LEMMA IdleTyped == Idle \in JobState /\ Idle.at = "idle"
  BY DEF Idle, JobState, MessageKind, Kind, Name

LEMMA LastPresenceKeeps ==
  ASSUME IInv, NEW c \in Conn, LastPresence(c)
  PROVE  IInv'
  <1>0. InputFunctions /\ TableFunctions
    BY DEF IInv
  <1>1. /\ job[c].at = "last" /\ client' = client /\ net' = net /\ parser' = parser
        /\ queue' = queue /\ data' = data /\ socket' = socket /\ conns' = conns
        /\ resources' = resources /\ generated' = generated /\ raced' = raced
        /\ handled' = handled /\ split' = split /\ offered' = offered
    BY DEF LastPresence, tables
  <1>2. CASE UserOf[c] \notin DOMAIN resources
    <2>1. job' = [job EXCEPT ![c] = Idle] /\ halted' = halted \cup {c}
      BY <1>2 DEF LastPresence, Halts
    <2>2. TableFunctions'
      BY <1>0, <1>1, <2>1 DEF TableFunctions
    <2>. QED
      BY <1>1, <2>1, <2>2, IdleTyped, LeavingStep
  <1>3. CASE UserOf[c] \in DOMAIN resources
    <2>. DEFINE d == DOMAIN resources[UserOf[c]]
                j == [job[c] EXCEPT !.at = "listing", !.seen = d]
    <2>1. job' = [job EXCEPT ![c].at = "listing", ![c].seen = d] /\ halted' = halted
      BY <1>3 DEF LastPresence
    <2>2. job[c] \in JobState /\ d \in SUBSET Name
      BY <1>0, <1>3 DEF InputFunctions, TableFunctions
    <2>. HIDE DEF d
    <2>3. j \in JobState /\ j.at = "listing"
      BY <2>2 DEF JobState
    <2>4. job' = [job EXCEPT ![c] = j]
      BY <1>0, <2>1 DEF InputFunctions
    <2>5. TableFunctions'
      BY <1>0, <1>1, <2>1 DEF TableFunctions
    <2>. HIDE DEF j
    <2>. QED
      BY <1>1, <2>3, <2>4, <2>5, LeavingStep
  <1>. QED
    BY <1>2, <1>3

LEMMA LastPresenceRaisesKeeps ==
  ASSUME IInv, NEW c \in Conn, LastPresenceRaises(c)
  PROVE  IInv'
  <1>1. /\ job[c].at = "listing" /\ job' = [job EXCEPT ![c] = Idle]
        /\ halted' = halted \cup {c} /\ client' = client /\ net' = net /\ parser' = parser
        /\ queue' = queue /\ data' = data /\ socket' = socket /\ conns' = conns
        /\ resources' = resources /\ generated' = generated /\ raced' = raced
        /\ handled' = handled /\ split' = split /\ offered' = offered
    BY DEF LastPresenceRaises, Halts, tables
  <1>2. TableFunctions'
    BY <1>1 DEF IInv, TableFunctions
  <1>. QED
    BY <1>1, <1>2, IdleTyped, LeavingStep

LEMMA CleanUpKeeps ==
  ASSUME IInv, NEW c \in Conn, CleanUp(c)
  PROVE  IInv'
  <1>0. TableFunctions
    BY DEF IInv
  <1>1. /\ job[c].at = "listing" /\ job' = [job EXCEPT ![c] = Idle]
        /\ client' = client /\ net' = net /\ queue' = queue /\ data' = data
        /\ handled' = handled /\ split' = split /\ offered' = offered
        /\ raced' = raced /\ generated' = generated /\ halted' \subseteq halted \cup {c}
        /\ CleanedUp(c) \/ UNCHANGED <<resources, conns, socket, parser>>
    BY DEF CleanUp, Halts
  <1>2. halted' \subseteq Conn
    BY <1>0, <1>1 DEF TableFunctions
  <1>3. /\ TableFunctions'
        /\ parser' = parser \/ parser' = [parser EXCEPT ![c] = Dies(ResetStream(@))]
    <2>1. CASE CleanedUp(c)
      BY <1>1, <1>2, <2>1, CleanedUpFacts
    <2>2. CASE UNCHANGED <<resources, conns, socket, parser>>
      BY <1>0, <1>1, <1>2, <2>2 DEF TableFunctions
    <2>. QED
      BY <1>1, <2>1, <2>2
  <1>. QED
    BY <1>1, <1>3, IdleTyped, LeavingStep

(* The end of the input is found at a poll.                                 *)
LEMMA ReadEndKeeps ==
  ASSUME IInv, NEW c \in Conn, ReadEnd(c)
  PROVE  IInv'
  <1>0. InputInv(c) /\ InputFunctions /\ TableFunctions
    BY DEF IInv
  <1>1. /\ client' = client /\ net' = net /\ handled' = handled /\ split' = split
        /\ offered' = offered /\ halted' = halted /\ raced' = raced
        /\ tables' = tables /\ socket' = socket
        /\ data' = data /\ job' = job /\ parser' = parser
        /\ client[c].end = "eof" /\ net[c] = <<>> /\ ~data[c].closing
        /\ queue' = [queue EXCEPT ![c] = Append(@, [kind |-> "end"])]
    BY DEF ReadEnd, history
  <1>. DEFINE q == queue[c]
              t == queue'[c]
              e == [kind |-> "end"]
  <1>2. q \in Seq(Message) /\ t = Append(q, e) /\ e \in Message /\ e.kind = "end"
    BY <1>0, <1>1 DEF InputFunctions, Message, MessageKind
  <1>. HIDE DEF q, t, e
  <1>3. /\ t \in Seq(Message) /\ Len(q) \in Nat /\ Len(t) = Len(q) + 1
        /\ \A i \in 1..Len(q) : i \in 1..Len(t) /\ t[i] = q[i]
        /\ t[Len(t)] = e
        /\ \A i \in 1..Len(t) : i \in 1..Len(q) \/ i = Len(t)
    BY <1>2, Appended
  <1>4. \A i \in 1..Len(t) : t[i].kind # "end" => i \in 1..Len(q) /\ t[i] = q[i]
    BY <1>2, <1>3
  <1>5. \A i \in 1..Len(t) : t[i].kind \in Kind \cup {"init"} => i \in 1..Len(q) /\ t[i] = q[i]
    BY <1>4, KindsDistinct
  <1>11. InputTyped(c)'
    BY <1>0, <1>1 DEF InputInv, InputTyped
  <1>12. InputFollowed(c)'
    BY <1>0, <1>1 DEF InputInv, InputFollowed
  <1>13. OneAtATime(c)'
    <2>1. OneAtATime(c)
      BY <1>0 DEF InputInv
    <2>. QED
      BY <1>1, <1>5, <2>1 DEF OneAtATime, OwnResource, Busy, q, t
  <1>14. Authenticating(c)'
    <2>1. Flying(c)' = Flying(c)
      BY <1>1 DEF Flying
    <2>2. {t[i].kind : i \in 1..Len(t)} \subseteq {q[i].kind : i \in 1..Len(q)} \cup {"end"}
      BY <1>4
    <2>3. Waiting(c)' \subseteq Waiting(c) \cup {"end"}
      BY <1>1, <2>1, <2>2 DEF Waiting, q, t
    <2>4. Authenticating(c)
      BY <1>0 DEF InputInv
    <2>. QED
      BY <1>1, <2>3, <2>4, StillAuthenticating
  <1>15. Headed(c)'
    BY <1>0, <1>1, <1>5 DEF InputInv, Headed, HeaderDue, Busy, q, t
  <1>16. Restarted(c)'
    <2>1. Restarted(c)
      BY <1>0 DEF InputInv
    <2>2. (\E i \in 1..Len(q) : q[i].kind = "reinit") => \E i \in 1..Len(t) : t[i].kind = "reinit"
      BY <1>3
    <2>. QED
      BY <1>1, <1>5, <2>1, <2>2 DEF Restarted, HeaderDue, q, t
  <1>17. Ended(c)'
    <2>1. Ended(c)
      BY <1>0 DEF InputInv
    <2>2. \A i \in 1..Len(t), j \in 1..Len(t) : i < j /\ t[i].kind = "end" => t[j].kind = "end"
      <3>1. ASSUME NEW i \in 1..Len(t), NEW j \in 1..Len(t), i < j, t[i].kind = "end",
                   t[j].kind # "end"
            PROVE  FALSE
        <4>1. j \in 1..Len(q) /\ t[j] = q[j]
          BY <1>4, <3>1
        <4>2. i \in 1..Len(q)
          BY <1>3, <3>1, <4>1
        <4>3. t[i] = q[i]
          BY <1>3, <4>2
        <4>. QED
          BY <2>1, <3>1, <4>1, <4>2, <4>3 DEF Ended, q
      <3>. QED
        BY <3>1
    <2>. QED
      BY <1>1, <2>1, <2>2 DEF Ended, Busy, t
  <1>18. InputInv(c)'
    BY <1>11, <1>12, <1>13, <1>14, <1>15, <1>16, <1>17 DEF InputInv
  <1>19. InputFunctions'
    BY <1>0, <1>1, <1>3 DEF InputFunctions, t
  <1>20. TableFunctions'
    BY <1>0, <1>1 DEF TableFunctions, tables
  <1>21. OnlyAt(c)
    BY <1>0, <1>1 DEF OnlyAt, SameAt, InputFunctions
  <1>. QED
    BY <1>18, <1>19, <1>20, <1>21, StepAt

-----------------------------------------------------------------------------
(* The main loop reads.                                                     *)

(* What has been read is not a header that is due, and no header is left.   *)
Reading(c, w, x, n) ==
  /\ Wired(w) /\ Wired(x) /\ w # <<>> /\ client[c].end # "reset"
  /\ ~data[c].closing /\ \A i \in 1..Len(queue[c]) : queue[c][i].kind # "end"
  /\ job[c].at \notin {"last", "listing"} /\ client[c].headers # 0
  /\ client[c].end = "no" => ~HeaderDue(c)
  /\ TagAt(x, 1) = TagAt(w, n + 1) /\ TagAt(x, 1) # "open"
  /\ Carried(x) \subseteq Carried(w)
  /\ n = Len(w) => x = <<>> /\ TagAt(w, n + 1) = "none"
  /\ n # Len(w) => TagAt(x, Len(x)) = TagAt(w, Len(w))
  /\ client[c].end = "no" => TagAt(x, Len(x)) # "close" /\ TagAt(w, Len(w)) # "close"

LEMMA ReadingFacts ==
  ASSUME IInv, NEW c \in Conn, NEW w, w = net[c], NEW n \in 1..Len(w), NEW x, x = Rest(w, n)
  PROVE  Reading(c, w, x, n)
  <1>1. InputInv(c)
    BY DEF IInv
  <1>2. Wired(w) /\ (client[c].end = "no" => TagAt(w, Len(w)) # "close")
    BY <1>1 DEF InputInv, InputTyped
  <1>3. w # <<>> /\ 1 \in 1..Len(w) /\ Len(w) \in Nat
    <2>1. w \in Seq(Symbol)
      BY <1>2 DEF Wired
    <2>2. 1 \in 1..Len(w)
      BY <2>1
    <2>. QED
      BY <2>1, <2>2
  <1>4. client[c].end # "reset"
    BY <1>1, <1>3 DEF InputInv, InputFollowed
  <1>5. /\ ~data[c].closing /\ \A i \in 1..Len(queue[c]) : queue[c][i].kind # "end"
        /\ job[c].at \notin {"last", "listing"}
    BY <1>1, <1>3 DEF InputInv, Ended
  <1>6. client[c].headers # 0 /\ (client[c].end = "no" => ~HeaderDue(c))
    BY <1>1, <1>3 DEF InputInv, Headed
  <1>7. /\ Wired(x) /\ TagAt(x, 1) = TagAt(w, n + 1)
        /\ TagAt(x, Len(x)) \in {"none", TagAt(w, Len(w))}
        /\ Carried(x) \subseteq Carried(w)
        /\ n = Len(w) => x = <<>>
        /\ n # Len(w) => TagAt(x, Len(x)) = TagAt(w, Len(w))
    BY <1>2, WiredRest
  <1>8. n = Len(w) => TagAt(w, n + 1) = "none"
    BY <1>2, NextTag
  <1>9. TagAt(w, n + 1) # "open"
    <2>. DEFINE k == n + 1
    <2>1. k \in 1..Len(w) \/ n = Len(w)
      BY <1>3
    <2>2. k # 1
      OBVIOUS
    <2>. HIDE DEF k
    <2>3. CASE k \in 1..Len(w)
      BY <1>2, <2>2, <2>3, NextTag DEF k
    <2>4. CASE n = Len(w)
      BY <1>8, <2>4
    <2>. QED
      BY <2>1, <2>3, <2>4 DEF k
  <1>. QED
    BY <1>2, <1>3, <1>4, <1>5, <1>6, <1>7, <1>8, <1>9 DEF Reading

(* A chunk of which nothing comes: what is lost, or the end of no stream.   *)
LEMMA SilentRead ==
  ASSUME IInv, NEW c \in Conn, NEW n \in 1..Len(net[c]), net'[c] = Rest(net[c], n),
         NEW r \in Parser, parser'[c] = r, ~r.over, ~r.quirk, r.events = <<>>, ~Fresh(r),
         r.depth = 2 => parser[c].depth = 2 /\ r.tree = parser[c].tree, TagAt(net[c], 1) # "open",
         client' = client, queue'[c] = queue[c], handled'[c] = handled[c], job' = job,
         data' = data, offered' = offered, InputFollowed(c)', data[c].jid,
         parser[c].dead => r.dead, n = Len(net[c]) => r.dead
  PROVE  InputInv(c)'
  <1>0. InputInv(c)
    BY DEF IInv
  <1>. DEFINE w == net[c]
              x == net'[c]
  <1>1. w = net[c] /\ x = Rest(w, n) /\ n \in 1..Len(w) /\ IInv /\ c \in Conn
    OBVIOUS
  <1>. HIDE DEF w, x
  <1>2. /\ Wired(w) /\ Wired(x) /\ w # <<>> /\ client[c].end # "reset"
        /\ ~data[c].closing /\ \A i \in 1..Len(queue[c]) : queue[c][i].kind # "end"
        /\ job[c].at \notin {"last", "listing"} /\ client[c].headers # 0
        /\ client[c].end = "no" => ~HeaderDue(c)
        /\ TagAt(x, 1) # "open" /\ Carried(x) \subseteq Carried(w)
        /\ client[c].end = "no" => TagAt(x, Len(x)) # "close"
        /\ n # Len(w) => TagAt(x, Len(x)) = TagAt(w, Len(w))
    <2>1. Reading(c, w, x, n)
      BY ONLY <1>1, ReadingFacts
    <2>. QED
      BY <2>1 DEF Reading
  <1>3. HeaderDue(c)' = HeaderDue(c) /\ Busy(c)' = Busy(c) /\ OwnResource(c)' = OwnResource(c)
    BY DEF HeaderDue, Busy, OwnResource
  <1>11. InputTyped(c)'
    BY <1>0, <1>2 DEF InputInv, InputTyped, x
  <1>13. OneAtATime(c)'
    BY <1>0, <1>3 DEF InputInv, OneAtATime
  <1>14. Authenticating(c)'
    <2>1. Upcoming(r, x) \subseteq Upcoming(parser[c], w)
      BY <1>2 DEF Upcoming
    <2>2. Flying(c)' \subseteq Flying(c)
      BY <1>2, <2>1 DEF Flying, w, x
    <2>3. Waiting(c)' \subseteq Waiting(c)
      BY <2>2 DEF Waiting
    <2>. QED
      BY <1>0, <2>3 DEF InputInv, Authenticating
  <1>15. Headed(c)'
    BY <1>0, <1>2, <1>3 DEF InputInv, Headed, x
  <1>16. Restarted(c)'
    BY <1>0, <1>2, <1>3 DEF InputInv, Restarted, x, w
  <1>17. Ended(c)'
    <2>1. client[c].end = "close" => TagAt(w, Len(w)) = "close" \/ parser[c].dead
      BY <1>0, <1>2 DEF InputInv, Ended, w
    <2>2. client[c].end = "close" => TagAt(x, Len(x)) = "close" \/ parser'[c].dead
      BY <1>2, <2>1 DEF w
    <2>. QED
      BY <1>2, <1>3, <2>2 DEF Ended, x
  <1>. QED
    BY <1>0, <1>11, <1>13, <1>14, <1>15, <1>16, <1>17 DEF InputInv

(* t is k behind q.                                                         *)
PutTogether(t, q, k) ==
  /\ \A i \in 1..Len(q) : i \in 1..Len(t) /\ t[i] = q[i]
  /\ \A i \in 1..Len(k) : Len(q) + i \in 1..Len(t) /\ t[Len(q) + i] = k[i]
  /\ \A i \in 1..Len(t) :
       \/ i \in 1..Len(q) /\ t[i] = q[i]
       \/ \E m \in 1..Len(k) : i = Len(q) + m /\ t[i] = k[m]

LEMMA Behind ==
  ASSUME NEW S, NEW q \in Seq(S), NEW k \in Seq(S), NEW t, t = q \o k
  PROVE  t \in Seq(S) /\ Len(q) \in Nat /\ Len(k) \in Nat /\ PutTogether(t, q, k)
  <1>1. /\ t \in Seq(S) /\ Len(t) = Len(q) + Len(k) /\ Len(q) \in Nat /\ Len(k) \in Nat
        /\ \A i \in 1..Len(q) : t[i] = q[i]
        /\ \A i \in 1..Len(t) : ~(i <= Len(q)) =>
              i - Len(q) \in 1..Len(k) /\ t[i] = k[i - Len(q)]
    BY Joined
  <1>2. \A i \in 1..Len(q) : i \in 1..Len(t)
    BY <1>1
  <1>3. ASSUME NEW i \in 1..Len(k)
        PROVE  Len(q) + i \in 1..Len(t) /\ t[Len(q) + i] = k[i]
    <2>. DEFINE j == Len(q) + i
    <2>1. j \in 1..Len(t) /\ ~(j <= Len(q)) /\ j - Len(q) = i
      BY <1>1
    <2>. HIDE DEF j
    <2>2. t[j] = k[i]
      BY <1>1, <2>1
    <2>. QED
      BY <2>1, <2>2 DEF j
  <1>4. ASSUME NEW i \in 1..Len(t)
        PROVE  \/ i \in 1..Len(q) /\ t[i] = q[i]
               \/ \E m \in 1..Len(k) : i = Len(q) + m /\ t[i] = k[m]
    <2>1. CASE i <= Len(q)
      <3>1. i \in 1..Len(q)
        BY <1>1, <2>1
      <3>. QED
        BY <1>1, <3>1
    <2>2. CASE ~(i <= Len(q))
      <3>. DEFINE m == i - Len(q)
      <3>1. m \in 1..Len(k) /\ t[i] = k[m]
        BY <1>1, <2>2
      <3>2. i = Len(q) + m
        BY <1>1
      <3>. HIDE DEF m
      <3>. QED
        BY <3>1, <3>2
    <2>. QED
      BY <2>1, <2>2
  <1>5. \A i \in 1..Len(q) : i \in 1..Len(t) /\ t[i] = q[i]
    BY <1>1, <1>2
  <1>. QED
    BY <1>1, <1>3, <1>4, <1>5 DEF PutTogether

(* Numbers that continue numbers.                                           *)
LEMMA NumbersContinue ==
  ASSUME NEW s \in Seq(Nat), \A i \in 1..Len(s) : s[i] = i, NEW n \in Nat, Len(s) <= n,
         NEW t, t = s \o Numbering(Len(s), n)
  PROVE  t \in Seq(Nat) /\ Len(t) = n /\ \A i \in 1..Len(t) : t[i] = i
  <1>. DEFINE k == Numbering(Len(s), n)
  <1>1. /\ k \in Seq(Nat) /\ Len(k) = n - Len(s) /\ \A i \in 1..Len(k) : k[i] = Len(s) + i
    <2>1. Len(s) \in Nat /\ n - Len(s) \in Nat
      OBVIOUS
    <2>2. \A i \in 1..(n - Len(s)) : Len(s) + i \in Nat
      BY <2>1
    <2>. QED
      BY <2>1, <2>2 DEF Numbering
  <1>. HIDE DEF k
  <1>2. t = s \o k
    BY DEF k
  <1>3. /\ t \in Seq(Nat)
        /\ \A i \in 1..Len(t) :
              \/ i \in 1..Len(s) /\ t[i] = s[i]
              \/ \E m \in 1..Len(k) : i = Len(s) + m /\ t[i] = k[m]
    BY <1>1, <1>2, Behind DEF PutTogether
  <1>4. Len(t) = n
    BY <1>1, <1>2
  <1>5. ASSUME NEW i \in 1..Len(t)
        PROVE  t[i] = i
    BY <1>1, <1>3
  <1>. QED
    BY <1>3, <1>4, <1>5

LEMMA Emptied ==
  ASSUME NEW r, GoodParser(r), NEW p, p = [r EXCEPT !.events = <<>>]
  PROVE  /\ p \in Parser /\ p.events = <<>> /\ p.root = r.root /\ p.open = r.open
         /\ p.cut = r.cut /\ p.dead = r.dead /\ p.depth = r.depth /\ p.stream = r.stream
         /\ p.tree = r.tree /\ p.quirk = r.quirk /\ p.over = r.over
  <1>1. <<>> \in Seq(Event) /\ r \in Parser
    BY DEF GoodParser
  <1>. QED
    BY <1>1 DEF Parser

LEMMA SamePlace ==
  ASSUME NEW r, GoodParser(r), NEW p, p = [r EXCEPT !.events = <<>>], NEW tag, NEW h
  PROVE  /\ Follows(p, tag, h) <=> Follows(r, tag, h)
         /\ Fresh(p) <=> Fresh(r)
         /\ Torn(p) <=> Torn(r)
         /\ Lost(p, tag) <=> Lost(r, tag)
  <1>1. /\ p.root = r.root /\ p.open = r.open /\ p.cut = r.cut /\ p.dead = r.dead
        /\ p.depth = r.depth /\ p.stream = r.stream /\ p.tree = r.tree /\ p.quirk = r.quirk
    BY Emptied
  <1>. QED
    BY <1>1 DEF Follows, Between, InTag, InBody, Inside, Alive, Fresh, Torn, Lost

(* Message k is about the event.                                            *)
KindOf(event) == IF event.kind = "stanza" THEN event.stanza.kind ELSE event.kind

MessagesOf(k, events) ==
  /\ k \in Seq(Message) /\ Len(k) = Len(events)
  /\ \A i \in 1..Len(k) : k[i].kind = KindOf(events[i])

(* The messages that the first n symbols make.                              *)
MessagesFit(k, p, w, h, m, n) ==
  /\ \A i \in 1..Len(k) :
       \/ k[i].kind \in Kind /\ (\E s \in Upcoming(p, w) : k[i].kind = s.kind) /\ h < m
       \/ k[i].kind = HeaderKind(p) /\ TagAt(w, 1) = "open"
       \/ k[i].kind = "end" /\ n = Len(w) /\ TagAt(w, n) = "close" /\ i = Len(k)
  /\ m <= h + 1 => \A i, j \in 1..Len(k) :
       k[i].kind \in Kind /\ k[j].kind \in Kind => i = j
  /\ TagAt(w, 1) = "open" => \E i \in 1..Len(k) : k[i].kind = HeaderKind(p)
  /\ TagAt(w, n) = "close" => \E i \in 1..Len(k) : k[i].kind = "end"

LEMMA MadeMessages ==
  ASSUME NEW p, p.stream \in BOOLEAN, NEW w, NEW n \in Nat \ {0}, NEW h \in Nat, NEW m \in Nat,
         NEW events, Made(events, p, w, h, m, n), NEW k, MessagesOf(k, events)
  PROVE  MessagesFit(k, p, w, h, m, n)
  <1>1. /\ events \in Seq(GoodEvent)
        /\ \A i \in 1..Len(events) :
             \/ /\ events[i].kind = "stanza" /\ events[i].stanza \in Upcoming(p, w)
                /\ events[i].stanza.no \in (h + 1)..m
             \/ events[i].kind = HeaderKind(p) /\ TagAt(w, 1) = "open" /\ Fresh(p)
             \/ events[i].kind = "end" /\ n = Len(w) /\ TagAt(w, n) = "close" /\ i = Len(events)
        /\ \A i \in 1..Len(events), j \in 1..Len(events) :
             i < j /\ events[i].kind = "stanza" /\ events[j].kind = "stanza" =>
               events[i].stanza.no < events[j].stanza.no
        /\ TagAt(w, 1) = "open" =>
             \E i \in 1..Len(events) : events[i].kind = HeaderKind(p)
        /\ TagAt(w, n) = "close" => \E i \in 1..Len(events) : events[i].kind = "end"
    BY DEF Made
  <1>2. /\ k \in Seq(Message) /\ Len(k) = Len(events) /\ Len(k) \in Nat
        /\ \A i \in 1..Len(k) : k[i].kind = KindOf(events[i])
    BY DEF MessagesOf
  <1>3. HeaderKind(p) \in {"init", "reinit"}
    BY DEF HeaderKind
  <1>4. \A s \in Upcoming(p, w) : s.kind \in Kind
    BY DEF Upcoming, Stanza
  <1>5. ASSUME NEW i \in 1..Len(k)
        PROVE  /\ \/ /\ events[i].kind = "stanza" /\ events[i].stanza.no \in (h + 1)..m
                     /\ k[i].kind \in Kind /\ (\E s \in Upcoming(p, w) : k[i].kind = s.kind)
                     /\ h < m
                  \/ k[i].kind = HeaderKind(p) /\ TagAt(w, 1) = "open"
                  \/ k[i].kind = "end" /\ n = Len(w) /\ TagAt(w, n) = "close" /\ i = Len(k)
               /\ events[i].kind = HeaderKind(p) => k[i].kind = HeaderKind(p)
    <2>1. i \in 1..Len(events) /\ k[i].kind = KindOf(events[i])
      BY <1>2
    <2>2. events[i].kind = HeaderKind(p) => k[i].kind = HeaderKind(p)
      BY <1>3, <2>1 DEF KindOf
    <2>3. CASE /\ events[i].kind = "stanza" /\ events[i].stanza \in Upcoming(p, w)
               /\ events[i].stanza.no \in (h + 1)..m
      <3>1. k[i].kind = events[i].stanza.kind
        BY <2>1, <2>3 DEF KindOf
      <3>2. k[i].kind \in Kind /\ (\E s \in Upcoming(p, w) : k[i].kind = s.kind)
        BY <1>4, <2>3, <3>1
      <3>3. h < m
        BY <2>3
      <3>. QED
        BY <2>2, <2>3, <3>2, <3>3
    <2>4. CASE events[i].kind = HeaderKind(p) /\ TagAt(w, 1) = "open"
      BY <2>2, <2>4
    <2>5. CASE events[i].kind = "end" /\ n = Len(w) /\ TagAt(w, n) = "close" /\ i = Len(events)
      BY <1>2, <2>1, <2>2, <2>5 DEF KindOf
    <2>. QED
      BY <1>1, <2>1, <2>3, <2>4, <2>5
  <1>6. ASSUME m <= h + 1, NEW i \in 1..Len(k), NEW j \in 1..Len(k),
               k[i].kind \in Kind, k[j].kind \in Kind
        PROVE  i = j
    <2>1. /\ events[i].kind = "stanza" /\ events[i].stanza.no \in (h + 1)..m
          /\ events[j].kind = "stanza" /\ events[j].stanza.no \in (h + 1)..m
      BY <1>3, <1>5, <1>6, KindsDistinct
    <2>2. events[i].stanza.no = events[j].stanza.no /\ events[i].stanza.no \in Nat
      BY ONLY m \in Nat, h \in Nat, m <= h + 1, <2>1
    <2>3. ~(events[i].stanza.no < events[j].stanza.no)
      BY <2>2
    <2>4. ~(events[j].stanza.no < events[i].stanza.no)
      BY <2>2
    <2>5. ~(i < j) /\ ~(j < i)
      BY <1>1, <1>2, <2>1, <2>3, <2>4
    <2>. QED
      BY <2>5
  <1>7. TagAt(w, 1) = "open" => \E i \in 1..Len(k) : k[i].kind = HeaderKind(p)
    BY <1>1, <1>2, <1>5
  <1>8. TagAt(w, n) = "close" => \E i \in 1..Len(k) : k[i].kind = "end"
    BY <1>1, <1>2 DEF KindOf
  <1>. QED
    BY <1>5, <1>6, <1>7, <1>8 DEF MessagesFit

(* What a chunk that is in the stream does to the connection.               *)
ReadsLive(c, n, f, r, k) ==
  /\ net'[c] = Rest(net[c], n)
  /\ Tally(f, net[c], Len(handled[c])) /\ f[Len(net[c])] = client[c].sent
  /\ \A i \in 0..Len(net[c]) : f[i] <= client[c].sent
  /\ FedTo(r, parser[c], net[c], f, Len(handled[c]), n)
  /\ parser'[c] = [r EXCEPT !.events = <<>>]
  /\ MessagesOf(k, r.events)
  /\ queue'[c] = queue[c] \o k /\ handled'[c] = handled[c] \o Numbers(r.events)
  /\ ~split'[c] /\ ~parser[c].dead
  /\ client' = client /\ data' = data /\ job' = job /\ offered' = offered

LEMMA LiveInput ==
  ASSUME IInv, NEW c \in Conn, NEW n \in 1..Len(net[c]), NEW f, NEW r, NEW k,
         ReadsLive(c, n, f, r, k)
  PROVE  /\ InputTyped(c)' /\ InputFollowed(c)'
         /\ Len(handled[c])' = f[n] /\ f[n] \in Nat /\ f[n] <= client[c].sent
         /\ Len(handled[c]) <= f[n] /\ Flying(c)' \subseteq Flying(c)
         /\ Fresh(parser'[c]) => TagAt(net[c], n) = "close" /\ n = Len(net[c])
         /\ ~parser'[c].dead
  <1>0. InputInv(c) /\ InputFunctions
    BY DEF IInv
  <1>. DEFINE w == net[c]
              x == net'[c]
              p == parser[c]
              q == parser'[c]
              h == Len(handled[c])
              sent == client[c].sent
  <1>1. /\ w = net[c] /\ x = Rest(w, n) /\ n \in 1..Len(w) /\ IInv /\ c \in Conn
        /\ Tally(f, w, h) /\ f[Len(w)] = sent /\ \A i \in 0..Len(w) : f[i] <= sent
        /\ FedTo(r, p, w, f, h, n) /\ q = [r EXCEPT !.events = <<>>]
        /\ handled'[c] = handled[c] \o Numbers(r.events) /\ ~split'[c]
        /\ client' = client
    BY DEF ReadsLive
  <1>2. /\ handled[c] \in Seq(Nat) /\ h \in Nat /\ sent \in Nat /\ Len(w) \in Nat
        /\ \A i \in 1..h : handled[c][i] = i
    <2>1. handled[c] \in Seq(Nat) /\ net[c] \in Seq(Symbol) /\ sent \in Nat
      BY <1>0, TypesAt
    <2>. QED
      BY <1>0, <2>1 DEF InputInv, InputTyped
  <1>. HIDE DEF w, x, p, q, h, sent
  <1>a. Reading(c, w, x, n)
    BY ONLY <1>1, ReadingFacts
  <1>3. Wired(w) /\ Wired(x) /\ w # <<>>
    BY <1>a DEF Reading
  <1>4. TagAt(x, 1) = TagAt(w, n + 1)
    BY <1>a DEF Reading
  <1>5. (n = Len(w) => TagAt(w, n + 1) = "none") /\ Carried(x) \subseteq Carried(w)
    <2>1. n = Len(w) => TagAt(w, n + 1) = "none"
      BY <1>a DEF Reading
    <2>2. Carried(x) \subseteq Carried(w)
      BY <1>a DEF Reading
    <2>. QED
      BY <2>1, <2>2
  <1>6. client[c].end # "reset" /\ (client[c].end = "no" => TagAt(x, Len(x)) # "close")
    BY <1>a DEF Reading
  <1>7. /\ \/ Follows(r, TagAt(w, n + 1), f[n])
           \/ Fresh(r) /\ n = Len(w) /\ TagAt(w, n) = "close"
        /\ Made(r.events, p, w, h, f[n], n)
    BY <1>1 DEF FedTo
  <1>8. GoodParser(r) /\ ~r.over /\ (r.depth = 2 => r.tree \in Upcoming(p, w))
    BY <1>1 DEF FedTo
  <1>9. /\ q \in Parser /\ q.events = <<>> /\ q.depth = r.depth /\ q.tree = r.tree
        /\ ~q.over /\ q.quirk = r.quirk
    BY <1>1, <1>8, Emptied
  <1>10. /\ Follows(q, TagAt(w, n + 1), f[n]) <=> Follows(r, TagAt(w, n + 1), f[n])
         /\ Fresh(q) <=> Fresh(r)
    BY <1>1, <1>8, SamePlace
  <1>11. ~q.quirk
    BY <1>7, <1>9 DEF Follows, Fresh, Between, InTag, InBody, Inside, Alive
  <1>12. /\ f[n] \in Nat /\ h <= f[n] /\ f[n] <= sent /\ Numbers(r.events) = Numbering(h, f[n])
    <2>1. f[n] \in Nat /\ h <= f[n] /\ Numbers(r.events) = Numbering(h, f[n])
      BY <1>7 DEF Made
    <2>2. n \in 0..Len(w)
      BY <1>1, <1>2
    <2>. QED
      BY <1>1, <2>1, <2>2
  <1>13. /\ handled'[c] \in Seq(Nat) /\ Len(handled'[c]) = f[n]
         /\ \A i \in 1..Len(handled'[c]) : handled'[c][i] = i
    <2>1. handled'[c] = handled[c] \o Numbering(Len(handled[c]), f[n])
      BY <1>1, <1>12 DEF h
    <2>. QED
      BY <1>2, <1>12, <2>1, NumbersContinue DEF h
  <1>14. InputTyped(c)'
    BY <1>1, <1>3, <1>6, <1>9, <1>11, <1>13 DEF InputTyped, x, q
  <1>15. Tallied(x, f[n], sent)
    BY ONLY <1>1, <1>2, <1>3, TalliedRest
  <1>16. Expects(q, TagAt(x, 1), f[n])
    BY <1>4, <1>5, <1>7, <1>10 DEF Expects
  <1>17. InputFollowed(c)'
    BY <1>1, <1>6, <1>12, <1>13, <1>15, <1>16 DEF InputFollowed, x, q, sent
  <1>18. Flying(c)' \subseteq Flying(c)
    <2>1. Upcoming(q, x) \subseteq Upcoming(p, w)
      BY <1>5, <1>8, <1>9 DEF Upcoming
    <2>. QED
      BY <1>1, <1>6, <2>1 DEF Flying, p, q, w, x
  <1>19. Fresh(q) => TagAt(w, n) = "close" /\ n = Len(w)
    <2>1. Fresh(r) => ~Follows(r, TagAt(w, n + 1), f[n])
      BY DEF Follows, Fresh, Between, InTag, InBody, Inside, Alive
    <2>. QED
      BY <1>7, <1>10, <2>1
  <1>20. ~q.dead
    BY <1>7, <1>10 DEF Follows, Fresh, Between, InTag, InBody, Inside, Alive
  <1>. QED
    BY <1>12, <1>13, <1>14, <1>17, <1>18, <1>19, <1>20 DEF h, sent, q, w

LEMMA LiveRead ==
  ASSUME IInv, NEW c \in Conn, NEW n \in 1..Len(net[c]), NEW f, NEW r, NEW k,
         ReadsLive(c, n, f, r, k)
  PROVE  InputInv(c)' /\ queue'[c] \in Seq(Message)
  <1>0. InputInv(c) /\ InputFunctions
    BY DEF IInv
  <1>. DEFINE w == net[c]
              x == net'[c]
              p == parser[c]
              h == Len(handled[c])
              m == f[n]
              q == queue[c]
              t == queue'[c]
              sent == client[c].sent
              head == client[c].headers
  <1>1. /\ w = net[c] /\ x = Rest(w, n) /\ n \in 1..Len(w) /\ IInv /\ c \in Conn
        /\ t = q \o k /\ MessagesOf(k, r.events) /\ Made(r.events, p, w, h, m, n)
        /\ client' = client /\ data' = data /\ job' = job /\ offered'[c] = offered[c] /\ ~split'[c]
        /\ ~p.dead
    BY DEF ReadsLive, FedTo
  <1>2. /\ q \in Seq(Message) /\ h \in Nat /\ sent \in Nat /\ Len(w) \in Nat
        /\ p.stream \in BOOLEAN /\ n \in Nat \ {0}
    BY <1>0, TypesAt, ParserFields
  <1>3. /\ InputTyped(c)' /\ InputFollowed(c)'
        /\ Len(handled[c])' = m /\ m \in Nat /\ m <= sent
        /\ h <= m /\ Flying(c)' \subseteq Flying(c)
        /\ Fresh(parser'[c]) => TagAt(w, n) = "close" /\ n = Len(w)
        /\ ~parser'[c].dead
    BY LiveInput
  <1>. HIDE DEF w, x, p, h, m, q, t, sent, head
  <1>a. Reading(c, w, x, n)
    BY ONLY <1>1, ReadingFacts
  <1>4. Wired(w) /\ Wired(x) /\ w # <<>>
    BY <1>a DEF Reading
  <1>5. /\ ~data[c].closing /\ \A i \in 1..Len(q) : q[i].kind # "end"
        /\ job[c].at \notin {"last", "listing"} /\ head # 0
    <2>1. ~data[c].closing /\ \A i \in 1..Len(queue[c]) : queue[c][i].kind # "end"
      BY <1>a DEF Reading
    <2>2. job[c].at \notin {"last", "listing"} /\ client[c].headers # 0
      BY <1>a DEF Reading
    <2>. QED
      BY <2>1, <2>2 DEF q, head
  <1>6. client[c].end = "no" => ~HeaderDue(c)
    BY <1>a DEF Reading
  <1>7. TagAt(x, 1) # "open"
    BY <1>a DEF Reading
  <1>8. n = Len(w) => x = <<>>
    BY <1>a DEF Reading
  <1>9. client[c].end = "no" => TagAt(w, Len(w)) # "close"
    BY <1>a DEF Reading
  <1>10. /\ \A i \in 1..Len(k) :
              \/ k[i].kind \in Kind /\ (\E s \in Upcoming(p, w) : k[i].kind = s.kind) /\ h < m
              \/ k[i].kind = HeaderKind(p) /\ TagAt(w, 1) = "open"
              \/ k[i].kind = "end" /\ n = Len(w) /\ TagAt(w, n) = "close" /\ i = Len(k)
         /\ m <= h + 1 => \A i, j \in 1..Len(k) :
              k[i].kind \in Kind /\ k[j].kind \in Kind => i = j
         /\ TagAt(w, 1) = "open" => \E i \in 1..Len(k) : k[i].kind = HeaderKind(p)
         /\ TagAt(w, n) = "close" => \E i \in 1..Len(k) : k[i].kind = "end"
    <2>. DEFINE events == r.events
    <2>1. /\ Made(events, p, w, h, m, n) /\ MessagesOf(k, events) /\ m \in Nat
          /\ p.stream \in BOOLEAN /\ n \in Nat \ {0} /\ h \in Nat
      BY <1>1, <1>2, <1>3
    <2>. HIDE DEF events
    <2>2. MessagesFit(k, p, w, h, m, n)
      BY ONLY <2>1, MadeMessages
    <2>. QED
      BY <2>2 DEF MessagesFit
  <1>11. /\ t \in Seq(Message) /\ Len(q) \in Nat /\ Len(k) \in Nat
         /\ \A i \in 1..Len(q) : i \in 1..Len(t) /\ t[i] = q[i]
         /\ \A i \in 1..Len(k) : Len(q) + i \in 1..Len(t) /\ t[Len(q) + i] = k[i]
         /\ \A i \in 1..Len(t) :
              \/ i \in 1..Len(q) /\ t[i] = q[i]
              \/ \E j \in 1..Len(k) : i = Len(q) + j /\ t[i] = k[j]
    <2>1. k \in Seq(Message) /\ q \in Seq(Message) /\ t = q \o k
      BY <1>1, <1>2 DEF MessagesOf
    <2>2. t \in Seq(Message) /\ Len(q) \in Nat /\ Len(k) \in Nat /\ PutTogether(t, q, k)
      BY ONLY <2>1, Behind
    <2>. QED
      BY <2>2 DEF PutTogether
  <1>12. /\ HeaderDue(c)' = HeaderDue(c) /\ Busy(c)' = Busy(c)
         /\ OwnResource(c)' = OwnResource(c)
    BY <1>1 DEF HeaderDue, Busy, OwnResource
  <1>13. HeaderKind(p) \in {"init", "reinit"}
    BY DEF HeaderKind
  (* A stanza among the messages of the chunk means that one was sent.      *)
  <1>14. \A i \in 1..Len(k) : k[i].kind \in Kind => h < m
    BY <1>10, <1>13, KindsDistinct
  <1>15. OneAtATime(c)'
    <2>. SUFFICES ASSUME ~OwnResource(c)
                  PROVE  OneAtATime(c)'
      BY <1>12 DEF OneAtATime
    <2>1. /\ sent <= h + 1
          /\ sent > h \/ Busy(c) => \A i \in 1..Len(q) : q[i].kind \notin Kind
          /\ sent > h => ~Busy(c)
          /\ \A i, j \in 1..Len(q) : q[i].kind \in Kind /\ q[j].kind \in Kind => i = j
      BY <1>0 DEF InputInv, OneAtATime, h, q, sent
    <2>2. sent <= m + 1 /\ m <= h + 1 /\ (sent > m => sent > h /\ ~(h < m)) /\ (h < m => sent > h)
      BY <1>2, <1>3, <2>1
    <2>3. sent > m => ~Busy(c)
      BY <2>1, <2>2
    <2>4. sent > m \/ Busy(c) => \A i \in 1..Len(t) : t[i].kind \notin Kind
      BY <1>11, <1>14, <2>1, <2>2
    <2>5. ASSUME NEW i \in 1..Len(t), NEW j \in 1..Len(t), t[i].kind \in Kind, t[j].kind \in Kind
          PROVE  i = j
      <3>1. CASE i \in 1..Len(q) /\ t[i] = q[i] /\ j \in 1..Len(q) /\ t[j] = q[j]
        BY <2>1, <2>5, <3>1
      <3>2. CASE /\ \E a \in 1..Len(k) : i = Len(q) + a /\ t[i] = k[a]
                 /\ \E b \in 1..Len(k) : j = Len(q) + b /\ t[j] = k[b]
        <4>1. PICK a \in 1..Len(k) : i = Len(q) + a /\ t[i] = k[a]
          BY <3>2
        <4>2. PICK b \in 1..Len(k) : j = Len(q) + b /\ t[j] = k[b]
          BY <3>2
        <4>3. a = b
          BY <1>10, <2>2, <2>5, <4>1, <4>2
        <4>. QED
          BY <4>1, <4>2, <4>3
      <3>3. (\E a \in 1..Len(k) : i = Len(q) + a /\ t[i] = k[a]) =>
              ~(j \in 1..Len(q) /\ t[j] = q[j])
        BY <1>14, <2>1, <2>2, <2>5
      <3>4. (\E b \in 1..Len(k) : j = Len(q) + b /\ t[j] = k[b]) =>
              ~(i \in 1..Len(q) /\ t[i] = q[i])
        BY <1>14, <2>1, <2>2, <2>5
      <3>. QED
        BY <1>11, <3>1, <3>2, <3>3, <3>4
    <2>. QED
      BY <1>1, <1>3, <1>12, <2>2, <2>3, <2>4, <2>5 DEF OneAtATime, t, sent
  <1>16. Authenticating(c)'
    <2>1. {s.kind : s \in Upcoming(p, w)} \subseteq Waiting(c)
      <3>1. client[c].end # "reset"
        BY <1>a DEF Reading
      <3>. QED
        BY <3>1 DEF Waiting, Flying, p, w
    <2>2. \A i \in 1..Len(k) : k[i].kind \in Waiting(c) \cup {"init", "reinit", "end"}
      BY <1>10, <1>13, <2>1
    <2>3. \A i \in 1..Len(q) : q[i].kind \in Waiting(c)
      BY DEF Waiting, q
    <2>4. \A i \in 1..Len(t) : t[i].kind \in Waiting(c) \cup {"init", "reinit", "end"}
      BY <1>11, <2>2, <2>3
    <2>5. /\ \A s \in Flying(c)' : s.kind \in Waiting(c)
          /\ job[c].at = "act" => job[c].kind \in Waiting(c)
      BY <1>3 DEF Waiting
    <2>6. Waiting(c)' \subseteq Waiting(c) \cup {"init", "reinit", "end"}
      <3>1. ASSUME NEW z \in Waiting(c)'
            PROVE  \/ \E s \in Flying(c)' : z = s.kind
                   \/ \E i \in 1..Len(t) : z = t[i].kind
                   \/ job'[c].at = "act" /\ z = job'[c].kind
        BY DEF Waiting, t
      <3>2. job' = job
        BY <1>1
      <3>. QED
        BY ONLY <2>4, <2>5, <3>1, <3>2
    <2>7. Authenticating(c)
      BY <1>0 DEF InputInv
    <2>. QED
      BY <1>1, <2>6, <2>7, StillAuthenticating
  <1>17. Headed(c)'
    <2>1. Headed(c)
      BY <1>0 DEF InputInv
    <2>2. sent = 0 => \A i \in 1..Len(t) : t[i].kind \notin Kind
      <3>1. sent = 0 => ~(h < m)
        BY <1>2, <1>3
      <3>2. sent = 0 => \A i \in 1..Len(q) : q[i].kind \notin Kind
        BY <2>1 DEF Headed, sent, q
      <3>. QED
        BY <1>11, <1>14, <3>1, <3>2
    <2>3. sent = 0 => ~Busy(c) /\ ~data[c].jid
      BY <2>1 DEF Headed, sent
    <2>4. Fresh(parser'[c]) => x = <<>> /\ client[c].end # "no"
      BY <1>3, <1>8, <1>9
    <2>. QED
      BY <1>1, <1>5, <1>6, <1>7, <1>12, <2>2, <2>3, <2>4 DEF Headed, t, x, sent, head
  <1>18. Restarted(c)'
    <2>1. Restarted(c) /\ Headed(c)
      BY <1>0 DEF InputInv
    <2>2. TagAt(w, 1) = "open" => \/ head = 1 /\ sent = 0
                                  \/ head = 2 /\ p.stream
      BY <2>1 DEF Headed, head, sent, w, p
    <2>3. \A i \in 1..Len(q) : q[i].kind = "init" => head = 1 /\ sent = 0
      BY <2>1 DEF Restarted, q, head, sent
    <2>4. \A i \in 1..Len(k) : k[i].kind = "init" => ~p.stream /\ TagAt(w, 1) = "open"
      BY <1>10, KindsDistinct DEF HeaderKind
    <2>5. \A i \in 1..Len(t) : t[i].kind = "init" => head = 1 /\ sent = 0
      BY <1>11, <2>2, <2>3, <2>4
    <2>6. ASSUME head = 2
          PROVE  /\ data[c].sasl.complete
                 /\ (\E i \in 1..Len(t) : t[i].kind = "reinit") \/ offered[c] = "bind"
      <3>1. /\ data[c].sasl.complete
            /\ \/ TagAt(w, 1) = "open" /\ p.stream
               \/ \E i \in 1..Len(q) : q[i].kind = "reinit"
               \/ offered[c] = "bind"
        <4>1. client[c].end # "reset"
          BY <1>a DEF Reading
        <4>. QED
          BY <2>1, <2>6, <4>1 DEF Restarted, head, q, w, p
      <3>2. CASE TagAt(w, 1) = "open" /\ p.stream
        <4>1. PICK i \in 1..Len(k) : k[i].kind = "reinit"
          BY <1>10, <3>2 DEF HeaderKind
        <4>. QED
          BY <1>11, <3>1, <4>1
      <3>3. CASE \E i \in 1..Len(q) : q[i].kind = "reinit"
        BY <1>11, <3>1, <3>3
      <3>. QED
        BY <3>1, <3>2, <3>3
    <2>. QED
      BY <1>1, <1>6, <1>12, <2>5, <2>6 DEF Restarted, t, head, sent
  <1>19. Ended(c)'
    <2>1. ASSUME NEW i \in 1..Len(t), t[i].kind = "end"
          PROVE  x = <<>> /\ client[c].end # "no" /\ i = Len(q) + Len(k)
      <3>1. PICK j \in 1..Len(k) : i = Len(q) + j /\ t[i] = k[j]
        BY <1>5, <1>11, <2>1
      <3>2. n = Len(w) /\ TagAt(w, n) = "close" /\ j = Len(k)
        BY <1>10, <1>13, <2>1, <3>1, KindsDistinct
      <3>. QED
        BY <1>8, <1>9, <3>1, <3>2
    <2>2. \A i \in 1..Len(t) : i <= Len(q) + Len(k)
      BY <1>11
    <2>3. \A i \in 1..Len(t), j \in 1..Len(t) : i < j /\ t[i].kind = "end" => t[j].kind = "end"
      <3>1. ASSUME NEW i \in 1..Len(t), NEW j \in 1..Len(t), i < j, t[i].kind = "end"
            PROVE  FALSE
        <4>1. i = Len(q) + Len(k) /\ j <= Len(q) + Len(k)
          BY <2>1, <2>2, <3>1
        <4>. QED
          BY <1>11, <3>1, <4>1
      <3>. QED
        BY <3>1
    <2>4. (\E i \in 1..Len(t) : t[i].kind = "end") => x = <<>> /\ client[c].end # "no"
      BY <2>1
    <2>5. ASSUME client[c].end = "close"
          PROVE  TagAt(x, Len(x)) = "close" \/ \E i \in 1..Len(t) : t[i].kind = "end"
      <3>1. TagAt(w, Len(w)) = "close"
        BY <1>0, <1>1, <1>5, <2>5 DEF InputInv, Ended, w, p, q
      <3>2. CASE n = Len(w)
        <4>1. PICK i \in 1..Len(k) : k[i].kind = "end"
          BY <1>10, <3>1, <3>2
        <4>. QED
          BY <1>11, <4>1
      <3>3. CASE n # Len(w)
        BY <1>a, <3>1, <3>3 DEF Reading
      <3>. QED
        BY <3>2, <3>3
    <2>. QED
      BY <1>1, <1>3, <1>5, <2>3, <2>4, <2>5 DEF Ended, t, x
  <1>20. InputInv(c)'
    BY <1>3, <1>15, <1>16, <1>17, <1>18, <1>19 DEF InputInv
  <1>. QED
    BY <1>11, <1>20 DEF t

-----------------------------------------------------------------------------
(* What the events of a parser become.                                      *)
LEMMA EventMessages ==
  ASSUME NEW events \in Seq(GoodEvent), NEW k,
         k = [i \in DOMAIN events |->
                [kind |-> IF events[i].kind = "stanza" THEN events[i].stanza.kind
                          ELSE events[i].kind]]
  PROVE  MessagesOf(k, events)
  <1>1. ASSUME NEW i \in 1..Len(events)
        PROVE  KindOf(events[i]) \in MessageKind
    <2>1. /\ events[i].kind \in {"init", "reinit", "stanza", "end"}
          /\ events[i].kind = "stanza" => events[i].stanza \in Stanza
      BY DEF GoodEvent, Event
    <2>2. \A s \in Stanza : s.kind \in Kind
      BY DEF Stanza
    <2>. QED
      BY <2>1, <2>2 DEF KindOf, MessageKind
  <1>2. k = [i \in 1..Len(events) |-> [kind |-> KindOf(events[i])]]
    BY DEF KindOf
  <1>3. \A i \in 1..Len(events) : [kind |-> KindOf(events[i])] \in Message
    BY <1>1 DEF Message
  <1>4. Len(events) \in Nat
    OBVIOUS
  <1>5. k \in Seq(Message) /\ Len(k) = Len(events)
    BY <1>2, <1>3, <1>4
  <1>6. \A i \in 1..Len(k) : k[i].kind = KindOf(events[i])
    BY <1>2, <1>5
  <1>. QED
    BY <1>5, <1>6 DEF MessagesOf

LEMMA NothingMade ==
  ASSUME NEW k, MessagesOf(k, <<>>), NEW q \in Seq(Message), NEW s \in Seq(Nat)
  PROVE  q \o k = q /\ s \o Numbers(<<>>) = s
  <1>1. k \in Seq(Message) /\ Len(k) = 0
    BY DEF MessagesOf
  <1>2. k = <<>>
    BY <1>1
  <1>. QED
    BY <1>2, NumbersEmpty

(* What the client has sent has been read.                                  *)
LEMMA ReadKeeps ==
  ASSUME IInv, NEW c \in Conn, Read(c)
  PROVE  IInv'
  <1>0. InputInv(c) /\ InputFunctions /\ TableFunctions
    BY DEF IInv
  <1>. DEFINE R(n) == Fed(parser[c], SubSeq(net[c], 1, n))
              K(events) == [i \in DOMAIN events |->
                  [kind |-> IF events[i].kind = "stanza" THEN events[i].stanza.kind
                            ELSE events[i].kind]]
  <1>1. PICK n \in 1..Len(net[c]) :
          /\ net' = [net EXCEPT ![c] = SubSeq(@, n + 1, Len(@))]
          /\ parser' = [parser EXCEPT ![c] = [R(n) EXCEPT !.events = <<>>]]
          /\ queue' = [queue EXCEPT ![c] = @ \o K(R(n).events)]
          /\ handled' = [handled EXCEPT ![c] = @ \o Numbers(R(n).events)]
          /\ split' = [split EXCEPT ![c] = @ \/ (R(n).cut /\ R(n).root = "none")]
    BY DEF Read
  <1>2. /\ client' = client /\ socket' = socket /\ job' = job /\ data' = data
        /\ offered' = offered /\ halted' = halted /\ raced' = raced
        /\ conns' = conns /\ resources' = resources /\ generated' = generated
    BY DEF Read, tables
  <1>. DEFINE r == R(n)
              k == K(r.events)
              w == net[c]
              p == parser[c]
              h == Len(handled[c])
              sent == client[c].sent
              q == parser'[c]
              x == net'[c]
              tag == TagAt(w, 1)
  <1>3. /\ x = Rest(w, n) /\ q = [r EXCEPT !.events = <<>>]
        /\ queue'[c] = queue[c] \o k /\ handled'[c] = handled[c] \o Numbers(r.events)
        /\ split'[c] = (split[c] \/ (r.cut /\ r.root = "none"))
    BY <1>0, <1>1 DEF InputFunctions, Rest
  <1>4. r = Fed(p, SubSeq(w, 1, n)) /\ w = net[c] /\ n \in 1..Len(w)
    OBVIOUS
  <1>5. /\ p \in Parser /\ ~p.over /\ ~p.quirk /\ p.events = <<>> /\ Wired(w)
        /\ handled[c] \in Seq(Nat) /\ h \in Nat /\ sent \in Nat
        /\ queue[c] \in Seq(Message) /\ split[c] \in BOOLEAN
    BY <1>0, TypesAt DEF InputInv, InputTyped
  <1>6. r.events \in Seq(GoodEvent) => MessagesOf(k, r.events)
    <2>. DEFINE events == r.events
    <2>. HIDE DEF events, r
    <2>1. events \in Seq(GoodEvent) => MessagesOf(K(events), events)
      BY EventMessages
    <2>. QED
      BY <2>1 DEF events
  <1>. HIDE DEF r, k, w, p, h, sent, q, x, tag, K, R
  <1>a. Reading(c, w, x, n)
    BY ONLY <1>3, <1>4, IInv, c \in Conn, ReadingFacts
  <1>7. Wired(x) /\ w # <<>> /\ IInv /\ c \in Conn
    BY <1>a DEF Reading
  <1>8. client[c].end # "reset"
    BY <1>a DEF Reading
  <1>9. TagAt(x, 1) = TagAt(w, n + 1)
    BY <1>a DEF Reading
  <1>10. client[c].end = "no" => TagAt(w, Len(w)) # "close"
    BY <1>a DEF Reading
  (* A chunk in a stream.                                                   *)
  <1>11. ASSUME ~split[c], NEW f, Tally(f, w, h), f[Len(w)] = sent,
                \A i \in 0..Len(w) : f[i] <= sent, FedTo(r, p, w, f, h, n), ~p.dead
         PROVE  InputInv(c)' /\ queue'[c] \in Seq(Message)
    <2>1. GoodParser(r) /\ r.events \in Seq(GoodEvent)
      BY <1>11 DEF FedTo, GoodParser
    <2>2. ~(r.cut /\ r.root = "none")
      BY <1>11 DEF FedTo, Follows, Fresh, Between, InTag, InBody, Inside, Alive
    <2>3. MessagesOf(k, r.events) /\ ~split'[c]
      BY <1>3, <1>6, <1>11, <2>1, <2>2
    <2>4. ReadsLive(c, n, f, r, k)
      BY <1>2, <1>3, <1>11, <2>3 DEF ReadsLive, w, h, sent, p, q, x
    <2>. QED
      BY <1>4, <2>4, LiveRead DEF w
  (* A chunk of which nothing comes.                                        *)
  <1>12. ASSUME GoodParser(r), ~r.over, ~r.quirk, r.events = <<>>, ~Fresh(r),
                r.depth = 2 => p.depth = 2 /\ r.tree = p.tree, tag # "open",
                \/ /\ ~split'[c] /\ h = sent /\ x = <<>> /\ client[c].end # "no"
                   /\ q.dead /\ q.depth # 2
                \/ split'[c] /\ h < sent /\ Lost(q, TagAt(x, 1)),
                data[c].jid, p.dead => r.dead, n = Len(w) => r.dead
         PROVE  InputInv(c)' /\ queue'[c] \in Seq(Message)
    <2>1. MessagesOf(k, <<>>)
      <3>1. r.events \in Seq(GoodEvent)
        BY <1>12 DEF GoodParser
      <3>. QED
        BY <1>6, <1>12, <3>1
    <2>2. queue'[c] = queue[c] /\ handled'[c] = handled[c]
      BY <1>3, <1>5, <1>12, <2>1, NothingMade
    <2>3. /\ q \in Parser /\ q.events = <<>> /\ q.depth = r.depth /\ q.tree = r.tree
          /\ ~q.over /\ ~q.quirk /\ ~Fresh(q) /\ q.dead = r.dead
      <3>1. Fresh(q) <=> Fresh(r)
        <4>. DEFINE a == 0
        <4>. HIDE DEF a
        <4>. QED
          BY <1>3, <1>12, SamePlace
      <3>. QED
        BY <1>3, <1>12, <3>1, Emptied
    <2>4. InputFollowed(c)'
      BY <1>2, <1>5, <1>8, <1>12, <2>2 DEF InputFollowed, h, sent, x, q
    <2>5. InputInv(c)'
      BY <1>2, <1>3, <1>4, <1>12, <2>2, <2>3, <2>4, SilentRead DEF w, p, q, x, tag
    <2>. QED
      BY <1>5, <2>2, <2>5
  <1>14. 1 \in 1..Len(w) /\ w \in Seq(Symbol) /\ Len(w) \in Nat
    <2>1. w \in Seq(Symbol)
      BY <1>5 DEF Wired
    <2>. QED
      BY <1>4, <2>1
  <1>15. \/ /\ ~split[c] /\ Tallied(w, h, sent) /\ Expects(p, tag, h)
         \/ split[c] /\ h < sent /\ Lost(p, tag)
    BY <1>0, <1>7, <1>8 DEF InputInv, InputFollowed, h, sent, p, tag, w
  <1>16. Headed(c)
    BY <1>0 DEF InputInv
  <1>17. ASSUME ~split[c] /\ Tallied(w, h, sent) /\ Expects(p, tag, h)
         PROVE  InputInv(c)' /\ queue'[c] \in Seq(Message)
    <2>1. PICK f : Tally(f, w, h) /\ f[Len(w)] = sent /\ \A i \in 0..Len(w) : f[i] <= sent
      BY <1>17 DEF Tallied
    <2>a. ~p.dead
      BY <1>17 DEF Expects, Follows, Fresh, Between, InTag, InBody, Inside, Alive
    <2>2. CASE Follows(p, tag, h) \/ (Fresh(p) /\ tag \in {"none", "open"})
      <3>1. FedTo(r, p, w, f, h, n)
        BY <1>4, <1>5, <2>1, <2>2, FedInStream DEF tag
      <3>. QED
        BY <1>11, <1>17, <2>1, <2>a, <3>1
    <2>3. CASE Fresh(p) /\ tag = "head" /\ n # 1
      <3>1. FedTo(r, p, w, f, h, n)
        BY <1>4, <1>5, <2>1, <2>3, FedStanzaFirst DEF tag
      <3>. QED
        BY <1>11, <1>17, <2>1, <2>a, <3>1
    <2>4. CASE Fresh(p) /\ tag = "head" /\ n = 1
      <3>1. GoodParser(r) /\ Torn(r) /\ ~r.over /\ r.events = <<>>
        BY <1>4, <1>5, <1>14, <2>4, FedTorn DEF tag
      <3>2. /\ ~r.quirk /\ ~Fresh(r) /\ r.depth # 2 /\ r.cut /\ r.root = "none"
        BY <3>1 DEF Torn, Fresh, Alive
      <3>3. split'[c] = TRUE
        BY <1>3, <3>2
      <3>4. w[1].tag = "head" /\ TagAt(w, n + 1) = "rest"
        BY <1>5, <1>14, <2>4, NextTag DEF tag
      <3>5. h < sent
        BY <1>5, <1>14, <1>17, <3>4, StanzaAhead
      <3>6. Lost(q, TagAt(x, 1))
        <4>1. Lost(r, "rest")
          BY <3>1 DEF Lost
        <4>. QED
          <5>1. q = [r EXCEPT !.events = <<>>] /\ GoodParser(r)
            BY <1>3, <3>1
          <5>2. Lost(q, "rest")
            BY ONLY <4>1, <5>1, SamePlace
          <5>. QED
            BY <1>9, <3>4, <5>2
      <3>7. data[c].jid
        BY <1>7, <1>8, <1>16, <2>4 DEF Headed, p, w, tag
      <3>8. n # Len(w)
        <4>1. n = Len(w) => TagAt(w, n + 1) = "none"
          BY <1>a DEF Reading
        <4>. QED
          BY <3>4, <4>1
      <3>. QED
        BY <1>12, <2>4, <2>a, <3>1, <3>2, <3>3, <3>5, <3>6, <3>7, <3>8
    <2>5. CASE Fresh(p) /\ tag = "close"
      <3>1. /\ GoodParser(r) /\ r.dead /\ ~r.quirk /\ ~r.over /\ r.events = <<>>
            /\ r.depth = 0 /\ ~(r.cut /\ r.root = "none") /\ Len(w) = 1 /\ n = 1
        BY <1>4, <1>5, <2>5, FedClosed DEF tag
      <3>2. ~Fresh(r) /\ ~split'[c]
        BY <1>3, <1>17, <3>1 DEF Fresh, Alive
      <3>3. w[1].tag = "close"
        BY <1>5, <1>14, <2>5, NextTag DEF tag
      <3>4. h = sent
        <4>1. f[0] = h /\ f[1] = f[1 - 1]
          BY <1>14, <2>1, <3>3 DEF Tally
        <4>. QED
          BY <2>1, <3>1, <4>1
      <3>5. client[c].end # "no"
        BY <1>10, <2>5, <3>1 DEF tag
      <3>6. x = <<>>
        <4>1. n = Len(w)
          BY <3>1
        <4>. QED
          BY <1>a, <4>1 DEF Reading
      <3>7. q.dead /\ q.depth # 2
        BY <1>3, <3>1, Emptied
      <3>8. data[c].jid
        BY <1>7, <1>8, <1>16, <2>5 DEF Headed, p, w, tag
      <3>. QED
        BY <1>12, <2>5, <3>1, <3>2, <3>4, <3>5, <3>6, <3>7, <3>8
    <2>. QED
      BY <1>17, <2>2, <2>3, <2>4, <2>5 DEF Expects
  <1>18. ASSUME split[c] /\ h < sent /\ Lost(p, tag)
         PROVE  InputInv(c)' /\ queue'[c] \in Seq(Message)
    <2>1. /\ GoodParser(r) /\ ~r.over /\ ~r.quirk /\ r.events = <<>>
          /\ Lost(r, TagAt(w, n + 1)) /\ (r.depth = 2 => r = p) /\ (p.dead => r.dead)
      BY <1>4, <1>5, <1>18, FedLost DEF tag
    <2>2. split'[c] = TRUE /\ data[c].jid
      BY <1>3, <1>16, <1>18 DEF Headed
    <2>3. ~Fresh(r) /\ tag # "open"
      BY <1>18, <2>1 DEF Lost, Fresh, Torn, Between, Inside, Alive
    <2>4. Lost(q, TagAt(x, 1))
      BY <1>3, <1>9, <2>1, SamePlace
    <2>5. n = Len(w) => r.dead
      <3>1. n = Len(w) => TagAt(w, n + 1) = "none"
        BY <1>a DEF Reading
      <3>. QED
        BY <2>1, <3>1 DEF Lost
    <2>. QED
      BY <1>12, <1>18, <2>1, <2>2, <2>3, <2>4, <2>5
  <1>19. InputInv(c)' /\ queue'[c] \in Seq(Message)
    BY <1>15, <1>17, <1>18
  (* And the types.                                                         *)
  <1>20. /\ net'[c] \in Seq(Symbol) /\ parser'[c] \in Parser /\ handled'[c] \in Seq(Nat)
         /\ split'[c] \in BOOLEAN
    <2>1. InputTyped(c)' /\ split'[c] \in BOOLEAN
      BY <1>3, <1>5, <1>19 DEF InputInv
    <2>. QED
      BY <2>1 DEF InputTyped, Wired
  <1>21. /\ \E a : net' = [net EXCEPT ![c] = a]
         /\ \E a : parser' = [parser EXCEPT ![c] = a]
         /\ \E a : queue' = [queue EXCEPT ![c] = a]
         /\ \E a : handled' = [handled EXCEPT ![c] = a]
         /\ \E a : split' = [split EXCEPT ![c] = a]
    BY <1>1
  <1>22. InputFunctions' /\ OnlyAt(c)
    BY <1>0, <1>2, <1>19, <1>20, <1>21 DEF InputFunctions, OnlyAt, SameAt
  <1>23. TableFunctions'
    BY <1>0, <1>2 DEF TableFunctions
  <1>. QED
    BY <1>19, <1>22, <1>23, StepAt

-----------------------------------------------------------------------------
(* Each step keeps the invariant.                                           *)
LEMMA NextIInv == IInv /\ [Next]_vars => IInv'
  <1>. SUFFICES ASSUME IInv, [Next]_vars
                PROVE  IInv'
    OBVIOUS
  <1>1. CASE UNCHANGED vars
    <2>1. /\ client' = client /\ net' = net /\ socket' = socket /\ parser' = parser
          /\ queue' = queue /\ job' = job /\ data' = data /\ conns' = conns
          /\ resources' = resources /\ generated' = generated
          /\ halted' = halted /\ raced' = raced
          /\ offered' = offered /\ handled' = handled /\ split' = split
      BY <1>1 DEF vars, tables, history
    <2>2. InputFunctions' /\ TableFunctions'
      BY <2>1 DEF IInv, InputFunctions, TableFunctions
    <2>3. \A c \in Conn : InputInv(c)'
      BY <2>1, SameInput DEF IInv, SameAt
    <2>. QED
      BY <2>2, <2>3 DEF IInv
  <1>2. ASSUME NEW c \in Conn, Client(c)
        PROVE  IInv'
    BY <1>2, AcceptKeeps, SendHeaderKeeps, SendStanzaKeeps, SendCloseKeeps, LeaveKeeps, FailKeeps
       DEF Client
  <1>3. ASSUME NEW c \in Conn, Main(c)
        PROVE  IInv'
    BY <1>3, ReadKeeps, ReadEndKeeps, ReadErrorKeeps, InStreamInitKeeps, InStreamReInitKeeps,
       AnswerKeeps, StartHandlerKeeps, StreamEndKeeps, CleanUpKeeps DEF Main
  <1>4. ASSUME NEW c \in Conn, Handler(c)
        PROVE  IInv'
    BY <1>4, SASLAuthKeeps, SASLResponseKeeps, IQAuthSetKeeps, PresenceActKeeps,
       BindCheckKeeps, BindLookKeeps, BindCreateKeeps, BindPutKeeps,
       LastPresenceKeeps, LastPresenceRaisesKeeps DEF Handler
  <1>. QED
    BY <1>1, <1>2, <1>3, <1>4 DEF Next, MainLoop, Workers

THEOREM InputInvariant == Safety => []IInv
  BY InitIInv, NextIInv, PTL DEF Safety

(* The state of the connections, of their parsers and of the tables keeps   *)
(* its types.                                                               *)
THEOREM TypeCorrect == Safety => []TypeOK
  <1>1. IInv => TypeOK
    <2>. SUFFICES ASSUME IInv
                  PROVE  TypeOK
      OBVIOUS
    <2>. USE DEF IInv
    <2>1. /\ client \in [Conn -> [headers : 0..2, sent : Nat,
                                  end : {"no", "close", "eof", "reset"}]]
          /\ offered \in [Conn -> {"none", "auth", "bind"}]
          /\ split \in [Conn -> BOOLEAN]
      BY DEF InputFunctions, ClientState
    <2>2. job \in [Conn -> [at : {"idle", "act", "check", "look", "create", "put", "last",
                                  "listing"},
                            kind : MessageKind, name : Name, seen : SUBSET Name]]
      BY DEF InputFunctions, JobState
    <2>3. data \in [Conn -> [jid : BOOLEAN, resource : Name \cup {None}, closing : BOOLEAN,
                        active : BOOLEAN,
                        sasl : [mech : {"none", "plain", "digest"}, progress : BOOLEAN,
                                complete : BOOLEAN, state : 0..2, failures : 0..2]]]
      BY DEF InputFunctions, DataState, SaslState
    <2>4. \A c \in Conn : /\ net[c] \in Seq(Symbol) /\ parser[c] \in Parser
                          /\ queue[c] \in Seq([kind : MessageKind])
                          /\ handled[c] \in Seq(Nat)
      BY DEF InputFunctions, Message
    <2>. QED
      BY <2>1, <2>2, <2>3, <2>4 DEF TypeOK, TableFunctions
  <1>. QED
    BY <1>1, InputInvariant, PTL

(* What comes in a stream is handled once each, in order, and nothing is    *)
(* left out, however it is cut into chunks, across the reset of the parser  *)
(* and the input that is parsed again; unless the first tag after a reset is*)
(* torn or the network fails.                                               *)
THEOREM ParsedInOrderHolds == Safety => []ParsedInOrder
  <1>1. IInv => ParsedInOrder
    <2>. SUFFICES ASSUME IInv, NEW c \in Conn
                  PROVE  /\ handled[c] = [i \in 1..Len(handled[c]) |-> i]
                         /\ net[c] = <<>> /\ ~split[c] /\ client[c].end # "reset" =>
                              Len(handled[c]) = client[c].sent
      BY DEF ParsedInOrder
    <2>0. InputInv(c) /\ InputFunctions
      BY DEF IInv
    <2>1. handled[c] = [i \in 1..Len(handled[c]) |-> i]
      <3>1. handled[c] \in Seq(Nat) /\ \A i \in 1..Len(handled[c]) : handled[c][i] = i
        BY <2>0 DEF InputInv, InputTyped
      <3>. QED
        BY <3>1
    <2>2. ASSUME net[c] = <<>>, ~split[c], client[c].end # "reset"
          PROVE  Len(handled[c]) = client[c].sent
      <3>1. Tallied(<<>>, Len(handled[c]), client[c].sent) => Len(handled[c]) = client[c].sent
        BY NothingSent
      <3>. QED
        BY <2>0, <2>2, <3>1 DEF InputInv, InputFollowed
    <2>. QED
      BY <2>1, <2>2
  <1>. QED
    BY <1>1, InputInvariant, PTL

(* A client that starts its stream again after SASL is offered the binding  *)
(* of a resource, not authentication once more.                             *)
THEOREM FeaturesFitHolds == Safety => []FeaturesFit
  <1>1. IInv => FeaturesFit
    <2>. SUFFICES ASSUME IInv, NEW c \in Conn, client[c].headers = 2, Answered(c),
                         client[c].end # "reset"
                  PROVE  offered[c] = "bind"
      BY DEF FeaturesFit
    <2>1. Restarted(c)
      BY DEF IInv, InputInv
    <2>2. net[c] = <<>> /\ queue[c] = <<>>
      BY DEF Answered
    <2>3. TagAt(<<>>, 1) # "open" /\ Len(<<>>) = 0
      <3>1. 1 \notin 1..Len(<<>>) /\ Len(<<>>) = 0
        OBVIOUS
      <3>. QED
        BY <3>1 DEF TagAt
    <2>. QED
      BY <2>1, <2>2, <2>3 DEF Restarted
  <1>. QED
    BY <1>1, InputInvariant, PTL

-----------------------------------------------------------------------------
(* The binding of resources, for clients that ask for one resource, after   *)
(* they have logged in.  The others break both properties (SessionLimits).  *)

OneBindInTurn == \A c \in Conn : Kinds[c] \cap {"early", "rebind"} = {}

InBind(c) == job[c].at \in {"check", "look", "create", "put"}

(* A connection that binds a resource has logged in and had none, and until *)
(* its end begins the server knows who it is.                               *)
Entering(c) ==
  /\ ~data[c].jid => data[c].resource = None
  /\ InBind(c) => data[c].jid
  /\ job[c].at = "check" => data[c].resource = None
  /\ Binding(c) => data[c].resource = job[c].name
  /\ data[c].jid /\ (~data[c].closing \/ job[c].at \in {"last", "listing"}) =>
       conns[c] = "named"
  /\ socket[c] = "none" => client[c].headers = 0 /\ client[c].end = "no"

(* An end that has begun is followed by the clean-up.                       *)
Noticed(c) ==
  /\ data[c].closing =>
       job[c].at \in {"last", "listing"} \/ Gone(c) \/ UserOf[c] \in raced \/ c \in halted
  /\ socket[c] = "closed" => data[c].closing \/ client[c].end = "reset"

(* Of the connections of an account one at most is inside of bindResource();*)
(* the name it has chosen is free, and the names made up so far are too low *)
(* to be made up again.                                                     *)
BindsAlone(u, c) ==
  /\ job[c].name <= generated
  /\ u \in DOMAIN resources => job[c].name \notin DOMAIN resources[u]
  /\ job[c].at = "put" => u \in DOMAIN resources
  /\ job[c].at = "create" => u \notin DOMAIN resources
  /\ \A d \in Conn : UserOf[d] = u /\ Binding(d) => d = c

Named(c) == OwnResource(c) /\ conns[c] = "named"

Tabled(u) ==
  /\ u \in DOMAIN resources =>
       \A n \in DOMAIN resources[u] : EntryFits(u, n, resources[u][n]) /\ n <= generated
  /\ \A c \in Conn : UserOf[c] = u /\ Named(c) /\ ~Binding(c) => IsEntered(c)
  /\ \A c \in Conn : UserOf[c] = u /\ Binding(c) => BindsAlone(u, c)

BindInv ==
  /\ \A c \in Conn : Entering(c) /\ Noticed(c)
  /\ \A u \in User \ raced : Tabled(u)

(* What the tables tell of d is as before.                                  *)
Neutral(d) ==
  /\ data'[d].resource = data[d].resource
  /\ Named(d)' <=> Named(d)
  /\ Binding(d)' <=> Binding(d)
  /\ Binding(d) => job'[d].name = job[d].name /\ job'[d].at = job[d].at

StillAt(d) ==
  /\ client'[d] = client[d] /\ socket'[d] = socket[d] /\ job'[d] = job[d]
  /\ data'[d] = data[d] /\ conns'[d] = conns[d]

LEMMA SameTable ==
  ASSUME IInv, NEW u \in User, Tabled(u), generated' \in Nat, generated <= generated',
         u \in DOMAIN resources' <=> u \in DOMAIN resources,
         u \in DOMAIN resources => resources'[u] = resources[u],
         \A d \in Conn : UserOf[d] = u => Neutral(d)
  PROVE  Tabled(u)'
  <1>0. TableFunctions
    BY DEF IInv
  <1>1. ASSUME NEW n, NEW d \in Conn, EntryFits(u, n, d), n \in Name
        PROVE  EntryFits(u, n, d)'
    <2>1. n # None
      BY <1>1, SessionAssumption DEF Name
    <2>2. Named(d) /\ Neutral(d)
      BY <1>1, <2>1 DEF EntryFits, Named, OwnResource
    <2>3. Named(d)' /\ data'[d].resource = n
      BY <1>1, <2>2 DEF EntryFits, Neutral
    <2>. QED
      BY <1>1, <2>3 DEF EntryFits, Named, OwnResource
  <1>2. ASSUME u \in DOMAIN resources', NEW n \in DOMAIN resources'[u]
        PROVE  EntryFits(u, n, resources[u][n])' /\ n <= generated'
    <2>1. /\ u \in DOMAIN resources /\ n \in DOMAIN resources[u]
          /\ resources'[u] = resources[u]
      BY <1>2
    <2>2. /\ EntryFits(u, n, resources[u][n]) /\ n <= generated /\ n \in Name
          /\ resources[u][n] \in Conn
      BY <1>0, <2>1 DEF Tabled, TableFunctions
    <2>3. PICK d \in Conn : EntryFits(u, n, d) /\ resources'[u][n] = d
      BY <2>1, <2>2
    <2>4. EntryFits(u, n, d)'
      BY <1>1, <2>2, <2>3
    <2>6. n <= generated'
      BY <1>0, <2>2 DEF TableFunctions, Name
    <2>. QED
      BY <2>3, <2>4, <2>6 DEF EntryFits
  <1>3. ASSUME NEW d \in Conn, UserOf[d] = u, Named(d)', ~Binding(d)'
        PROVE  IsEntered(d)'
    <2>1. Neutral(d)
      BY <1>3
    <2>2. IsEntered(d)
      BY <1>3, <2>1 DEF Neutral, Tabled
    <2>. QED
      BY <1>3, <2>1, <2>2 DEF Neutral, IsEntered
  <1>4. ASSUME NEW d \in Conn, UserOf[d] = u, Binding(d)'
        PROVE  BindsAlone(u, d)'
    <2>1. Binding(d) /\ job'[d].name = job[d].name /\ job'[d].at = job[d].at
      BY <1>4 DEF Neutral
    <2>2. BindsAlone(u, d)
      BY <1>4, <2>1 DEF Tabled
    <2>3. \A e \in Conn : UserOf[e] = u /\ Binding(e)' => e = d
      BY <2>2 DEF BindsAlone, Neutral
    <2>4. job[d].name <= generated'
      <3>1. job[d].name \in Nat
        BY TypesAt DEF IInv, JobState, Name
      <3>2. generated \in Nat
        BY <1>0 DEF TableFunctions, Name
      <3>. QED
        BY <2>2, <3>1, <3>2 DEF BindsAlone
    <2>. QED
      BY <2>1, <2>2, <2>3, <2>4 DEF BindsAlone
  <1>. QED
    BY <1>2, <1>3, <1>4 DEF Tabled

LEMMA StillNeutral ==
  ASSUME NEW d \in Conn, StillAt(d)
  PROVE  Neutral(d)
  BY DEF StillAt, Neutral, Named, OwnResource, Binding

LEMMA StillEntering ==
  ASSUME NEW d \in Conn, StillAt(d), Entering(d), Noticed(d),
         halted \subseteq halted', raced \subseteq raced'
  PROVE  Entering(d)' /\ Noticed(d)'
  BY DEF StillAt, Entering, Noticed, Binding, InBind, Gone

(* A step at c that the tables do not tell of.                              *)
LEMMA QuietStep ==
  ASSUME IInv, BindInv, NEW c \in Conn, \A d \in Conn \ {c} : StillAt(d),
         resources' = resources, generated' = generated,
         halted \subseteq halted', raced' = raced,
         Neutral(c), Entering(c)', Noticed(c)'
  PROVE  BindInv'
  <1>1. \A d \in Conn : Neutral(d)
    BY StillNeutral
  <1>2. \A d \in Conn : Entering(d)' /\ Noticed(d)'
    BY StillEntering DEF BindInv
  <1>3. generated' \in Nat /\ generated <= generated'
    BY DEF IInv, TableFunctions, Name
  <1>4. ASSUME NEW u \in User \ raced'
        PROVE  Tabled(u)'
    <2>1. Tabled(u) /\ u \in User
      BY <1>4 DEF BindInv
    <2>. QED
      BY <1>1, <1>3, <2>1, SameTable
  <1>. QED
    BY <1>2, <1>4 DEF BindInv

LEMMA InitBinds == Init => BindInv
  <1>. SUFFICES ASSUME Init
                PROVE  BindInv
    OBVIOUS
  <1>1. ASSUME NEW c \in Conn
        PROVE  /\ client[c].headers = 0 /\ client[c].end = "no" /\ socket[c] = "none"
               /\ job[c].at = "idle" /\ ~data[c].jid /\ data[c].resource = None
               /\ ~data[c].closing
    BY DEF Init, Idle
  <1>2. \A c \in Conn : Entering(c) /\ Noticed(c)
    BY <1>1 DEF Entering, Noticed, InBind, Binding
  <1>3. DOMAIN resources = {}
    BY DEF Init
  <1>4. \A u \in User : Tabled(u)
    BY <1>1, <1>3 DEF Tabled, Named, OwnResource, Binding
  <1>. QED
    BY <1>2, <1>4 DEF BindInv

(* A step that changes only what is on its way and how it is parsed.        *)
LEMMA CalmStep ==
  ASSUME IInv, BindInv, NEW c \in Conn,
         UNCHANGED <<client, socket, job, data, conns, resources, generated, halted, raced>>
  PROVE  BindInv'
  <1>1. \A d \in Conn : StillAt(d)
    BY DEF StillAt
  <1>2. Neutral(c) /\ Entering(c)' /\ Noticed(c)'
    BY <1>1, StillNeutral, StillEntering DEF BindInv
  <1>. QED
    BY <1>1, <1>2, QuietStep

(* What a client does: its connection is there.                             *)
LEMMA ClientStep ==
  ASSUME IInv, BindInv, NEW c \in Conn, socket[c] = "open",
         \A d \in Conn \ {c} : client'[d] = client[d],
         UNCHANGED <<socket, job, data, conns, resources, generated, halted, raced>>
  PROVE  BindInv'
  <1>1. \A d \in Conn \ {c} : StillAt(d)
    BY DEF StillAt
  <1>2. Neutral(c)
    BY DEF Neutral, Named, OwnResource, Binding
  <1>3. Entering(c) /\ Noticed(c)
    BY DEF BindInv
  <1>4. Entering(c)' /\ Noticed(c)'
    BY <1>3 DEF Entering, Noticed, Binding, InBind, Gone
  <1>. QED
    BY <1>1, <1>2, <1>4, QuietStep

LEMMA ClientBinds ==
  ASSUME IInv, BindInv, NEW c \in Conn, Client(c), ~Accept(c)
  PROVE  BindInv'
  <1>1. /\ socket[c] = "open"
        /\ \E cl : client' = [client EXCEPT ![c] = cl]
        /\ UNCHANGED <<socket, job, data, conns, resources, generated, halted, raced>>
    <2>1. CASE SendHeader(c)
      BY <2>1 DEF SendHeader, Connected, tables, history
    <2>2. CASE SendStanza(c)
      BY <2>2 DEF SendStanza, Connected, tables, history
    <2>3. CASE SendClose(c)
      BY <2>3 DEF SendClose, Connected, tables, history
    <2>4. CASE Leave(c)
      BY <2>4 DEF Leave, tables, history
    <2>5. CASE Fail(c)
      BY <2>5 DEF Fail, tables, history
    <2>. QED
      BY <2>1, <2>2, <2>3, <2>4, <2>5 DEF Client
  <1>2. \A d \in Conn \ {c} : client'[d] = client[d]
    BY <1>1 DEF IInv, InputFunctions
  <1>. QED
    BY <1>1, <1>2, ClientStep

LEMMA AcceptBinds ==
  ASSUME IInv, BindInv, NEW c \in Conn, Accept(c)
  PROVE  BindInv'
  <1>0. InputInv(c) /\ InputFunctions /\ TableFunctions /\ Entering(c) /\ Noticed(c)
    BY DEF IInv, BindInv
  <1>1. /\ socket[c] = "none" /\ socket' = [socket EXCEPT ![c] = "open"]
        /\ conns' = [conns EXCEPT ![c] = "unnamed"]
        /\ UNCHANGED <<client, job, data, resources, generated, halted, raced>>
    BY DEF Accept, history
  <1>2. \A d \in Conn \ {c} : StillAt(d)
    BY <1>0, <1>1 DEF StillAt, TableFunctions
  <1>3. socket'[c] = "open" /\ conns'[c] = "unnamed"
    BY <1>0, <1>1 DEF TableFunctions
  <1>4. ~data[c].jid /\ ~data[c].closing
    BY <1>0, <1>1 DEF Entering, InputInv, Headed, Ended
  <1>5. Neutral(c)
    BY <1>1, <1>4 DEF Neutral, Named, OwnResource, Binding
  <1>6. Entering(c)' /\ Noticed(c)'
    BY <1>0, <1>1, <1>3, <1>4 DEF Entering, Noticed, Binding, InBind
  <1>. QED
    BY <1>1, <1>2, <1>5, <1>6, QuietStep

LEMMA ReadErrorBinds ==
  ASSUME IInv, BindInv, NEW c \in Conn, ReadError(c)
  PROVE  BindInv'
  <1>0. TableFunctions /\ Entering(c) /\ Noticed(c)
    BY DEF IInv, BindInv
  <1>1. /\ socket[c] = "open" /\ client[c].end = "reset"
        /\ socket' = [socket EXCEPT ![c] = "closed"]
        /\ UNCHANGED <<client, job, data, conns, resources, generated, halted, raced>>
    BY DEF ReadError, tables, history
  <1>2. \A d \in Conn \ {c} : StillAt(d)
    BY <1>0, <1>1 DEF StillAt, TableFunctions
  <1>3. socket'[c] = "closed"
    BY <1>0, <1>1 DEF TableFunctions
  <1>4. Neutral(c)
    BY <1>1 DEF Neutral, Named, OwnResource, Binding
  <1>5. Entering(c)' /\ Noticed(c)'
    BY <1>0, <1>1, <1>3 DEF Entering, Noticed, Binding, InBind, Gone
  <1>. QED
    BY <1>1, <1>2, <1>4, <1>5, QuietStep

(* The main loop takes a request.                                           *)
LEMMA StartHandlerBinds ==
  ASSUME IInv, BindInv, OneBindInTurn, NEW c \in Conn, StartHandler(c)
  PROVE  BindInv'
  <1>0. InputInv(c) /\ InputFunctions /\ Entering(c) /\ Noticed(c)
    BY DEF IInv, BindInv
  <1>. DEFINE k == Head(queue[c]).kind
              at == IF k \in BindKind THEN "check" ELSE "act"
              j == [Idle EXCEPT !.at = at, !.kind = k]
  <1>1. /\ job' = [job EXCEPT ![c] = j] /\ job[c].at = "idle" /\ k \in Kind /\ queue[c] # <<>>
        /\ UNCHANGED <<client, socket, data, conns, resources, generated, halted, raced>>
    BY DEF StartHandler, Takes, tables, history
  <1>2. k \in Waiting(c)
    <2>1. queue[c] \in Seq(Message)
      BY <1>0 DEF InputFunctions
    <2>2. 1 \in 1..Len(queue[c]) /\ Head(queue[c]) = queue[c][1]
      BY <1>1, <2>1, TakenFacts
    <2>. QED
      BY <2>2 DEF Waiting
  <1>. HIDE DEF k
  <1>3. k \in BindKind => data[c].jid /\ data[c].resource = None
    <2>1. ASSUME k \in BindKind
          PROVE  k = "bind"
      <3>1. k \in Kinds[c]
        BY <1>0, <1>1, <1>2 DEF InputInv, Authenticating
      <3>. QED
        BY <2>1, <3>1 DEF OneBindInTurn, BindKind
    <2>. QED
      BY <1>0, <1>2, <2>1 DEF InputInv, Authenticating
  <1>4. \A d \in Conn \ {c} : StillAt(d)
    BY <1>0, <1>1 DEF StillAt, InputFunctions
  <1>5. job'[c].at = at /\ (at = "check" => k \in BindKind) /\ at \in {"check", "act"}
    BY <1>0, <1>1 DEF InputFunctions, Idle
  <1>. HIDE DEF at, j
  <1>6. Neutral(c)
    BY <1>1, <1>5 DEF Neutral, Named, OwnResource, Binding
  <1>7. ~data[c].closing
    <2>1. k # "end" /\ 1 \in 1..Len(queue[c]) /\ k = queue[c][1].kind
      <3>1. queue[c] \in Seq(Message)
        BY <1>0 DEF InputFunctions
      <3>2. 1 \in 1..Len(queue[c]) /\ Head(queue[c]) = queue[c][1]
        BY <1>1, <3>1, TakenFacts
      <3>. QED
        BY <1>1, <3>2, KindsDistinct DEF k
    <2>. QED
      BY <1>0, <2>1 DEF InputInv, Ended
  <1>8. Entering(c)' /\ Noticed(c)'
    BY <1>0, <1>1, <1>3, <1>5, <1>7 DEF Entering, Noticed, Binding, InBind
  <1>. QED
    BY <1>1, <1>4, <1>6, <1>8, QuietStep

-----------------------------------------------------------------------------
(* Authentication.                                                          *)

LEMMA LogsIn ==
  ASSUME IInv, BindInv, NEW c \in Conn, job[c].at = "act", job[c].kind \in AuthKind,
         NEW j, job' = [job EXCEPT ![c] = j], j.at \in {"idle", "check"},
         NEW e, data' = [data EXCEPT ![c] = e], e.resource = data[c].resource,
         e.closing = data[c].closing,
         \/ e.jid /\ conns' = [conns EXCEPT ![c] = "named"]
         \/ e.jid = data[c].jid /\ j.at = "idle" /\ conns' = conns,
         UNCHANGED <<client, socket, resources, generated, halted, raced>>
  PROVE  BindInv'
  <1>0. InputFunctions /\ TableFunctions /\ Entering(c) /\ Noticed(c)
    BY DEF IInv, BindInv
  <1>1. ~data[c].jid /\ ~data[c].closing
    BY LoggingIn
  <1>2. job'[c] = j /\ data'[c] = e /\ data[c].resource = None
    BY <1>0, <1>1 DEF InputFunctions, Entering
  <1>3. \A d \in Conn \ {c} : StillAt(d)
    BY <1>0 DEF StillAt, InputFunctions, TableFunctions
  <1>4. Neutral(c)
    BY <1>2 DEF Neutral, Named, OwnResource, Binding
  <1>5. e.jid => conns'[c] = "named"
    BY <1>0, <1>1 DEF TableFunctions
  <1>6. Entering(c)' /\ Noticed(c)'
    BY <1>0, <1>1, <1>2, <1>5 DEF Entering, Noticed, Binding, InBind
  <1>. QED
    BY <1>3, <1>4, <1>6, QuietStep

LEMMA ExchangedBinds ==
  ASSUME IInv, BindInv, NEW c \in Conn, job[c].at = "act", job[c].kind \in AuthKind,
         NEW s \in SaslState, Exchanged(c, s), job' = [job EXCEPT ![c] = Idle],
         UNCHANGED <<client, net, socket, queue, resources, generated, history, raced>>
  PROVE  BindInv'
  <1>. DEFINE e == [data[c] EXCEPT !.sasl = s, !.jid = data[c].jid \/ s.complete]
  <1>1. InputFunctions /\ data[c] \in DataState
    BY DEF IInv, InputFunctions
  <1>2. data' = [data EXCEPT ![c] = e]
    BY <1>1 DEF Exchanged, InputFunctions
  <1>3. s.complete \in BOOLEAN /\ data[c].jid \in BOOLEAN
    BY <1>1, TypesAt DEF SaslState
  <1>4. /\ e.resource = data[c].resource /\ e.closing = data[c].closing
        /\ e.jid = (data[c].jid \/ s.complete)
    BY <1>1, <1>3 DEF DataState
  <1>. HIDE DEF e
  <1>5. \/ e.jid /\ conns' = [conns EXCEPT ![c] = "named"]
        \/ e.jid = data[c].jid /\ conns' = conns
    BY <1>3, <1>4 DEF Exchanged, Authenticated
  <1>6. Idle.at = "idle"
    BY DEF Idle
  <1>. QED
    BY <1>2, <1>4, <1>5, <1>6, LogsIn DEF history

LEMMA IQAuthSetBinds ==
  ASSUME IInv, BindInv, NEW c \in Conn, IQAuthSet(c)
  PROVE  BindInv'
  <1>0. InputFunctions /\ data[c] \in DataState /\ job[c] \in JobState
    BY DEF IInv, InputFunctions
  <1>1. job[c].at = "act" /\ job[c].kind \in AuthKind
    BY DEF IQAuthSet, InWorker, AuthKind
  <1>2. UNCHANGED <<client, socket, resources, generated, halted, raced>>
    BY DEF IQAuthSet, history
  <1>3. CASE /\ job' = [job EXCEPT ![c] = Idle]
             /\ UNCHANGED <<data, conns, parser>>
    <2>1. data' = [data EXCEPT ![c] = data[c]]
      BY <1>0, <1>3 DEF InputFunctions
    <2>2. Idle.at = "idle"
      BY DEF Idle
    <2>. QED
      BY <1>1, <1>2, <1>3, <2>1, <2>2, LogsIn
  <1>4. CASE /\ data' = [data EXCEPT ![c].jid = TRUE]
             /\ Authenticated(c)
             /\ job' = [job EXCEPT ![c].at = "check"]
    <2>. DEFINE e == [data[c] EXCEPT !.jid = TRUE]
                j == [job[c] EXCEPT !.at = "check"]
    <2>1. data' = [data EXCEPT ![c] = e] /\ job' = [job EXCEPT ![c] = j]
      BY <1>0, <1>4 DEF InputFunctions
    <2>2. e.resource = data[c].resource /\ e.closing = data[c].closing /\ e.jid
      BY <1>0 DEF DataState
    <2>3. j.at = "check"
      BY <1>0 DEF JobState
    <2>4. conns' = [conns EXCEPT ![c] = "named"]
      BY <1>4 DEF Authenticated
    <2>. HIDE DEF e, j
    <2>. QED
      BY <1>1, <1>2, <2>1, <2>2, <2>3, <2>4, LogsIn
  <1>. QED
    BY <1>3, <1>4 DEF IQAuthSet

LEMMA PresenceActBinds ==
  ASSUME IInv, BindInv, NEW c \in Conn, PresenceAct(c)
  PROVE  BindInv'
  <1>0. InputInv(c) /\ InputFunctions /\ data[c] \in DataState /\ Entering(c) /\ Noticed(c)
    BY DEF IInv, InputFunctions, BindInv
  <1>1. /\ job' = [job EXCEPT ![c] = Idle] /\ data' = [data EXCEPT ![c].active = TRUE]
        /\ job[c].at = "act"
        /\ UNCHANGED <<client, socket, conns, resources, generated, halted, raced>>
    BY DEF PresenceAct, InWorker, tables, history
  <1>2. /\ job'[c].at = "idle" /\ data'[c].jid = data[c].jid
        /\ data'[c].resource = data[c].resource /\ data'[c].closing = data[c].closing
    <2>1. job'[c] = Idle /\ data'[c] = [data[c] EXCEPT !.active = TRUE]
      BY <1>0, <1>1 DEF InputFunctions
    <2>. QED
      BY <1>0, <2>1 DEF Idle, DataState
  <1>3. \A d \in Conn \ {c} : StillAt(d)
    BY <1>0, <1>1 DEF StillAt, InputFunctions
  <1>4. Neutral(c)
    BY <1>1, <1>2 DEF Neutral, Named, OwnResource, Binding
  <1>5. Entering(c)' /\ Noticed(c)'
    BY <1>0, <1>1, <1>2 DEF Entering, Noticed, Binding, InBind, Gone
  <1>. QED
    BY <1>1, <1>3, <1>4, <1>5, QuietStep

-----------------------------------------------------------------------------
(* bindResource().                                                          *)

(* What a connection inside of it is known to be.                           *)
LEMMA InBindFacts ==
  ASSUME IInv, BindInv, NEW c \in Conn, InBind(c)
  PROVE  /\ data[c].jid /\ ~data[c].closing /\ conns[c] = "named"
         /\ socket[c] # "none" /\ Entering(c) /\ Noticed(c)
         /\ UserOf[c] \in User
  <1>0. InputInv(c) /\ Entering(c) /\ Noticed(c)
    BY DEF IInv, BindInv
  <1>1. Busy(c) /\ job[c].at \notin {"last", "listing"}
    BY DEF InBind, Busy
  <1>2. data[c].jid /\ ~data[c].closing
    BY <1>0, <1>1 DEF Entering, InputInv, Ended
  <1>3. client[c].headers # 0
    BY <1>0, <1>1 DEF InputInv, Headed
  <1>. QED
    BY <1>0, <1>2, <1>3, SessionAssumption DEF Entering

LEMMA BindCheckBinds ==
  ASSUME IInv, BindInv, NEW c \in Conn, BindCheck(c)
  PROVE  BindInv'
  <1>0. InputFunctions /\ TableFunctions
    BY DEF IInv
  <1>. DEFINE name == IF Taken(c) THEN generated + 1 ELSE 0
              u == UserOf[c]
  <1>1. /\ job[c].at = "check" /\ data' = [data EXCEPT ![c].resource = name]
        /\ generated' = IF Taken(c) THEN name ELSE generated
        /\ raced' = IF Rivals(c) = {} THEN raced ELSE raced \cup {u}
        /\ UNCHANGED <<client, socket, conns, resources, halted>>
    BY DEF BindCheck, history
  <1>2. /\ data[c].jid /\ ~data[c].closing /\ conns[c] = "named" /\ socket[c] # "none"
        /\ Entering(c) /\ Noticed(c) /\ u \in User
    BY <1>1, InBindFacts DEF InBind
  <1>3. job' = [job EXCEPT ![c] = [@ EXCEPT !.at = "look", !.name = name]]
    BY <1>2 DEF BindCheck
  <1>4. /\ generated \in Nat /\ generated' \in Nat /\ generated <= generated'
        /\ name \in Nat /\ name # None
    BY <1>0, <1>1, SessionAssumption DEF TableFunctions, Name
  (* A name made up is above all others, and the one asked for is free.     *)
  <1>5. /\ name <= generated'
        /\ u \in DOMAIN resources /\ Tabled(u) => name \notin DOMAIN resources[u]
    <2>1. CASE Taken(c)
      <3>1. name = generated + 1 /\ generated' = name
        BY <1>1, <2>1
      <3>2. ASSUME u \in DOMAIN resources, Tabled(u), name \in DOMAIN resources[u]
            PROVE  FALSE
        <4>1. name <= generated
          BY <3>2 DEF Tabled
        <4>. QED
          BY <1>4, <3>1, <4>1
      <3>. QED
        BY <1>4, <3>1, <3>2
    <2>2. CASE ~Taken(c)
      <3>1. name = 0 /\ generated' = generated
        BY <1>1, <2>2
      <3>2. u \in DOMAIN resources => 0 \notin DOMAIN resources[u]
        BY <1>2, <2>2 DEF Taken, BareJid
      <3>. QED
        BY <1>4, <3>1, <3>2
    <2>. QED
      BY <2>1, <2>2
  <1>. HIDE DEF name, u
  <1>6. /\ job'[c].at = "look" /\ job'[c].name = name
        /\ data'[c].resource = name /\ data'[c].jid = data[c].jid
        /\ data'[c].closing = data[c].closing
    <2>1. /\ job'[c] = [job[c] EXCEPT !.at = "look", !.name = name] /\ job[c] \in JobState
          /\ data'[c] = [data[c] EXCEPT !.resource = name] /\ data[c] \in DataState
      BY <1>0, <1>1, <1>3 DEF InputFunctions
    <2>. QED
      BY <2>1 DEF JobState, DataState
  <1>7. \A d \in Conn \ {c} : StillAt(d)
    BY <1>0, <1>1, <1>3 DEF StillAt, InputFunctions
  <1>8. Entering(c)' /\ Noticed(c)'
    BY <1>1, <1>2, <1>6 DEF Entering, Noticed, Binding, InBind, Gone
  <1>9. \A d \in Conn : Entering(d)' /\ Noticed(d)'
    BY <1>1, <1>7, <1>8, StillEntering DEF BindInv
  <1>10. data[c].resource = None /\ ~Named(c) /\ ~Binding(c)
    BY <1>1, <1>2 DEF Entering, Named, OwnResource, Binding
  (* Other accounts.                                                        *)
  <1>11. ASSUME NEW v \in User, Tabled(v), v # u
         PROVE  Tabled(v)'
    <2>1. \A d \in Conn : UserOf[d] = v => Neutral(d)
      BY <1>7, <1>11, StillNeutral DEF u
    <2>. QED
      BY <1>1, <1>4, <1>11, <2>1, SameTable
  (* Its own, if it binds alone.                                            *)
  <1>12. ASSUME Rivals(c) = {}, Tabled(u)
         PROVE  Tabled(u)'
    <2>1. ASSUME NEW d \in Conn, UserOf[d] = u, d # c
          PROVE  Neutral(d) /\ ~Binding(d) /\ ~Binding(d)' /\ StillAt(d)
      <3>1. ~Binding(d)
        BY <1>12, <2>1 DEF Rivals, u
      <3>2. Neutral(d) /\ StillAt(d)
        BY <1>7, <2>1, StillNeutral
      <3>. QED
        BY <3>1, <3>2 DEF Neutral
    <2>2. ASSUME u \in DOMAIN resources, NEW n \in DOMAIN resources[u]
          PROVE  EntryFits(u, n, resources[u][n])' /\ n <= generated'
      <3>1. /\ EntryFits(u, n, resources[u][n]) /\ n <= generated /\ n \in Nat
            /\ resources[u][n] \in Conn
        BY <1>0, <1>12, <2>2 DEF Tabled, TableFunctions, Name
      <3>2. PICK d \in Conn : d = resources[u][n] /\ EntryFits(u, n, d)
        BY <3>1
      <3>3. d # c
        BY <1>10, <3>1, <3>2, SessionAssumption DEF EntryFits
      <3>4. StillAt(d) /\ resources'[u][n] = d
        BY <1>1, <1>7, <3>2, <3>3
      <3>5. EntryFits(u, n, d)'
        BY <3>2, <3>4 DEF EntryFits, StillAt
      <3>6. n <= generated'
        BY <1>4, <3>1
      <3>. QED
        BY <3>4, <3>5, <3>6 DEF EntryFits
    <2>3. ASSUME NEW d \in Conn, UserOf[d] = u, Named(d)', ~Binding(d)'
          PROVE  IsEntered(d)'
      <3>1. d # c
        BY <1>6, <2>3 DEF Binding
      <3>2. Named(d) /\ ~Binding(d) /\ StillAt(d)
        BY <2>1, <2>3, <3>1 DEF Neutral
      <3>3. IsEntered(d)
        BY <1>12, <2>3, <3>2 DEF Tabled
      <3>. QED
        BY <1>1, <3>2, <3>3 DEF IsEntered, StillAt
    <2>4. ASSUME NEW d \in Conn, UserOf[d] = u, Binding(d)'
          PROVE  BindsAlone(u, d)'
      <3>1. d = c
        BY <2>1, <2>4
      <3>2. \A e \in Conn : UserOf[e] = u /\ Binding(e)' => e = c
        BY <2>1
      <3>. QED
        BY <1>1, <1>5, <1>6, <1>12, <3>1, <3>2 DEF BindsAlone
    <2>. QED
      BY <1>1, <2>2, <2>3, <2>4 DEF Tabled
  <1>13. ASSUME NEW v \in User \ raced'
         PROVE  Tabled(v)'
    <2>1. v \in User \ raced
      BY <1>1, <1>13
    <2>2. Tabled(v) /\ v \in User
      BY <2>1 DEF BindInv
    <2>3. v = u => Rivals(c) = {}
      BY <1>1, <1>13
    <2>. QED
      BY <1>11, <1>12, <2>2, <2>3
  <1>. QED
    BY <1>9, <1>13 DEF BindInv

(* The later steps of bindResource(): what they leave alone.                *)
LEMMA LaterStep ==
  ASSUME IInv, BindInv, NEW c \in Conn, Binding(c),
         NEW at \in {"create", "put", "idle"}, NEW j, job' = [job EXCEPT ![c] = j],
         j.at = at, at # "idle" => j.name = job[c].name,
         UNCHANGED <<client, socket, data, conns, generated, halted, raced>>,
         \A v \in User : v # UserOf[c] =>
           /\ v \in DOMAIN resources' <=> v \in DOMAIN resources
           /\ v \in DOMAIN resources => resources'[v] = resources[v],
         UserOf[c] \notin raced => Tabled(UserOf[c])'
  PROVE  BindInv'
  <1>0. InputFunctions /\ TableFunctions
    BY DEF IInv
  <1>1. /\ data[c].jid /\ ~data[c].closing /\ conns[c] = "named" /\ socket[c] # "none"
        /\ Entering(c) /\ Noticed(c) /\ UserOf[c] \in User
    BY InBindFacts DEF InBind, Binding
  <1>2. job'[c] = j
    BY <1>0 DEF InputFunctions
  <1>3. \A d \in Conn \ {c} : StillAt(d)
    BY <1>0 DEF StillAt, InputFunctions
  <1>4. Entering(c)' /\ Noticed(c)'
    <2>1. data[c].resource = job[c].name
      BY <1>1 DEF Entering
    <2>. QED
      BY <1>1, <1>2, <2>1 DEF Entering, Noticed, Binding, InBind, Gone
  <1>5. \A d \in Conn : Entering(d)' /\ Noticed(d)'
    BY <1>3, <1>4, StillEntering DEF BindInv
  <1>6. generated' \in Nat /\ generated <= generated'
    BY <1>0 DEF TableFunctions, Name
  <1>7. ASSUME NEW v \in User, v # UserOf[c], v \notin raced
        PROVE  Tabled(v)'
    <2>1. \A d \in Conn : UserOf[d] = v => Neutral(d)
      BY <1>3, <1>7, StillNeutral
    <2>2. Tabled(v)
      BY <1>7 DEF BindInv
    <2>. QED
      BY <1>6, <1>7, <2>1, <2>2, SameTable
  <1>. QED
    BY <1>5, <1>7 DEF BindInv

LEMMA BindLookBinds ==
  ASSUME IInv, BindInv, NEW c \in Conn, BindLook(c)
  PROVE  BindInv'
  <1>0. InputFunctions /\ TableFunctions /\ UserOf[c] \in User
    BY SessionAssumption DEF IInv
  <1>. DEFINE u == UserOf[c]
              at == IF u \in DOMAIN resources THEN "put" ELSE "create"
              j == [job[c] EXCEPT !.at = at]
  <1>1. /\ Binding(c) /\ job' = [job EXCEPT ![c] = j]
        /\ UNCHANGED <<client, socket, data, conns, generated, halted, raced, resources>>
    BY <1>0 DEF BindLook, tables, history, Binding, InputFunctions
  <1>2. j.at = at /\ j.name = job[c].name
    <2>1. job[c] \in JobState
      BY <1>0 DEF InputFunctions
    <2>. QED
      BY <2>1 DEF JobState
  <1>3. job'[c] = j
    BY <1>0, <1>1 DEF InputFunctions
  <1>4. \A d \in Conn \ {c} : StillAt(d)
    BY <1>0, <1>1 DEF StillAt, InputFunctions
  <1>5. ASSUME u \notin raced
        PROVE  Tabled(u)'
    <2>1. Tabled(u) /\ BindsAlone(u, c)
      BY <1>0, <1>1, <1>5 DEF BindInv, Tabled
    <2>2. BindsAlone(u, c)'
      <3>1. \A d \in Conn : UserOf[d] = u /\ Binding(d)' => d = c
        <4>1. ASSUME NEW d \in Conn, UserOf[d] = u, Binding(d)', d # c
              PROVE  FALSE
          <5>1. Binding(d)
            BY <1>4, <4>1 DEF StillAt, Binding
          <5>. QED
            BY <2>1, <4>1, <5>1 DEF BindsAlone
        <4>. QED
          BY <4>1
      <3>. QED
        BY <1>1, <1>2, <1>3, <2>1, <3>1 DEF BindsAlone
    <2>3. \A d \in Conn : UserOf[d] = u /\ Binding(d)' => d = c
      BY <2>2 DEF BindsAlone
    <2>4. Binding(c)'
      BY <1>2, <1>3 DEF Binding
    <2>5. ASSUME NEW d \in Conn, UserOf[d] = u, Named(d)', ~Binding(d)'
          PROVE  IsEntered(d)'
      <3>1. d # c
        BY <2>4, <2>5
      <3>2. Named(d) /\ ~Binding(d) /\ StillAt(d)
        BY <1>4, <2>5, <3>1, StillNeutral DEF Neutral
      <3>3. IsEntered(d)
        BY <2>1, <2>5, <3>2 DEF Tabled
      <3>. QED
        BY <1>1, <3>2, <3>3 DEF IsEntered, StillAt
    <2>. QED
      BY <1>1, <2>1, <2>2, <2>3, <2>5 DEF Tabled, EntryFits
  <1>. HIDE DEF at, j
  <1>6. at \in {"create", "put"}
    BY DEF at
  <1>. QED
    BY <1>1, <1>2, <1>5, <1>6, LaterStep

LEMMA BindCreateBinds ==
  ASSUME IInv, BindInv, NEW c \in Conn, BindCreate(c)
  PROVE  BindInv'
  <1>0. InputFunctions /\ TableFunctions /\ UserOf[c] \in User
    BY SessionAssumption DEF IInv
  <1>. DEFINE u == UserOf[c]
              j == [job[c] EXCEPT !.at = "put"]
  <1>1. /\ Binding(c) /\ job[c].at = "create" /\ job' = [job EXCEPT ![c] = j]
        /\ resources' = [v \in DOMAIN resources \cup {u} |->
                           IF v = u THEN <<>> ELSE resources[v]]
        /\ UNCHANGED <<client, socket, data, conns, generated, halted, raced>>
    BY <1>0 DEF BindCreate, Binding, InputFunctions, history
  <1>2. j.at = "put" /\ j.name = job[c].name
    <2>1. job[c] \in JobState
      BY <1>0 DEF InputFunctions
    <2>. QED
      BY <2>1 DEF JobState
  <1>3. job'[c] = j
    BY <1>0, <1>1 DEF InputFunctions
  <1>4. \A d \in Conn \ {c} : StillAt(d)
    BY <1>0, <1>1 DEF StillAt, InputFunctions
  <1>5. u \in DOMAIN resources' /\ resources'[u] = <<>> /\ DOMAIN resources'[u] = {}
    BY <1>1
  <1>6. ASSUME u \notin raced
        PROVE  Tabled(u)'
    <2>1. Tabled(u) /\ BindsAlone(u, c) /\ u \notin DOMAIN resources
      BY <1>0, <1>1, <1>6 DEF BindInv, Tabled, BindsAlone
    <2>2. \A d \in Conn : UserOf[d] = u /\ Binding(d)' => d = c
      <3>1. ASSUME NEW d \in Conn, UserOf[d] = u, Binding(d)', d # c
            PROVE  FALSE
        <4>1. Binding(d)
          BY <1>4, <3>1 DEF StillAt, Binding
        <4>. QED
          BY <2>1, <3>1, <4>1 DEF BindsAlone
      <3>. QED
        BY <3>1
    <2>3. BindsAlone(u, c)'
      BY <1>1, <1>2, <1>3, <1>5, <2>1, <2>2 DEF BindsAlone
    <2>4. Binding(c)'
      BY <1>2, <1>3 DEF Binding
    <2>5. ASSUME NEW d \in Conn, UserOf[d] = u, Named(d)', ~Binding(d)'
          PROVE  FALSE
      <3>1. d # c
        BY <2>4, <2>5
      <3>2. Named(d) /\ ~Binding(d)
        BY <1>4, <2>5, <3>1, StillNeutral DEF Neutral
      <3>3. IsEntered(d)
        BY <2>1, <2>5, <3>2 DEF Tabled
      <3>. QED
        BY <2>1, <2>5, <3>3 DEF IsEntered
    <2>. QED
      BY <1>5, <2>2, <2>3, <2>5 DEF Tabled
  <1>7. \A v \in User : v # u =>
           /\ v \in DOMAIN resources' <=> v \in DOMAIN resources
           /\ v \in DOMAIN resources => resources'[v] = resources[v]
    BY <1>1
  <1>. HIDE DEF j
  <1>. QED
    BY <1>1, <1>2, <1>6, <1>7, LaterStep

LEMMA BindPutBinds ==
  ASSUME IInv, BindInv, NEW c \in Conn, BindPut(c)
  PROVE  BindInv'
  <1>0. InputFunctions /\ TableFunctions /\ UserOf[c] \in User
    BY SessionAssumption DEF IInv
  <1>. DEFINE u == UserOf[c]
              m == job[c].name
              t == [n \in DOMAIN resources[u] \cup {m} |->
                      IF n = m THEN c ELSE resources[u][n]]
  <1>1. /\ Binding(c) /\ job[c].at = "put" /\ job' = [job EXCEPT ![c] = Idle]
        /\ resources' = [resources EXCEPT ![u] = t]
        /\ UNCHANGED <<client, socket, data, conns, generated, halted, raced>>
    BY DEF BindPut, Binding, history
  <1>2. DOMAIN t = DOMAIN resources[u] \cup {m} /\ t[m] = c
        /\ \A n \in DOMAIN resources[u] : n # m => t[n] = resources[u][n]
    OBVIOUS
  <1>. HIDE DEF t, m
  <1>3. Idle.at = "idle" /\ job'[c] = Idle
    BY <1>0, <1>1 DEF InputFunctions, Idle
  <1>4. \A d \in Conn \ {c} : StillAt(d)
    BY <1>0, <1>1 DEF StillAt, InputFunctions
  <1>5. data[c].jid /\ conns[c] = "named" /\ data[c].resource = m
    BY <1>1, InBindFacts DEF InBind, Binding, Entering, m
  <1>6. ASSUME u \notin raced
        PROVE  Tabled(u)'
    <2>1. Tabled(u) /\ BindsAlone(u, c)
      BY <1>0, <1>1, <1>6 DEF BindInv, Tabled
    <2>2. u \in DOMAIN resources /\ m \notin DOMAIN resources[u] /\ m <= generated
      BY <1>1, <2>1 DEF BindsAlone, m
    <2>3. u \in DOMAIN resources' /\ resources'[u] = t
      BY <1>1, <2>2
    <2>4. \A d \in Conn : UserOf[d] = u => ~Binding(d)'
      <3>1. ~Binding(c)'
        BY <1>3 DEF Binding
      <3>2. ASSUME NEW d \in Conn, UserOf[d] = u, Binding(d)', d # c
            PROVE  FALSE
        <4>1. Binding(d)
          BY <1>4, <3>2 DEF StillAt, Binding
        <4>. QED
          BY <2>1, <3>2, <4>1 DEF BindsAlone
      <3>. QED
        BY <3>1, <3>2
    <2>5. ASSUME NEW n \in DOMAIN resources'[u]
          PROVE  EntryFits(u, n, resources[u][n])' /\ n <= generated'
      <3>1. CASE n = m
        BY <1>1, <1>2, <1>5, <2>2, <2>3, <3>1 DEF EntryFits
      <3>2. CASE n # m
        <4>1. n \in DOMAIN resources[u] /\ resources'[u][n] = resources[u][n]
          BY <1>2, <2>3, <2>5, <3>2
        <4>2. EntryFits(u, n, resources[u][n]) /\ n <= generated
          BY <2>1, <2>2, <4>1 DEF Tabled
        <4>. QED
          BY <1>1, <4>1, <4>2 DEF EntryFits
      <3>. QED
        BY <3>1, <3>2
    <2>6. ASSUME NEW d \in Conn, UserOf[d] = u, Named(d)'
          PROVE  IsEntered(d)'
      <3>1. CASE d = c
        BY <1>1, <1>2, <1>5, <2>3, <3>1 DEF IsEntered
      <3>2. CASE d # c
        <4>1. Named(d) /\ StillAt(d)
          BY <1>4, <2>6, <3>2, StillNeutral DEF Neutral
        <4>2. ~Binding(d)
          BY <1>4, <2>4, <2>6, <3>2 DEF StillAt, Binding
        <4>3. IsEntered(d)
          BY <2>1, <2>6, <4>1, <4>2 DEF Tabled
        <4>4. data[d].resource \in DOMAIN resources[u] /\ data[d].resource # m
          BY <2>2, <2>6, <4>3 DEF IsEntered
        <4>. QED
          BY <1>2, <2>3, <2>6, <4>1, <4>3, <4>4 DEF IsEntered, StillAt
      <3>. QED
        BY <3>1, <3>2
    <2>. QED
      BY <2>4, <2>5, <2>6 DEF Tabled
  <1>7. \A v \in User : v # u =>
           /\ v \in DOMAIN resources' <=> v \in DOMAIN resources
           /\ v \in DOMAIN resources => resources'[v] = resources[v]
    BY <1>1
  <1>. QED
    BY <1>1, <1>3, <1>6, <1>7, LaterStep

-----------------------------------------------------------------------------
(* The end of a stream.                                                     *)

(* The entry of c leaves the table.                                         *)
LEMMA EntryLeaves ==
  ASSUME IInv, NEW c \in Conn, NEW u, u = UserOf[c], u \in User, Tabled(u),
         OwnResource(c), IsEntered(c), ~Binding(c), job'[c].at = "idle",
         conns'[c] = "absent", generated' = generated,
         \A d \in Conn \ {c} : StillAt(d),
         resources' = [resources EXCEPT ![u] = Restrict(@, DOMAIN @ \ {data[c].resource})]
  PROVE  Tabled(u)'
  <1>. DEFINE t == resources[u]
              r == data[c].resource
              v == Restrict(t, DOMAIN t \ {r})
  <1>0. TableFunctions
    BY DEF IInv
  <1>1. u \in DOMAIN resources /\ r \in DOMAIN t /\ t[r] = c
    BY DEF IsEntered
  <1>2. DOMAIN v = DOMAIN t \ {r} /\ \A n \in DOMAIN v : v[n] = t[n]
    BY DEF Restrict
  <1>. HIDE DEF v
  <1>3. u \in DOMAIN resources' /\ resources'[u] = v
    BY <1>1 DEF v
  <1>4. ASSUME NEW n \in DOMAIN v
        PROVE  EntryFits(u, n, resources[u][n])' /\ n <= generated'
    <2>1. n \in DOMAIN t /\ n # r /\ v[n] = t[n]
      BY <1>2
    <2>2. EntryFits(u, n, t[n]) /\ n <= generated /\ t[n] \in Conn
      BY <1>0, <1>1, <2>1 DEF Tabled, TableFunctions
    <2>3. PICK d \in Conn : d = t[n] /\ EntryFits(u, n, d)
      BY <2>2
    <2>4. d # c
      BY <2>1, <2>3 DEF EntryFits
    <2>5. StillAt(d) /\ resources'[u][n] = d
      BY <1>3, <2>1, <2>3, <2>4
    <2>6. EntryFits(u, n, d)'
      BY <2>3, <2>5 DEF EntryFits, StillAt
    <2>. QED
      BY <2>2, <2>5, <2>6 DEF EntryFits
  <1>5. ASSUME NEW d \in Conn, UserOf[d] = u, Named(d)', ~Binding(d)'
        PROVE  IsEntered(d)'
    <2>1. d # c
      BY <1>5 DEF Named
    <2>2. Named(d) /\ ~Binding(d) /\ StillAt(d)
      BY <1>5, <2>1, StillNeutral DEF Neutral
    <2>3. data[d].resource \in DOMAIN t /\ t[data[d].resource] = d
      BY <1>5, <2>2 DEF Tabled, IsEntered
    <2>4. data[d].resource \in DOMAIN v /\ v[data[d].resource] = d
      BY <1>1, <1>2, <2>1, <2>3
    <2>. QED
      BY <1>3, <1>5, <2>2, <2>4 DEF IsEntered, StillAt
  <1>6. ASSUME NEW d \in Conn, Binding(d)'
        PROVE  d # c /\ Binding(d) /\ StillAt(d)
    <2>1. d # c
      BY <1>6 DEF Binding
    <2>. QED
      BY <1>6, <2>1 DEF StillAt, Binding
  <1>7. ASSUME NEW d \in Conn, UserOf[d] = u, Binding(d)'
        PROVE  BindsAlone(u, d)'
    <2>1. BindsAlone(u, d) /\ StillAt(d)
      BY <1>6, <1>7 DEF Tabled
    <2>2. \A e \in Conn : UserOf[e] = u /\ Binding(e)' => e = d
      BY <1>6, <2>1 DEF BindsAlone
    <2>3. job'[d].name \notin DOMAIN resources'[u]
      BY <1>1, <1>2, <1>3, <2>1 DEF BindsAlone, StillAt
    <2>4. job'[d].at # "create"
      BY <1>1, <2>1 DEF BindsAlone, StillAt
    <2>. QED
      BY <1>3, <2>1, <2>2, <2>3, <2>4 DEF BindsAlone, StillAt
  <1>. QED
    BY <1>3, <1>4, <1>5, <1>7 DEF Tabled

LEMMA CleanedUpBinds ==
  ASSUME IInv, BindInv, NEW c \in Conn, job[c].at \in {"idle", "listing"},
         ~data[c].closing \/ job[c].at = "listing", CleanedUp(c), job'[c].at = "idle",
         data'[c].closing, data'[c].jid = data[c].jid,
         data'[c].resource = data[c].resource,
         \A d \in Conn \ {c} : job'[d] = job[d] /\ data'[d] = data[d],
         UNCHANGED <<client, generated, halted, raced>>
  PROVE  BindInv'
  <1>. DEFINE u == UserOf[c]
  <1>0. TableFunctions /\ Entering(c) /\ Noticed(c) /\ u \in User
    BY SessionAssumption DEF IInv, BindInv
  <1>1. ~Binding(c) /\ ~InBind(c) /\ ~Binding(c)' /\ ~InBind(c)'
    BY DEF Binding, InBind
  <1>2. ASSUME u \notin raced
        PROVE  Tabled(u) /\ (OwnResource(c) => IsEntered(c))
    <2>1. Tabled(u)
      BY <1>0, <1>2 DEF BindInv
    <2>2. OwnResource(c) => Named(c)
      BY <1>0 DEF Entering, Named, OwnResource
    <2>. QED
      BY <1>1, <2>1, <2>2 DEF Tabled
  <1>3. \/ u \in raced /\ UNCHANGED <<resources, conns, socket>>
        \/ /\ conns' = [conns EXCEPT ![c] = "absent"]
           /\ socket' = [socket EXCEPT ![c] = "closed"]
           /\ \/ ~OwnResource(c) /\ resources' = resources
              \/ /\ OwnResource(c)
                 /\ resources' = [resources EXCEPT ![u] =
                                    Restrict(@, DOMAIN @ \ {data[c].resource})]
    <2>1. u \notin raced => (OwnResource(c) => /\ UserOf[c] \in DOMAIN resources
                                               /\ data[c].resource \in DOMAIN resources[UserOf[c]])
      BY <1>2 DEF IsEntered
    <2>. QED
      BY <2>1 DEF CleanedUp
  <1>4. u \in raced \/ (conns'[c] = "absent" /\ socket'[c] = "closed")
    BY <1>0, <1>3 DEF TableFunctions
  <1>5. \A d \in Conn \ {c} : StillAt(d)
    BY <1>0, <1>3 DEF StillAt, TableFunctions
  <1>6. socket'[c] \in {socket[c], "closed"}
    BY <1>0, <1>3 DEF TableFunctions
  <1>7. Entering(c)' /\ Noticed(c)'
    BY <1>0, <1>1, <1>4, <1>6 DEF Entering, Noticed, Gone
  <1>8. \A d \in Conn : Entering(d)' /\ Noticed(d)'
    BY <1>5, <1>7, StillEntering DEF BindInv
  <1>9. generated' \in Nat /\ generated <= generated'
    BY <1>0 DEF TableFunctions, Name
  <1>10. ASSUME NEW v \in User, Tabled(v), v # u
         PROVE  Tabled(v)'
    <2>1. \A d \in Conn : UserOf[d] = v => Neutral(d)
      BY <1>5, <1>10, StillNeutral
    <2>2. /\ v \in DOMAIN resources' <=> v \in DOMAIN resources
          /\ v \in DOMAIN resources => resources'[v] = resources[v]
      BY <1>3, <1>10
    <2>. QED
      BY <1>9, <1>10, <2>1, <2>2, SameTable
  <1>11. ASSUME u \notin raced
         PROVE  Tabled(u)'
    <2>1. Tabled(u) /\ conns'[c] = "absent"
      BY <1>2, <1>4, <1>11
    <2>2. CASE OwnResource(c)
      <3>1. /\ IsEntered(c)
            /\ resources' = [resources EXCEPT ![u] =
                               Restrict(@, DOMAIN @ \ {data[c].resource})]
        BY <1>2, <1>3, <1>11, <2>2
      <3>. QED
        BY <1>0, <1>1, <1>5, <2>1, <2>2, <3>1, EntryLeaves
    <2>3. CASE ~OwnResource(c)
      <3>1. Neutral(c)
        BY <1>1, <2>1, <2>3 DEF Neutral, Named
      <3>2. \A d \in Conn : Neutral(d)
        BY <1>5, <3>1, StillNeutral
      <3>3. resources' = resources
        BY <1>3, <1>11, <2>3
      <3>. QED
        BY <1>0, <1>9, <2>1, <3>2, <3>3, SameTable
    <2>. QED
      BY <2>2, <2>3
  <1>12. ASSUME NEW v \in User \ raced'
         PROVE  Tabled(v)'
    <2>1. v \in User /\ v \notin raced /\ Tabled(v)
      BY <1>12 DEF BindInv
    <2>. QED
      BY <1>10, <1>11, <2>1
  <1>. QED
    BY <1>8, <1>12 DEF BindInv

(* A step at the end of a stream that leaves the tables alone.              *)
LEMMA LeavingBinds ==
  ASSUME IInv, BindInv, NEW c \in Conn, job[c].at \in {"last", "listing"},
         NEW j, job' = [job EXCEPT ![c] = j], j.at \in {"idle", "listing"},
         halted \subseteq halted', j.at = "listing" \/ c \in halted',
         UNCHANGED <<client, socket, data, conns, resources, generated, raced>>
  PROVE  BindInv'
  <1>0. InputInv(c) /\ InputFunctions /\ Entering(c) /\ Noticed(c)
    BY DEF IInv, BindInv
  <1>1. data[c].closing
    BY <1>0 DEF InputInv, Ended
  <1>2. job'[c] = j
    BY <1>0 DEF InputFunctions
  <1>3. \A d \in Conn \ {c} : StillAt(d)
    BY <1>0 DEF StillAt, InputFunctions
  <1>4. Neutral(c)
    BY <1>2 DEF Neutral, Named, OwnResource, Binding
  <1>5. Entering(c)' /\ Noticed(c)'
    BY <1>0, <1>1, <1>2 DEF Entering, Noticed, Binding, InBind, Gone
  <1>. QED
    BY <1>3, <1>4, <1>5, QuietStep

LEMMA LastPresenceBinds ==
  ASSUME IInv, BindInv, NEW c \in Conn, LastPresence(c)
  PROVE  BindInv'
  <1>0. InputFunctions
    BY DEF IInv
  <1>1. /\ job[c].at = "last"
        /\ UNCHANGED <<client, socket, data, conns, resources, generated, raced>>
    BY DEF LastPresence, tables
  <1>2. CASE UserOf[c] \notin DOMAIN resources
    BY <1>1, <1>2, IdleTyped, LeavingBinds DEF LastPresence, Halts
  <1>3. CASE UserOf[c] \in DOMAIN resources
    <2>. DEFINE j == [job[c] EXCEPT !.at = "listing", !.seen = DOMAIN resources[UserOf[c]]]
    <2>1. job' = [job EXCEPT ![c] = j] /\ halted' = halted
      BY <1>0, <1>3 DEF LastPresence, InputFunctions
    <2>2. j.at = "listing"
      BY <1>0 DEF InputFunctions, JobState
    <2>. HIDE DEF j
    <2>. QED
      BY <1>1, <2>1, <2>2, LeavingBinds
  <1>. QED
    BY <1>2, <1>3

LEMMA LastPresenceRaisesBinds ==
  ASSUME IInv, BindInv, NEW c \in Conn, LastPresenceRaises(c)
  PROVE  BindInv'
  <1>1. /\ job[c].at = "listing" /\ job' = [job EXCEPT ![c] = Idle]
        /\ halted' = halted \cup {c}
        /\ UNCHANGED <<client, socket, data, conns, resources, generated, raced>>
    BY DEF LastPresenceRaises, Halts, tables
  <1>. QED
    BY <1>1, IdleTyped, LeavingBinds

LEMMA CleanUpBinds ==
  ASSUME IInv, BindInv, NEW c \in Conn, CleanUp(c)
  PROVE  BindInv'
  <1>0. InputInv(c) /\ InputFunctions
    BY DEF IInv
  <1>1. /\ job[c].at = "listing" /\ job' = [job EXCEPT ![c] = Idle]
        /\ UNCHANGED <<client, data, generated, raced>>
    BY DEF CleanUp, Halts
  <1>2. data[c].closing
    BY <1>0, <1>1 DEF InputInv, Ended
  <1>3. CASE halted' = halted /\ CleanedUp(c)
    <2>1. job'[c].at = "idle" /\ \A d \in Conn \ {c} : job'[d] = job[d]
      BY <1>0, <1>1 DEF InputFunctions, Idle
    <2>. QED
      BY <1>1, <1>2, <1>3, <2>1, CleanedUpBinds
  <1>4. CASE halted' = halted \cup {c} /\ UNCHANGED <<resources, conns, socket, parser>>
    BY <1>1, <1>4, IdleTyped, LeavingBinds
  <1>. QED
    BY <1>3, <1>4 DEF CleanUp, Halts

LEMMA StreamEndBinds ==
  ASSUME IInv, BindInv, NEW c \in Conn, StreamEnd(c)
  PROVE  BindInv'
  <1>0. InputFunctions /\ TableFunctions /\ Entering(c) /\ Noticed(c)
    BY DEF IInv, BindInv
  <1>1. /\ data' = [data EXCEPT ![c].closing = TRUE] /\ job[c].at = "idle"
        /\ UNCHANGED <<client, generated, halted, raced>>
    BY DEF StreamEnd, Takes, history
  <1>2. /\ data'[c].closing /\ data'[c].jid = data[c].jid
        /\ data'[c].resource = data[c].resource
        /\ \A d \in Conn \ {c} : data'[d] = data[d]
    <2>1. /\ data'[c] = [data[c] EXCEPT !.closing = TRUE] /\ data[c] \in DataState
          /\ \A d \in Conn \ {c} : data'[d] = data[d]
      BY <1>0, <1>1 DEF InputFunctions
    <2>. QED
      BY <2>1 DEF DataState
  (* Its end has begun before, or c2s-presence is run first.                *)
  <1>3. ASSUME UNCHANGED <<resources, conns, socket>>,
               \A d \in Conn \ {c} : job'[d] = job[d],
               \/ data[c].closing /\ job'[c].at = "idle"
               \/ ~data[c].closing /\ job'[c].at = "last"
        PROVE  BindInv'
    <2>1. \A d \in Conn \ {c} : StillAt(d)
      BY <1>1, <1>2, <1>3 DEF StillAt
    <2>2. Neutral(c)
      BY <1>1, <1>2, <1>3 DEF Neutral, Named, OwnResource, Binding
    <2>3. Entering(c)' /\ Noticed(c)'
      BY <1>0, <1>1, <1>2, <1>3 DEF Entering, Noticed, Binding, InBind, Gone
    <2>. QED
      BY <1>1, <1>3, <2>1, <2>2, <2>3, QuietStep
  <1>4. CASE data[c].closing
    <2>1. UNCHANGED <<resources, conns, socket, parser, job>>
      BY <1>4 DEF StreamEnd
    <2>. QED
      BY <1>1, <1>3, <1>4, <2>1
  <1>5. CASE ~data[c].closing /\ data[c].active
    <2>1. /\ job' = [job EXCEPT ![c] = [Idle EXCEPT !.at = "last", !.kind = "end"]]
          /\ UNCHANGED <<resources, conns, socket, parser>>
      BY <1>5 DEF StreamEnd
    <2>2. job'[c].at = "last" /\ \A d \in Conn \ {c} : job'[d] = job[d]
      BY <1>0, <2>1 DEF InputFunctions, Idle
    <2>. QED
      BY <1>3, <1>5, <2>1, <2>2
  <1>6. CASE ~data[c].closing /\ ~data[c].active
    <2>1. CleanedUp(c) /\ job' = job
      BY <1>6 DEF StreamEnd
    <2>. QED
      BY <1>1, <1>2, <1>6, <2>1, CleanedUpBinds
  <1>. QED
    BY <1>4, <1>5, <1>6

-----------------------------------------------------------------------------
(* SASL, and the steps that leave all of this as it was.                    *)

LEMMA SASLBinds ==
  ASSUME IInv, BindInv, NEW c \in Conn, SASLAuth(c) \/ SASLResponse(c)
  PROVE  BindInv'
  <1>1. CASE SASLAuth(c)
    <2>. DEFINE s == IF job[c].kind = "digest" THEN SASLDigestMD5(NewDigest, "digest")
                     ELSE SASLPlain(job[c].kind = "plain-good")
    <2>1. s \in SaslState
      <3>1. (job[c].kind = "plain-good") \in BOOLEAN
        OBVIOUS
      <3>. QED
        BY <3>1, NoSaslTyped, SASLTyped, PlainTyped
    <2>2. /\ job[c].at = "act" /\ job[c].kind \in AuthKind /\ Exchanged(c, s)
          /\ job' = [job EXCEPT ![c] = Idle]
          /\ UNCHANGED <<client, net, socket, queue, resources, generated, history, raced>>
      BY <1>1 DEF SASLAuth, InWorker, AuthKind, SaslKind
    <2>. HIDE DEF s
    <2>. QED
      BY <2>1, <2>2, ExchangedBinds
  <1>2. CASE SASLResponse(c)
    <2>. DEFINE s == IF data[c].sasl.mech = "digest"
                     THEN SASLDigestMD5(data[c].sasl, job[c].kind) ELSE data[c].sasl
    <2>1. s \in SaslState
      <3>1. data[c].sasl \in SaslState
        BY TypesAt DEF IInv
      <3>. QED
        BY <3>1, SASLTyped
    <2>2. /\ job[c].at = "act" /\ job[c].kind \in AuthKind /\ Exchanged(c, s)
          /\ job' = [job EXCEPT ![c] = Idle]
          /\ UNCHANGED <<client, net, socket, queue, resources, generated, history, raced>>
      BY <1>2 DEF SASLResponse, InWorker, AuthKind, SaslKind
    <2>. HIDE DEF s
    <2>. QED
      BY <2>1, <2>2, ExchangedBinds
  <1>. QED
    BY <1>1, <1>2

LEMMA ReadingBinds ==
  ASSUME IInv, BindInv, NEW c \in Conn,
         \/ Read(c) \/ ReadEnd(c) \/ InStreamInit(c) \/ InStreamReInit(c) \/ Answer(c)
  PROVE  BindInv'
  <1>1. UNCHANGED <<client, socket, job, data, conns, resources, generated, halted, raced>>
    <2>1. CASE Read(c)
      BY <2>1 DEF Read, tables
    <2>2. CASE ReadEnd(c)
      BY <2>2 DEF ReadEnd, tables, history
    <2>3. CASE InStreamInit(c) \/ InStreamReInit(c) \/ Answer(c)
      BY <2>3 DEF InStreamInit, InStreamReInit, Answer, tables, history
    <2>. QED
      BY <2>1, <2>2, <2>3
  <1>. QED
    BY <1>1, CalmStep

LEMMA NextBinds ==
  ASSUME IInv, BindInv, OneBindInTurn, [Next]_vars
  PROVE  BindInv'
  <1>1. CASE UNCHANGED vars
    <2>1. UNCHANGED <<client, socket, job, data, conns, resources, generated, halted, raced>>
      BY <1>1 DEF vars, tables, history
    <2>2. \A d \in Conn : StillAt(d)
      BY <2>1 DEF StillAt
    <2>3. \A d \in Conn : Neutral(d) /\ Entering(d)' /\ Noticed(d)'
      BY <2>1, <2>2, StillNeutral, StillEntering DEF BindInv
    <2>4. generated' \in Nat /\ generated <= generated'
      BY <2>1 DEF IInv, TableFunctions, Name
    <2>5. ASSUME NEW u \in User \ raced'
          PROVE  Tabled(u)'
      <3>1. Tabled(u) /\ u \in User
        BY <2>1, <2>5 DEF BindInv
      <3>. QED
        BY <2>1, <2>3, <2>4, <3>1, SameTable
    <2>. QED
      BY <2>3, <2>5 DEF BindInv
  <1>2. ASSUME NEW c \in Conn, Client(c)
        PROVE  BindInv'
    BY <1>2, ClientBinds, AcceptBinds
  <1>3. ASSUME NEW c \in Conn, Main(c)
        PROVE  BindInv'
    BY <1>3, ReadingBinds, ReadErrorBinds, StartHandlerBinds, StreamEndBinds, CleanUpBinds
       DEF Main
  <1>4. ASSUME NEW c \in Conn, Handler(c)
        PROVE  BindInv'
    BY <1>4, SASLBinds, IQAuthSetBinds, PresenceActBinds, BindCheckBinds, BindLookBinds,
       BindCreateBinds, BindPutBinds, LastPresenceBinds, LastPresenceRaisesBinds DEF Handler
  <1>. QED
    BY <1>1, <1>2, <1>3, <1>4 DEF Next, MainLoop, Workers

LEMMA BindInvariant ==
  ASSUME OneBindInTurn
  PROVE  Safety => [](IInv /\ BindInv)
  <1>1. Init => IInv /\ BindInv
    BY InitIInv, InitBinds
  <1>2. (IInv /\ BindInv) /\ [Next]_vars => (IInv /\ BindInv)'
    BY NextIInv, NextBinds
  <1>. QED
    BY <1>1, <1>2, PTL DEF Safety

(* The table of resources and the connections agree, whatever the order in  *)
(* which connections of an account log in, bind, end and are cleaned up     *)
(* (iq.py bindResource(), stream.py CleanUpConnHandler): an entry leads to a*)
(* connection that is logged in under it, and a connection with a resource  *)
(* is found under it; unless two connections of the account have been inside*)
(* of bindResource() at once.  The clients bind once each, in turn.         *)
THEOREM RegisteredHolds ==
  ASSUME OneBindInTurn
  PROVE  Safety => []Registered
  <1>1. IInv /\ BindInv => Registered
    <2>. SUFFICES ASSUME IInv, BindInv, NEW u \in User \ raced
                  PROVE  RegisteredOf(u)
      BY DEF Registered
    <2>1. Tabled(u)
      BY DEF BindInv
    <2>. QED
      BY <2>1 DEF Tabled, RegisteredOf, Named
  <1>. QED
    BY <1>1, BindInvariant, PTL

(* A client that has gone is cleaned up after when nothing is left to do for*)
(* it (connection.py:100-112, stream.py:219-275): it is no longer one of the*)
(* server's connections and its socket is closed, however it left, whatever *)
(* it was in the middle of; unless the network failed, the parser had given *)
(* up, two connections of the account raced to bind, or its last presence   *)
(* raised (presence.py:218-219), which leaves out the rest of the chain.    *)
THEOREM EndsCleanedUpHolds ==
  ASSUME OneBindInTurn
  PROVE  Safety => []EndsCleanedUp
  <1>1. IInv /\ BindInv => EndsCleanedUp
    <2>. SUFFICES ASSUME IInv, BindInv, NEW c \in Conn, Settled(c), client[c].end # "no"
                  PROVE  Gone(c) \/ Unnoticed(c) \/ UserOf[c] \in raced \/ c \in halted
      BY DEF EndsCleanedUp
    <2>0. Ended(c) /\ Entering(c) /\ Noticed(c) /\ InputFunctions /\ TableFunctions
      BY DEF IInv, BindInv, InputInv
    <2>1. net[c] = <<>> /\ queue[c] = <<>> /\ job[c].at = "idle"
      BY DEF Settled
    <2>2. CASE data[c].closing
      BY <2>0, <2>1, <2>2 DEF Noticed
    <2>3. CASE client[c].end = "reset"
      BY <2>3 DEF Unnoticed
    <2>4. CASE client[c].end = "close" /\ ~data[c].closing
      <3>1. TagAt(<<>>, Len(<<>>)) # "close" /\ 1..Len(<<>>) = {}
        <4>1. Len(<<>>) = 0 /\ 0 \notin 1..0 /\ 1..0 = {}
          OBVIOUS
        <4>. QED
          BY <4>1 DEF TagAt
      <3>2. parser[c].dead
        BY <2>0, <2>1, <2>4, <3>1 DEF Ended
      <3>. QED
        BY <2>4, <3>2 DEF Unnoticed
    <2>5. CASE client[c].end = "eof" /\ ~data[c].closing
      <3>1. socket[c] # "open"
        BY <2>5 DEF Settled
      <3>2. socket[c] = "closed"
        <4>1. socket[c] \in {"none", "open", "closed"}
          BY <2>0 DEF TableFunctions
        <4>. QED
          BY <2>0, <2>5, <3>1, <4>1 DEF Entering
      <3>. QED
        BY <2>0, <2>5, <3>2 DEF Noticed
    <2>6. client[c].end \in {"no", "close", "eof", "reset"}
      BY <2>0, TypesAt
    <2>. QED
      BY <2>2, <2>3, <2>4, <2>5, <2>6
  <1>. QED
    BY <1>1, BindInvariant, PTL

=============================================================================
