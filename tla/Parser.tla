------------------------------- MODULE Parser -------------------------------
(***************************************************************************)
(* The data half of parsers.IncrStreamParser: what feed() does to the parser*)
(* of a connection with a chunk of input, and which events it dispatches.   *)
(* As in HandlerChain every operator is a function of a record; module      *)
(* Session gives it chunks.                                                 *)
(*                                                                          *)
(* Input is a sequence of symbols.  A start tag of a stanza is two of them, *)
(* because a chunk may end inside of it; the children of a stanza, which    *)
(* only build its tree, are left out, and so is text.  The expat parser is  *)
(* external: it is modelled by which handlers it calls and by what it does  *)
(* not accept, after which Parse() raises for ever.                         *)
(***************************************************************************)
EXTENDS Naturals, Sequences, SequencesExt

CONSTANTS Stanza, NoStanza

Symbol == [tag : {"open", "head", "rest", "end", "close"}, stanza : Stanza \cup {NoStanza}]

Event == [kind : {"init", "reinit", "stanza", "end"}, stanza : Stanza \cup {NoStanza}]

(* The symbols of <stream:stream>, </stream:stream> and of a stanza.        *)
OpenTag  == <<[tag |-> "open", stanza |-> NoStanza]>>
CloseTag == <<[tag |-> "close", stanza |-> NoStanza]>>
Text(s) == <<[tag |-> "head", stanza |-> s], [tag |-> "rest", stanza |-> s],
             [tag |-> "end", stanza |-> s]>>

(* Expat: the root element, how many are open, whether it holds part of a   *)
(* start tag, and whether it has given up.  The rest is the object's own:   *)
(* quirk is self._exception; over says that expat is not the one handle_end *)
(* made while this chunk was parsed; events are those of this chunk.        *)
Parser ==
  [root : {"none", "stream", "stanza"}, open : Nat, cut : BOOLEAN, dead : BOOLEAN,
   depth : Nat, stream : BOOLEAN, tree : Stanza \cup {NoStanza}, quirk : BOOLEAN,
   over : BOOLEAN, events : Seq(Event)]

NewParser ==
  [root |-> "none", open |-> 0, cut |-> FALSE, dead |-> FALSE,
   depth |-> 0, stream |-> FALSE, tree |-> NoStanza, quirk |-> FALSE,
   over |-> FALSE, events |-> <<>>]

(* Mutant of ResetParser: it forgets the stream as well.                    *)
ResetParserAndStream(p) == [NewParser EXCEPT !.events = p.events]

(* resetParser() makes a new expat parser and keeps the stream,             *)
ResetParser(p) == [NewParser EXCEPT !.stream = p.stream, !.events = p.events]

(* resetStream() keeps the expat parser and forgets the stream.             *)
ResetStream(p) ==
  [p EXCEPT !.depth = 0, !.tree = NoStanza, !.stream = FALSE, !.quirk = FALSE]

Dispatched(p, kind, s) ==
  [p EXCEPT !.events = Append(@, [kind |-> kind, stanza |-> s])]

-----------------------------------------------------------------------------
(* handle_start() on <stream:stream>: "if starting a new stream, don't reset*)
(* the old one".                                                            *)
StartStream(p) ==
  LET q == [p EXCEPT !.depth = @ + 1]
  IN IF q.depth # 1 THEN q
     ELSE IF q.stream THEN Dispatched(q, "reinit", NoStanza)
     ELSE Dispatched([q EXCEPT !.stream = TRUE], "init", NoStanza)

(* handle_start() on a stanza: at depth 1 it stands where <stream:stream>   *)
(* was expected.                                                            *)
StartStanza(p, s) ==
  LET q == [p EXCEPT !.depth = @ + 1]
  IN CASE q.depth = 1 -> [q EXCEPT !.quirk = TRUE]
       [] q.depth = 2 -> [q EXCEPT !.tree = s]
       [] OTHER -> q

(* handle_end(): a stream has ended, or a stanza is complete.               *)
HandleEnd(p) ==
  LET q == [p EXCEPT !.depth = @ - 1]
  IN CASE p.quirk -> p
       [] ~p.quirk /\ q.depth = 0 ->
            [ResetParser(ResetStream(Dispatched(q, "end", NoStanza))) EXCEPT !.over = TRUE]
       [] ~p.quirk /\ q.depth = 1 ->
            Dispatched([q EXCEPT !.tree = NoStanza], "stanza", q.tree)
       [] OTHER -> q

-----------------------------------------------------------------------------
(* What expat makes of a symbol.  Outside of the root element it accepts    *)
(* one start tag and nothing else; an end tag has to match.                 *)

Dies(p) == [p EXCEPT !.dead = TRUE]

InStanza(p) == p.open = 2 \/ (p.open = 1 /\ p.root = "stanza")
InStream(p) == p.open = 1 /\ p.root = "stream"
MayStart(p) == p.open > 0 \/ p.root = "none"

Opened(p, kind) ==
  [p EXCEPT !.open = @ + 1, !.cut = FALSE, !.root = IF @ = "none" THEN kind ELSE @]

(* The rest of a tag whose beginning went to another parser is text.        *)
Symbolized(p, y) ==
  IF p.dead \/ p.over THEN p ELSE
  CASE y.tag = "open"  -> IF MayStart(p) THEN StartStream(Opened(p, "stream")) ELSE Dies(p)
    [] y.tag = "head"  -> [p EXCEPT !.cut = TRUE]
    [] y.tag = "rest" /\ p.cut ->
         IF MayStart(p) THEN StartStanza(Opened(p, "stanza"), y.stanza) ELSE Dies(p)
    [] y.tag = "rest" /\ ~p.cut -> IF p.open = 0 THEN Dies(p) ELSE p
    [] y.tag = "end"   -> IF InStanza(p) THEN HandleEnd([p EXCEPT !.open = @ - 1]) ELSE Dies(p)
    [] y.tag = "close" -> IF InStream(p) THEN HandleEnd([p EXCEPT !.open = @ - 1]) ELSE Dies(p)

Parsed(p, chunk) == FoldLeft(Symbolized, p, chunk)

(* The parser is given a <stream> of the server's own, with its handlers    *)
(* disabled: the one of the connection to itself, and the one faked for a   *)
(* client that goes on without a new stream after it has authenticated.     *)
Primed(p) == [ResetParser(p) EXCEPT !.root = "stream", !.open = 1, !.depth = 1, !.stream = TRUE]

(* Mutant of Fed: the chunk is not parsed again.                            *)
FedOnce(p, chunk) ==
  LET q == Parsed([p EXCEPT !.events = <<>>], chunk)
  IN [(IF q.quirk THEN Primed(q) ELSE q) EXCEPT !.over = FALSE]

(* feed(): what Parse() raises is dropped; a chunk with a stanza where      *)
(* <stream:stream> was expected is parsed again, that chunk alone.          *)
Fed(p, chunk) ==
  LET q == Parsed([p EXCEPT !.events = <<>>], chunk)
  IN [(IF q.quirk THEN Parsed(Primed(q), chunk) ELSE q) EXCEPT !.over = FALSE]
=============================================================================
