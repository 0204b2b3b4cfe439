---------------------------- MODULE PhaseLookup -----------------------------
(***************************************************************************)
(* dispatch(): which phase an event or an element is handled in, and the    *)
(* Message that is made of the phase.  Each of the three dispatchers has a  *)
(* PrioritizedDict of phases; the first one whose xpath matches is taken.   *)
(* Among phases of one priority the order is that of the dictionary, which  *)
(* is not the one in conf/phases.py.                                        *)
(***************************************************************************)
EXTENDS MessageChain, StockPhases, SequencesExt

CONSTANT Before   \* pairs of phases of which the dictionary lists the first first

VARIABLES event, phase   \* what is dispatched, and the name of its phase

lookupVars == <<event, phase, vars>>

PhasesList == [core |-> CorePhases, c2s |-> C2SStanzaPhases, s2s |-> S2SStanzaPhases]

-----------------------------------------------------------------------------
(* What is dispatched: parsers.py sends iq, message and presence of a stream*)
(* to the dispatcher of its namespace, other elements to the core one, and  *)
(* names the phase of what happens to the stream itself.                    *)

Other(el) == Xpath(el, "none", "none")

Elements ==
  [core |-> {Other(el) : el \in {"features", "auth", "response", "abort", "result", "verify",
                                 "unknown"}},
   c2s  |-> {Xpath("iq", type, child) : type \in {"get", "set", "result"},
               child \in {"auth", "bind", "session", "roster", "register", "items", "info",
                          "unknown"}}
            \cup {Xpath("presence", type, "none") :
                    type \in {"none", "unavailable", "subscribe", "probe"}}
            \cup {Other("message")},
   s2s  |-> {Xpath("presence", type, "none") :
               type \in {"none", "unavailable", "subscribe", "probe"}}
            \cup {Other("iq"), Other("message")}]

Event ==
  UNION {[list : {l}, known : {None}, element : Elements[l]] : l \in DOMAIN Elements}
  \cup [list : {"core"}, element : {None},
        known : {"in-stream-init", "in-stream-reinit", "out-stream-init", "stream-end", "test"}]

(* tree.find(xpath)                                                         *)
Matches(xpath, s) ==
  /\ xpath.el = s.el
  /\ xpath.type \in {"*", s.type} \/ (xpath.type = "+" /\ s.type # "none")
  /\ xpath.child \in {"*", s.child}

Matching(l, s) == {n \in DOMAIN PhasesList[l] : Matches(PhasesList[l][n].xpath, s)}

(* The orders in which the dictionary may list the phases in S.             *)
Orders(S) ==
  {o \in SetToSeqs(S) : \A i, j \in DOMAIN o : <<o[i], o[j]>> \in Before => i < j}

-----------------------------------------------------------------------------
(* Mutant of Compare: higher priorities come last.                          *)
CompareAscending(l, x, y) == PhasesList[l][x].priority - PhasesList[l][y].priority

(* PrioritizedDict.compare()                                                *)
Compare(l, x, y) == PhasesList[l][y].priority - PhasesList[l][x].priority

(* The first of the phases of o, which sort() puts in order; it keeps the   *)
(* order of equal ones.                                                     *)
First(l, o) ==
  o[CHOOSE i \in DOMAIN o :
      \A j \in DOMAIN o \ {i} :
        Compare(l, o[i], o[j]) < 0 \/ (Compare(l, o[i], o[j]) = 0 /\ i < j)]

PhaseOf(e, o) ==
  CASE e.known # None -> e.known
    [] e.known = None /\ o = <<>> -> "default"
    [] OTHER -> First(e.list, o)

(* A message of that phase; without handlers there is none.                 *)
Dispatch(e, n) ==
  LET p == PhasesList[e.list][n]
  IN /\ msg = NewMessage(p.phase.handlers, p.phase.errorHandlers)
     /\ where = IF p.dispatches THEN "main" ELSE "done"

LookupInit ==
  /\ event \in Event
  /\ \E o \in Orders(IF event.known = None THEN Matching(event.list, event.element) ELSE {}) :
       phase = PhaseOf(event, o)
  /\ Dispatch(event, phase)

LookupSpec ==
  LookupInit /\ [][Next /\ UNCHANGED <<event, phase>>]_lookupVars /\ WF_lookupVars(Next /\ UNCHANGED <<event, phase>>)

-----------------------------------------------------------------------------
Covers(l, n) == {s \in Elements[l] : n \in Matching(l, s)}

(* An element is handled in the most specific phase that it matches: no     *)
(* other phase it matches is for part of what the chosen one is for, though *)
(* the order of the dictionary decides between phases of one priority,      *)
(* unavailable presence and subscriptions for instance (conf/phases.py:134  *)
(* and :140); and it is ignored only when it matches none.                  *)
MostSpecific ==
  event.known = None =>
    LET l == event.list
        all == Matching(l, event.element)
    IN /\ all = {} <=> phase = "default"
       /\ \A n \in all : ~(Covers(l, n) \subseteq Covers(l, phase) /\ Covers(l, n) # Covers(l, phase))
=============================================================================
