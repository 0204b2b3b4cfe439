----------------------------- MODULE MCSession ------------------------------
(***************************************************************************)
(* Instances of Session.  Both connections are of one account and ask for   *)
(* one resource; c1 uses SASL and restarts its stream, c2 uses iq-auth, and *)
(* in some configurations other things.                                     *)
(***************************************************************************)
EXTENDS Session, TLC

CONSTANTS c1, c2, u1

MCUserOf == [c \in {c1, c2} |-> u1]

(* The digest exchange, which may fail, and pipelining after iq-auth.       *)
MCKinds == (c1 :> {"digest", "answer-good", "answer-bad", "answer-empty", "bind"}) @@
           (c2 :> {"iqauth-good", "presence", "ask"})

MCMaxStanzas == (c1 :> 4) @@ (c2 :> 3)

(* Where liveness is checked: less of it.                                   *)
MCKindsFew == (c1 :> {"plain-good", "bind"}) @@ (c2 :> {"plain-bad", "iqauth-good", "presence"})

(* Where binds come out of turn.                                            *)
MCKindsAnyTurn == (c1 :> {"plain-good", "bind", "rebind", "early"}) @@ (c2 :> {"iqauth-good", "ask"})

MCMaxStanzasFew == (c1 :> 3) @@ (c2 :> 2)
=============================================================================
