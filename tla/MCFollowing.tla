---------------------------- MODULE MCFollowing -----------------------------
(* Instances of Following for TLC: bob follows alice, and alice has asked to*)
(* follow bob.                                                              *)
EXTENDS Following

CONSTANTS alice, bob, a1, a2, b1

Both == {alice, bob}
Three == {a1, a2, b1}
Owner == [c \in Three |-> IF c = b1 THEN bob ELSE alice]
Pair == {a1, b1}
PairOwner == [c \in Pair |-> IF c = b1 THEN bob ELSE alice]
BobFollows == {<<bob, alice>>}
AliceAsks == {<<alice, bob>>}
=============================================================================
