----------------------------- MODULE MCPresence -----------------------------
(* Instances of Presence for TLC: two users that follow each other, with two*)
(* clients and one, or three and one.                                       *)
EXTENDS Presence

CONSTANTS alice, bob, a1, a2, a3, b1

Both == {alice, bob}
Three == {a1, a2, b1}
Four == Three \cup {a3}
Owner == [c \in Four |-> IF c = b1 THEN bob ELSE alice]
OwnerOfThree == [c \in Three |-> Owner[c]]
Mutual == {<<alice, bob>>, <<bob, alice>>}
=============================================================================
