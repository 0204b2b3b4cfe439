---------------------------- MODULE MCRosterStore ----------------------------
(* Instances of RosterStore for TLC: two clients of foo and one of bar.     *)
EXTENDS RosterStore

TwoAndOne == [c1 |-> "foo", c2 |-> "foo", c3 |-> "bar"]
=============================================================================
