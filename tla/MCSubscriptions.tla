--------------------------- MODULE MCSubscriptions ---------------------------
(* Instances of Subscriptions for TLC, with sample users of pjabberd.py: two*)
(* whose keys in the table jids are like those of most users, and two whose *)
(* keys are the values of states.                                           *)
EXTENDS Subscriptions

MCUser == {"foo", "test"}
MCPeer == [foo |-> "test", test |-> "foo"]
MCId == [foo |-> 1, test |-> 3]

(* One client for each.                                                     *)
OneEach == [c1 |-> "foo", c2 |-> "test"]

(* 2 and 4.                                                                 *)
StateUser == {"bar", "admin"}
StatePeer == [bar |-> "admin", admin |-> "bar"]
StateId == [bar |-> 2, admin |-> 4]
StateEach == [c1 |-> "bar", c2 |-> "admin"]
=============================================================================
