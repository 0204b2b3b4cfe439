-------------------------- MODULE MCOfflineMessages --------------------------
(* Instances of OfflineMessages for TLC.                                    *)
EXTENDS OfflineMessages

CONSTANTS c1, c2

TwoClients == {c1, c2}
=============================================================================
