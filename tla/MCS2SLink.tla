------------------------------ MODULE MCS2SLink ------------------------------
(* Instances of S2SLink for TLC.                                            *)
EXTENDS S2SLink, TLC

CONSTANTS c1, c2

OneSource == {c1}
TwoSources == {c1, c2}
Symmetry == Permutations(Source)

Local == {"localhost"}
LocalAndRemote == {"localhost", "elsewhere"}
=============================================================================
