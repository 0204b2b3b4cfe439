---------------------------- MODULE MCSendBuffer ----------------------------
(* TLC instances of SendBuffer.                                             *)
EXTENDS SendBuffer

CONSTANTS w1, w2

NoWorkers == {}
TwoWorkers == {w1, w2}

Ascii == {1}
Latin == {1, 2}
=============================================================================
