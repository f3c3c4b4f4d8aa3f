---------------------------- MODULE MCConnections ----------------------------
(* The clients of Connections that TLC plays.                                *)
EXTENDS Connections

CONSTANTS s1, s2, k1, k2, k3, i1, i2

MCStream == {s1, s2}
MCSocket == {k1, k2, k3}
MCIp == {i1, i2}

\* All from one address, except for a second listener.
MCClientIp == [c \in MCStream \cup MCSocket |-> IF c = s2 THEN i2 ELSE i1]
=============================================================================
