--------------------------- MODULE MCSignSession ----------------------------
(* A signing session of party p1, with any script of one or two operations *)
(* and two messages to choose from.                                        *)
EXTENDS SignSession

CONSTANTS p1, m1, m2

MCScripts == UNION {[1 .. n -> {"send", "recv"}] : n \in 1 .. 2}
MCInbound == {1}
=============================================================================
