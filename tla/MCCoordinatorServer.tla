------------------------- MODULE MCCoordinatorServer ------------------------
(* Two devices that choose the same session id or different ones.  The ids *)
(* are interchangeable, so the first device has no choice.                 *)
EXTENDS CoordinatorServer

CONSTANTS k1, k2, i1, i2

MCSockets == {k1, k2}
MCIds == {i1, i2}
MCMayUse == [k \in MCSockets |-> IF k = k1 THEN {i1} ELSE MCIds]

\* One frame more than a handler takes.
MCMaxPosts == [k \in MCSockets |-> 2]
=============================================================================
