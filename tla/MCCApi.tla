------------------------------- MODULE MCCApi -------------------------------
(* A program with a few handles. *)
EXTENDS CApi, TLC

CONSTANTS h1, h2, h3

MCHandles == {h1, h2, h3}
MCSymmetry == Permutations(MCHandles)
=============================================================================
