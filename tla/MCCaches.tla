------------------------------ MODULE MCCaches ------------------------------
(***************************************************************************)
(* A small instance of Caches for TLC: tokens that outlast the margin by   *)
(* one, and time for a schedule to pass its age.                            *)
(***************************************************************************)
EXTENDS Caches, TLC

CONSTANTS c1, c2

MCCallers == {c1, c2}
Symmetry == Permutations(MCCallers)
MCLifetimes == {2}
=============================================================================
