---------------------------- MODULE MCRecordings ----------------------------
(***************************************************************************)
(* A small instance of Recordings for TLC: two requests make the copy at   *)
(* once, a third finds what they leave.                                    *)
(***************************************************************************)
EXTENDS Recordings, TLC

CONSTANTS r1, r2, r3

MCRequests == {r1, r2, r3}
Symmetry == Permutations(MCRequests)
=============================================================================
