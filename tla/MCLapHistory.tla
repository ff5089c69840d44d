---------------------------- MODULE MCLapHistory ----------------------------
(***************************************************************************)
(* One driver - updates of two drivers touch different entries - over two  *)
(* laps and three sessions, with two lines to tell apart.                    *)
(***************************************************************************)
EXTENDS LapHistory, TLC

CONSTANTS d1, p1, p2

MCDrivers   == {d1}
MCPositions == {p1, p2}
Symmetry    == Permutations(MCPositions)
=============================================================================
