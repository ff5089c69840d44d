------------------------------ MODULE MCRelay ------------------------------
(***************************************************************************)
(* A small instance of Relay for TLC.  Browsers change nothing that another *)
(* one sees but the empty state, which it would make itself: one is enough. *)
(***************************************************************************)
EXTENDS Relay

CONSTANT b1

MCBrowsers == {b1}
MCLapChanges == {1}
=============================================================================
