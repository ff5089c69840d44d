---------------------------- MODULE MCRecorder -----------------------------
(***************************************************************************)
(* A small instance of Recorder for TLC: two flushers are what it takes    *)
(* for one to overtake the other.                                          *)
(***************************************************************************)
EXTENDS Recorder

MCFinalisers == {"manager"}
=============================================================================
