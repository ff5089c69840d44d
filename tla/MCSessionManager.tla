-------------------------- MODULE MCSessionManager --------------------------
(***************************************************************************)
(* Two events whose windows, 2..6 and 10..14, do not meet.                 *)
(***************************************************************************)
EXTENDS SessionManager

MCSchedule == << [start |-> 2, end |-> 3], [start |-> 10, end |-> 11] >>

ASSUME MCScheduleAssumption == SeparateWindows /\ SeasonAhead /\ FeedIsEarly
=============================================================================
