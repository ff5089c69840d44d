--------------------------- MODULE SessionManager ---------------------------
(***************************************************************************)
(* The auto-connect mode (sessionmanager/manager.go): every two minutes    *)
(* one goroutine compares the season schedule with the clock, starts or    *)
(* stops the upstream client, and, when the feed has reported the end of   *)
(* the session at EndedCountToFinish checks in a row, records the session  *)
(* as completed in Valkey (valkeyclient/client.go) and saves the state.    *)
(*                                                                         *)
(* The clock advances by one unit per check.  The feed, the browsers and   *)
(* Valkey's errors interleave with the steps of a check; the process may   *)
(* crash at any of them and restart with what Valkey kept.  Start and Stop *)
(* of the client are one step each (module Upstream opens them up).        *)
(***************************************************************************)
EXTENDS Integers, Sequences, FiniteSets

CONSTANTS
  Schedule,            \* sequence of [start, end], the season's events
  Buffer,              \* bufferDuration, in checks (14 min / 2 min)
  EndedCountToFinish,  \* endedCountToFinish
  HasValkey,           \* whether the manager was given a Valkey client
  Lead,                \* external: the feed shows a session Lead before its start
  Nil,                 \* no state: the nil pointer, or no key in Valkey
  MaxNow,              \* bound: number of checks
  MaxCrashes           \* bound: crashes in a behaviour

Events == DOMAIN Schedule

ASSUME SessionManagerAssumption ==
  /\ Schedule \in Seq([start : Nat, end : Nat])
  /\ Buffer \in Nat /\ Lead \in Nat
  /\ MaxNow \in Nat /\ MaxCrashes \in Nat
  /\ EndedCountToFinish \in Nat \ {0}
  /\ HasValkey \in BOOLEAN

VARIABLES
  now,         \* the clock, in checks
  pc,          \* where checkAndManageConnection is
  active,      \* its local activeEvent, 0 for nil
  running,     \* f1tvClient.IsRunning()
  gs,          \* *globalState: its session (0 for none yet) and whether that is over
  ended,       \* Manager.sessionEndedCount
  completed,   \* Valkey's set completed_sessions
  saved,       \* the state under Valkey's latest f1_global_state key
  f1,          \* external: the session the feed shows
  \* Bookkeeping the program does not keep.
  finalised,   \* events whose finalisation a check has begun
  excused,     \* events whose completion Valkey did not store or not confirm
  crashes      \* crashes so far

vars == <<now, pc, active, running, gs, ended, completed, saved, f1,
          finalised, excused, crashes>>

Sessions == {0} \cup Events
States   == [session : Sessions, over : BOOLEAN]
Empty    == [session |-> 0, over |-> FALSE]

\* The manager's variables and the clock's; its count of checks that found the
\* session over never passes the threshold.
TypeOK ==
  /\ now \in 0 .. MaxNow
  /\ pc \in {"waiting", "checking", "connecting", "counting", "completing",
             "saving", "closing", "stopping"}
  /\ active \in Sessions
  /\ running \in BOOLEAN
  /\ gs \in States \cup {Nil} /\ saved \in States \cup {Nil}
  /\ ended \in 0 .. EndedCountToFinish
  /\ completed \subseteq Events /\ finalised \subseteq Events /\ excused \subseteq Events
  /\ f1 \in States
  /\ crashes \in 0 .. MaxCrashes

Init ==
  /\ now = 0
  /\ pc = "checking"       \* Start checks once before the ticker does
  /\ active = 0
  /\ running = FALSE
  /\ gs = Nil
  /\ ended = 0
  /\ completed = {}
  /\ saved = Nil
  /\ f1 = Empty
  /\ finalised = {} /\ excused = {}
  /\ crashes = 0

-----------------------------------------------------------------------------
(* The schedule. *)

Mut_WindowNeverCloses(e) == now > Schedule[e].start - Buffer

InWindow(e) ==
  now > Schedule[e].start - Buffer /\ now < Schedule[e].end + 4 * Buffer

\* The first event of the schedule whose window contains now, 0 for none.
FindActiveEvent ==
  IF \E e \in Events : InWindow(e)
  THEN CHOOSE e \in Events : InWindow(e) /\ \A d \in 1 .. e - 1 : ~InWindow(d)
  ELSE 0

-----------------------------------------------------------------------------
(* checkAndManageConnection. *)

\* The next tick of the ticker.  The feed shows event e by Lead before its
\* start at the latest.
Tick ==
  /\ pc = "waiting" /\ now < MaxNow
  /\ \A e \in Events : now + 1 >= Schedule[e].start - Lead => f1.session >= e
  /\ now' = now + 1
  /\ pc' = "checking"
  /\ UNCHANGED <<active, running, gs, ended, completed, saved, f1, finalised, excused, crashes>>

\* The event is already completed: leave, stopping a client that still runs.
SkipCompleted ==
  /\ pc = "checking"
  /\ FindActiveEvent # 0 /\ HasValkey /\ FindActiveEvent \in completed
  /\ active' = FindActiveEvent
  /\ running' = FALSE
  /\ pc' = "waiting"
  /\ UNCHANGED <<now, gs, ended, completed, saved, f1, finalised, excused, crashes>>

FindActive ==
  /\ pc = "checking"
  /\ FindActiveEvent # 0
  /\ HasValkey => FindActiveEvent \notin completed
  /\ active' = FindActiveEvent
  /\ pc' = "connecting"
  /\ UNCHANGED <<now, running, gs, ended, completed, saved, f1, finalised, excused, crashes>>

Mut_UnsureSkips ==
  /\ pc = "checking"
  /\ FindActiveEvent # 0 /\ HasValkey
  /\ active' = FindActiveEvent
  /\ pc' = "waiting"
  /\ UNCHANGED <<now, running, gs, ended, completed, saved, f1, finalised, excused, crashes>>

\* IsSessionCompleted fails: the check goes on as if the session were not.
FindActiveUnsure ==
  /\ pc = "checking"
  /\ FindActiveEvent # 0 /\ HasValkey
  /\ active' = FindActiveEvent
  /\ pc' = "connecting"
  /\ excused' = excused \cup {FindActiveEvent}
  /\ UNCHANGED <<now, running, gs, ended, completed, saved, f1, finalised, crashes>>

\* resetGlobalState, then Start.
Mut_ConnectKeepsState ==
  /\ pc = "connecting"
  /\ running' = TRUE
  /\ gs' = IF gs = Nil THEN Empty ELSE gs
  /\ pc' = "counting"
  /\ UNCHANGED <<now, active, ended, completed, saved, f1, finalised, excused, crashes>>

Connect ==
  /\ pc = "connecting"
  /\ running' = TRUE
  /\ gs' = IF running THEN gs ELSE Empty
  /\ pc' = "counting"
  /\ UNCHANGED <<now, active, ended, completed, saved, f1, finalised, excused, crashes>>

\* IsSessionFinished of a state.
IsOver(s) == s # Nil /\ s.over

\* handleFinalisedSessionCheck.
CountEnded ==
  /\ pc = "counting"
  /\ ended' = IF IsOver(gs) THEN ended + 1 ELSE 0
  /\ IF ended' >= EndedCountToFinish
     THEN /\ pc' = IF HasValkey THEN "completing" ELSE "stopping"
          /\ finalised' = finalised \cup {active}
     ELSE /\ pc' = "waiting"
          /\ UNCHANGED finalised
  /\ UNCHANGED <<now, active, running, gs, completed, saved, f1, excused, crashes>>

Mut_CompletedNotStored ==
  /\ pc = "completing"
  /\ pc' = "saving"
  /\ UNCHANGED <<now, active, running, gs, ended, completed, saved, f1, finalised, excused, crashes>>

AddCompleted ==
  /\ pc = "completing"
  /\ \/ completed' = completed \cup {active} /\ UNCHANGED excused
     \/ excused' = excused \cup {active} /\ UNCHANGED completed
  /\ pc' = "saving"
  /\ UNCHANGED <<now, active, running, gs, ended, saved, f1, finalised, crashes>>

\* No event is active: a running client is closed ...
CloseSession ==
  /\ pc = "checking"
  /\ FindActiveEvent = 0 /\ running
  /\ active' = 0
  /\ pc' = IF HasValkey THEN "saving" ELSE "stopping"
  /\ UNCHANGED <<now, running, gs, ended, completed, saved, f1, finalised, excused, crashes>>

\* ... and otherwise the latest saved state is loaded, if there is none yet.
\* Every state made by this program has a non-nil SessionInfo.
LoadLatest ==
  /\ pc = "checking"
  /\ FindActiveEvent = 0 /\ ~running
  /\ active' = 0
  /\ gs' = IF HasValkey /\ gs = Nil THEN saved ELSE gs
  /\ pc' = "waiting"
  /\ UNCHANGED <<now, running, ended, completed, saved, f1, finalised, excused, crashes>>

LoadFails ==
  /\ pc = "checking"
  /\ FindActiveEvent = 0 /\ ~running /\ HasValkey
  /\ active' = 0
  /\ pc' = "waiting"
  /\ UNCHANGED <<now, running, gs, ended, completed, saved, f1, finalised, excused, crashes>>

\* SaveState of whatever the state is by now; its error is only logged.
SaveLatest ==
  /\ pc = "saving"
  /\ saved' = IF gs = Nil THEN saved ELSE gs
  /\ pc' = "stopping"
  /\ UNCHANGED <<now, active, running, gs, ended, completed, f1, finalised, excused, crashes>>

SaveFails ==
  /\ pc = "saving"
  /\ pc' = "stopping"
  /\ UNCHANGED <<now, active, running, gs, ended, completed, saved, f1, finalised, excused, crashes>>

Mut_CountNotReset ==
  /\ pc = "stopping"
  /\ running' = FALSE
  /\ pc' = "waiting"
  /\ UNCHANGED <<now, active, gs, ended, completed, saved, f1, finalised, excused, crashes>>

StopClient ==
  /\ pc = "stopping"
  /\ running' = FALSE
  /\ ended' = 0
  /\ pc' = "waiting"
  /\ UNCHANGED <<now, active, gs, completed, saved, f1, finalised, excused, crashes>>

-----------------------------------------------------------------------------
(* What happens around the manager. *)

\* The feed's messages reach the state while the client runs.
FeedState ==
  /\ running
  /\ gs' = f1
  /\ UNCHANGED <<now, pc, active, running, ended, completed, saved, f1, finalised, excused, crashes>>

\* A snapshot that NewGlobalState cannot parse leaves a nil state.
FeedUnparsable ==
  /\ running
  /\ gs' = Nil
  /\ UNCHANGED <<now, pc, active, running, ended, completed, saved, f1, finalised, excused, crashes>>

\* /ws makes an empty state when there is none.
BrowserConnects ==
  /\ gs = Nil
  /\ gs' = Empty
  /\ UNCHANGED <<now, pc, active, running, ended, completed, saved, f1, finalised, excused, crashes>>

\* External: the feed goes through the sessions in order, and a session is
\* over some time after it has started.
F1Shows ==
  /\ f1.session + 1 \in Events
  /\ f1.session = 0 \/ f1.over
  /\ f1' = [session |-> f1.session + 1, over |-> FALSE]
  /\ UNCHANGED <<now, pc, active, running, gs, ended, completed, saved, finalised, excused, crashes>>

F1Over ==
  /\ f1.session # 0 /\ ~f1.over
  /\ now > Schedule[f1.session].start
  /\ f1' = [f1 EXCEPT !.over = TRUE]
  /\ UNCHANGED <<now, pc, active, running, gs, ended, completed, saved, finalised, excused, crashes>>

\* Everything but Valkey is lost.
Crash ==
  /\ crashes < MaxCrashes
  /\ crashes' = crashes + 1
  /\ pc' = "checking" /\ active' = 0
  /\ running' = FALSE
  /\ gs' = Nil
  /\ ended' = 0
  /\ excused' = excused \cup (finalised \ completed)
  /\ UNCHANGED <<now, completed, saved, f1, finalised>>

-----------------------------------------------------------------------------
Check ==
  \/ SkipCompleted \/ FindActive \/ FindActiveUnsure
  \/ Connect \/ CountEnded
  \/ AddCompleted \/ SaveLatest \/ SaveFails \/ StopClient
  \/ CloseSession \/ LoadLatest \/ LoadFails

Environment ==
  FeedState \/ FeedUnparsable \/ BrowserConnects \/ F1Shows \/ F1Over \/ Crash

Next == Tick \/ Check \/ Environment

Spec == Init /\ [][Next]_vars

\* The ticker and the check go on, and so do the sessions of the season.
Fairness == WF_vars(Tick) /\ WF_vars(Check) /\ WF_vars(F1Shows) /\ WF_vars(F1Over)

FairSpec == Spec /\ Fairness

-----------------------------------------------------------------------------
(* Properties. *)

\* What the program takes for granted of the season: a check finds every window
\* closed between two windows, the first is not open yet when the process starts,
\* and the feed shows a session by the first check in its window.
SeparateWindows ==
  \A d, e \in Events : d < e => Schedule[d].end + 4 * Buffer <= Schedule[e].start - Buffer
SeasonAhead == \A e \in Events : Schedule[e].start >= Buffer
FeedIsEarly == Lead + 1 >= Buffer

\* No session is recorded as completed before it is over: the end that five
\* checks saw was its own, not that of the session before, whose state the
\* process, a browser or Valkey may have kept.  (It needs SeparateWindows,
\* SeasonAhead and FeedIsEarly.)
CompletedIsOver ==
  \A e \in completed : f1.session > e \/ (f1.session = e /\ f1.over)

\* Between checks the client runs during an event's window until the event has
\* been finalised, and only then: neither a crash, nor a failing Valkey, nor
\* the completion of an earlier event makes it miss one.
WatchesTheSession ==
  pc = "waiting" =>
    IF FindActiveEvent = 0 THEN ~running ELSE running \/ FindActiveEvent \in finalised

\* An event that was finalised is not watched again, across restarts, unless
\* its completion could not be stored or read back.
RewatchedOnlyIfExcused ==
  [][~running /\ running' => active \notin finalised \ excused]_vars

\* The client does not stay connected for ever.
Disconnects == running ~> ~running
=============================================================================
