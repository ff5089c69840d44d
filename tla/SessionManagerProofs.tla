------------------------ MODULE SessionManagerProofs ------------------------
(***************************************************************************)
(* Theorems about SessionManager for every schedule and every threshold.   *)
(***************************************************************************)
EXTENDS SessionManager, SequenceTheorems, WellFoundedInduction, TLAPS

-----------------------------------------------------------------------------
(* The lookup in the schedule. *)

Below == {p \in Nat \X Nat : p[1] < p[2]}

\* A set of natural numbers that is not empty has a least element.
LEMMA LeastNat ==
  ASSUME NEW S \in SUBSET Nat, S # {}
  PROVE  \E m \in S : \A k \in S : m <= k
<1>1. IsWellFoundedOn(Below, Nat)
  BY NatLessThanWellFounded DEF OpToRel, Below
<1>2. PICK m \in S : \A k \in S : ~(<<k, m>> \in Below)
  BY <1>1, WFMin
<1>3. ASSUME NEW k \in S, k < m PROVE FALSE
  <2>1. <<k, m>> \in Nat \X Nat /\ <<k, m>>[1] < <<k, m>>[2]
    BY <1>3
  <2> QED BY <1>2, <2>1 DEF Below
<1> QED BY <1>3

LEMMA EventsAreNumbers == Events = 1 .. Len(Schedule) /\ Len(Schedule) \in Nat
BY SessionManagerAssumption DEF SessionManagerAssumption, Events

LEMMA ScheduleTimes ==
  \A e \in Events : Schedule[e].start \in Nat /\ Schedule[e].end \in Nat /\ e \in Nat
<1> DEFINE E == [start : Nat, end : Nat]
<1>1. Schedule \in Seq(E)
  BY SessionManagerAssumption DEF SessionManagerAssumption
<1>2. \A e \in 1 .. Len(Schedule) : Schedule[e] \in E
  <2> HIDE DEF E
  <2> QED BY <1>1, ElementOfSeq
<1> QED BY <1>2, EventsAreNumbers

\* The schedule lookup returns an event whose window is open, or 0 when none is.
LEMMA FindActiveEventType ==
  /\ FindActiveEvent \in Sessions
  /\ FindActiveEvent # 0 => FindActiveEvent \in Events /\ InWindow(FindActiveEvent)
<1> DEFINE Open == {e \in Events : InWindow(e)}
<1> DEFINE First(e) == InWindow(e) /\ \A d \in 1 .. e - 1 : ~InWindow(d)
<1>1. CASE \E e \in Events : InWindow(e)
  <2>1. Open \in SUBSET Nat /\ Open # {}
    BY <1>1, EventsAreNumbers
  <2>2. PICK m \in Open : \A k \in Open : m <= k
    BY <2>1, LeastNat
  <2>3. \A d \in 1 .. m - 1 : d \in Events /\ ~(m <= d)
    BY <2>2, EventsAreNumbers
  <2>4. m \in Events /\ First(m)
    BY <2>2, <2>3
  <2>5. FindActiveEvent = CHOOSE e \in Events : First(e)
    BY <1>1 DEF FindActiveEvent
  <2>6. FindActiveEvent \in Events /\ First(FindActiveEvent)
    <3> HIDE DEF First
    <3> QED BY <2>4, <2>5
  <2> QED BY <2>6 DEF Sessions
<1>2. CASE ~\E e \in Events : InWindow(e)
  BY <1>2 DEF FindActiveEvent, Sessions
<1> QED BY <1>1, <1>2

-----------------------------------------------------------------------------
(* Types. *)

\* The count reaches the threshold only on the way to the disconnection that
\* resets it, and a check that got past the lookup has an event.
CountInv == ended = EndedCountToFinish => pc \in {"completing", "saving", "stopping"}

ActiveInv == pc \in {"connecting", "counting", "completing"} => active # 0

TypeInv == TypeOK /\ CountInv /\ ActiveInv

LEMMA StateTypes ==
  /\ Empty \in States
  /\ \A e \in Sessions, o \in BOOLEAN : [session |-> e, over |-> o] \in States
BY DEF Empty, States, Sessions

LEMMA TypeInit == Init => TypeInv
<1> SUFFICES ASSUME Init PROVE TypeInv
  OBVIOUS
<1>1. ended \in 0 .. EndedCountToFinish /\ ended # EndedCountToFinish
      /\ now \in 0 .. MaxNow /\ crashes \in 0 .. MaxCrashes
  BY SessionManagerAssumption DEF SessionManagerAssumption, Init
<1>2. active \in Sessions
  BY DEF Init, Sessions
<1> QED BY <1>1, <1>2, StateTypes DEF Init, TypeInv, TypeOK, CountInv, ActiveInv

\* Every action keeps every variable in its type, and the count in its bound.
LEMMA TypeStep == TypeInv /\ [Next]_vars => TypeInv'
<1> SUFFICES ASSUME TypeInv, [Next]_vars PROVE TypeInv'
  OBVIOUS
<1>0. /\ EndedCountToFinish \in Nat \ {0} /\ MaxNow \in Nat /\ MaxCrashes \in Nat
      /\ Sessions = {0} \cup Events
  BY SessionManagerAssumption DEF SessionManagerAssumption, Sessions
<1> USE <1>0, FindActiveEventType, StateTypes DEF TypeInv, TypeOK, CountInv, ActiveInv
<1>1. CASE Tick
  BY <1>1 DEF Tick
<1>2. CASE Check
  <2>1. CASE SkipCompleted
    BY <2>1 DEF SkipCompleted
  <2>2. CASE FindActive
    BY <2>2 DEF FindActive
  <2>3. CASE FindActiveUnsure
    BY <2>3 DEF FindActiveUnsure
  <2>4. CASE Connect
    BY <2>4 DEF Connect
  <2>5. CASE CountEnded
    <3>1. ended < EndedCountToFinish /\ active \in Events
      BY <2>5 DEF CountEnded
    <3>2. ended' \in 0 .. EndedCountToFinish
      BY <2>5, <3>1 DEF CountEnded
    <3>3. ended' >= EndedCountToFinish <=> ended' = EndedCountToFinish
      BY <3>2
    <3>4. pc' \in {"completing", "stopping", "waiting"}
      BY <2>5 DEF CountEnded
    <3>5. pc' = "waiting" => ended' # EndedCountToFinish
      BY <2>5, <3>3 DEF CountEnded
    <3>6. finalised' \subseteq Events
      BY <2>5, <3>1 DEF CountEnded
    <3> QED BY <2>5, <3>1, <3>2, <3>4, <3>5, <3>6 DEF CountEnded
  <2>6. CASE AddCompleted
    BY <2>6 DEF AddCompleted
  <2>7. CASE SaveLatest
    BY <2>7 DEF SaveLatest
  <2>8. CASE SaveFails
    BY <2>8 DEF SaveFails
  <2>9. CASE StopClient
    <3>1. ended' \in 0 .. EndedCountToFinish /\ ended' # EndedCountToFinish
      BY <2>9 DEF StopClient
    <3> QED BY <2>9, <3>1 DEF StopClient
  <2>10. CASE CloseSession
    BY <2>10 DEF CloseSession
  <2>11. CASE LoadLatest
    BY <2>11 DEF LoadLatest
  <2>12. CASE LoadFails
    BY <2>12 DEF LoadFails
  <2> QED
    BY <1>2, <2>1, <2>2, <2>3, <2>4, <2>5, <2>6, <2>7, <2>8, <2>9, <2>10, <2>11, <2>12 DEF Check
<1>3. CASE Environment
  <2>1. CASE FeedState
    BY <2>1 DEF FeedState
  <2>2. CASE FeedUnparsable
    BY <2>2 DEF FeedUnparsable
  <2>3. CASE BrowserConnects
    BY <2>3 DEF BrowserConnects
  <2>4. CASE F1Shows
    <3>1. f1' \in States
      BY <2>4 DEF F1Shows
    <3> QED BY <2>4, <3>1 DEF F1Shows
  <2>5. CASE F1Over
    <3>1. f1' = [session |-> f1.session, over |-> TRUE] /\ f1.session \in Sessions
      BY <2>5 DEF F1Over, States
    <3>2. f1' \in States
      BY <3>1
    <3> QED BY <2>5, <3>2 DEF F1Over
  <2>6. CASE Crash
    <3>1. active' \in Sessions /\ ended' \in 0 .. EndedCountToFinish /\ ended' # EndedCountToFinish
      BY <2>6 DEF Crash
    <3>2. crashes' \in 0 .. MaxCrashes
      BY <2>6 DEF Crash
    <3> QED BY <2>6, <3>1, <3>2 DEF Crash
  <2> QED BY <1>3, <2>1, <2>2, <2>3, <2>4, <2>5, <2>6 DEF Environment
<1>4. CASE UNCHANGED vars
  BY <1>4 DEF vars
<1> QED BY <1>1, <1>2, <1>3, <1>4 DEF Next

\* Type correctness; in particular the count of checks that found the session
\* over never passes the threshold.
THEOREM TypeCorrect == Spec => []TypeOK
<1>1. TypeInv => TypeOK
  BY DEF TypeInv
<1> QED BY <1>1, TypeInit, TypeStep, PTL DEF Spec

-----------------------------------------------------------------------------
(* A finalised session is not watched again. *)

\* With a Valkey client, an event whose finalisation has begun is completed or
\* excused, but for the one a check is about to add; and a check that is about
\* to connect has read, or failed to read, that its event is not completed.
Recorded ==
  \A e \in finalised : e \in completed \cup excused \/ (pc = "completing" /\ active = e)

Unread == pc = "connecting" => active \notin completed \ excused

MInv == TypeInv /\ (HasValkey => Recorded /\ Unread)

LEMMA MInvStep == MInv /\ [Next]_vars => MInv'
<1> SUFFICES ASSUME MInv, [Next]_vars, HasValkey PROVE Recorded' /\ Unread'
  BY TypeStep DEF MInv
<1> USE DEF MInv, Recorded, Unread
<1>1. CASE Tick
  BY <1>1 DEF Tick
<1>2. CASE Check
  <2>1. CASE SkipCompleted \/ CloseSession \/ LoadLatest \/ LoadFails
    BY <2>1 DEF SkipCompleted, CloseSession, LoadLatest, LoadFails
  <2>2. CASE FindActive
    BY <2>2 DEF FindActive
  <2>3. CASE FindActiveUnsure
    BY <2>3 DEF FindActiveUnsure
  <2>4. CASE Connect
    BY <2>4 DEF Connect
  <2>5. CASE CountEnded
    BY <2>5 DEF CountEnded
  <2>6. CASE AddCompleted
    BY <2>6 DEF AddCompleted
  <2>7. CASE SaveLatest \/ SaveFails \/ StopClient
    BY <2>7 DEF SaveLatest, SaveFails, StopClient
  <2> QED BY <1>2, <2>1, <2>2, <2>3, <2>4, <2>5, <2>6, <2>7 DEF Check
<1>3. CASE Environment
  <2>1. CASE Crash
    BY <2>1 DEF Crash
  <2>2. CASE FeedState \/ FeedUnparsable \/ BrowserConnects \/ F1Shows \/ F1Over
    BY <2>2 DEF FeedState, FeedUnparsable, BrowserConnects, F1Shows, F1Over
  <2> QED BY <1>3, <2>1, <2>2 DEF Environment
<1>4. CASE UNCHANGED vars
  BY <1>4 DEF vars
<1> QED BY <1>1, <1>2, <1>3, <1>4 DEF Next

\* Only Connect starts the client, for an event that is not completed.
LEMMA ConnectsToUnfinalised ==
  ASSUME MInv, HasValkey, [Next]_vars, ~running, running'
  PROVE  active \notin finalised \ excused
<1>1. Connect
  BY DEF Next, Check, Environment, Tick, SkipCompleted, FindActive, FindActiveUnsure,
     CountEnded, AddCompleted, SaveLatest, SaveFails, StopClient, CloseSession, LoadLatest,
     LoadFails, FeedState, FeedUnparsable, BrowserConnects, F1Shows, F1Over, Crash, vars
<1> QED BY <1>1 DEF Connect, MInv, Recorded, Unread

\* RewatchedOnlyIfExcused: with Valkey, for every schedule and however the
\* process crashes and restarts, an event that was finalised is connected to
\* again only when its completion could not be stored or read back.
THEOREM NotRewatched == HasValkey => (Spec => RewatchedOnlyIfExcused)
<1> SUFFICES ASSUME HasValkey PROVE Spec => RewatchedOnlyIfExcused
  OBVIOUS
<1>1. Init => MInv
  BY TypeInit DEF Init, MInv, Recorded, Unread
<1>2. MInv /\ [Next]_vars => [~running /\ running' => active \notin finalised \ excused]_vars
  BY ConnectsToUnfinalised
<1> QED BY <1>1, <1>2, MInvStep, PTL DEF Spec, RewatchedOnlyIfExcused

-----------------------------------------------------------------------------
(* An event's window is watched. *)

\* Where a check is tells what it knows of the event whose window is open: the
\* lookup it began with still holds, because the clock only advances between
\* checks; a check that is about to disconnect has no event, or has begun to
\* finalise it.
Watched ==
  /\ completed \subseteq finalised
  /\ pc \in {"connecting", "counting", "completing"} => active = FindActiveEvent /\ active # 0
  /\ pc = "counting" => running
  /\ pc = "completing" => active \in finalised
  /\ pc \in {"saving", "stopping"} => FindActiveEvent = 0 \/ FindActiveEvent \in finalised

WInv == TypeInv /\ Watched /\ WatchesTheSession

\* The lookup is a function of the clock.
LEMMA LookupStays == now' = now => FindActiveEvent' = FindActiveEvent
BY DEF FindActiveEvent, InWindow

LEMMA WInvInit == Init => WInv
BY TypeInit DEF Init, WInv, Watched, WatchesTheSession

LEMMA WInvStep == WInv /\ [Next]_vars => WInv'
<1> SUFFICES ASSUME WInv, [Next]_vars PROVE Watched' /\ WatchesTheSession'
  BY TypeStep DEF WInv
<1> USE LookupStays DEF WInv, Watched, WatchesTheSession
<1>1. CASE Tick
  BY <1>1 DEF Tick
<1>2. CASE Check
  <2>1. CASE SkipCompleted
    BY <2>1 DEF SkipCompleted
  <2>2. CASE FindActive
    BY <2>2 DEF FindActive
  <2>3. CASE FindActiveUnsure
    BY <2>3 DEF FindActiveUnsure
  <2>4. CASE Connect
    BY <2>4 DEF Connect
  <2>5. CASE CountEnded
    BY <2>5 DEF CountEnded
  <2>6. CASE AddCompleted
    BY <2>6 DEF AddCompleted
  <2>7. CASE SaveLatest \/ SaveFails
    BY <2>7 DEF SaveLatest, SaveFails
  <2>8. CASE StopClient
    BY <2>8 DEF StopClient
  <2>9. CASE CloseSession
    BY <2>9 DEF CloseSession
  <2>10. CASE LoadLatest \/ LoadFails
    BY <2>10 DEF LoadLatest, LoadFails
  <2> QED
    BY <1>2, <2>1, <2>2, <2>3, <2>4, <2>5, <2>6, <2>7, <2>8, <2>9, <2>10 DEF Check
<1>3. CASE Environment
  <2>1. CASE Crash
    BY <2>1 DEF Crash
  <2>2. CASE FeedState \/ FeedUnparsable \/ BrowserConnects \/ F1Shows \/ F1Over
    BY <2>2 DEF FeedState, FeedUnparsable, BrowserConnects, F1Shows, F1Over
  <2> QED BY <1>3, <2>1, <2>2 DEF Environment
<1>4. CASE UNCHANGED vars
  BY <1>4 DEF vars
<1> QED BY <1>1, <1>2, <1>3, <1>4 DEF Next

\* WatchesTheSession: for every schedule, with or without Valkey, whatever fails
\* and whenever the process crashes, the client runs between two checks during an
\* event's window until the event's finalisation has begun, and in no other case.
THEOREM SessionIsWatched == Spec => []WatchesTheSession
<1>1. WInv => WatchesTheSession
  BY DEF WInv
<1> QED BY <1>1, WInvInit, WInvStep, PTL DEF Spec

-----------------------------------------------------------------------------
(* A completed session is over. *)

\* When a window closes another opens only after a check that finds none open.
LEMMA WindowsAreSeparate ==
  ASSUME SeparateWindows, TypeOK, now' = now + 1,
         FindActiveEvent # 0, FindActiveEvent' # 0
  PROVE  FindActiveEvent' = FindActiveEvent
<1>1. FindActiveEvent \in Events /\ InWindow(FindActiveEvent)
  BY FindActiveEventType
<1>2. (FindActiveEvent # 0 => FindActiveEvent \in Events /\ InWindow(FindActiveEvent))'
  BY FindActiveEventType, PTL
<1> DEFINE Open(e, t) == t > Schedule[e].start - Buffer /\ t < Schedule[e].end + 4 * Buffer
<1>3. PICK d \in Events : d = FindActiveEvent /\ Open(d, now)
  BY <1>1 DEF InWindow
<1>4. PICK e \in Events : e = FindActiveEvent' /\ Open(e, now + 1)
  BY <1>2 DEF InWindow
<1>n. /\ Schedule[d].start \in Nat /\ Schedule[d].end \in Nat
      /\ Schedule[e].start \in Nat /\ Schedule[e].end \in Nat
      /\ d \in Nat /\ e \in Nat /\ now \in Nat /\ Buffer \in Nat
  BY ScheduleTimes, SessionManagerAssumption DEF SessionManagerAssumption, TypeOK
<1>5. ASSUME d < e PROVE FALSE
  <2>1. Schedule[d].end + 4 * Buffer <= Schedule[e].start - Buffer
    BY <1>5 DEF SeparateWindows
  <2> QED BY <1>3, <1>4, <1>n, <2>1
<1>6. ASSUME e < d PROVE FALSE
  <2>1. Schedule[e].end + 4 * Buffer <= Schedule[d].start - Buffer
    BY <1>6 DEF SeparateWindows
  <2> QED BY <1>3, <1>4, <1>n, <2>1
<1>7. d = e
  BY <1>n, <1>5, <1>6
<1> QED BY <1>3, <1>4, <1>7

\* State s shows nothing the feed has not shown by now.
Past(s) ==
  s # Nil => s.session < f1.session \/ (s.session = f1.session /\ (s.over => f1.over))

\* The feed has shown the end of event e.
Ended(e) == f1.session > e \/ (f1.session = e /\ f1.over)

\* In a window the feed has reached the window's event, so a running client,
\* whose state was emptied when it was started in that window, holds no earlier
\* session's end.
FeedInv ==
  /\ FindActiveEvent # 0 => f1.session >= FindActiveEvent
  /\ Past(gs) /\ Past(saved)
  /\ running /\ FindActiveEvent # 0 /\ IsOver(gs) => gs.session >= FindActiveEvent
  /\ pc = "completing" => Ended(active)

Season == SeparateWindows /\ SeasonAhead /\ FeedIsEarly

CInv == WInv /\ FeedInv /\ CompletedIsOver

LEMMA CInvInit == Season /\ Init => CInv
<1> SUFFICES ASSUME Season, Init PROVE FeedInv /\ CompletedIsOver
  BY WInvInit DEF CInv
<1>1. FindActiveEvent = 0
  <2>1. \A e \in Events : Schedule[e].start \in Nat /\ Buffer \in Nat /\ ~InWindow(e)
    <3> SUFFICES ASSUME NEW e \in Events PROVE Schedule[e].start \in Nat /\ ~InWindow(e)
      BY SessionManagerAssumption DEF SessionManagerAssumption
    <3>1. Schedule[e].start \in Nat /\ Buffer \in Nat
      BY ScheduleTimes, SessionManagerAssumption DEF SessionManagerAssumption
    <3> QED BY <3>1 DEF Season, SeasonAhead, InWindow, Init
  <2> QED BY <2>1 DEF FindActiveEvent
<1> QED BY <1>1 DEF Init, FeedInv, Past, IsOver, CompletedIsOver, Empty

\* The feed only goes on: what it has shown it has shown from then on.
LEMMA FeedGoesOn ==
  ASSUME TypeOK, F1Shows \/ F1Over
  PROVE  /\ \A e \in Events : Ended(e) => Ended(e)'
         /\ \A s \in States \cup {Nil} : Past(s) => Past(s)'
         /\ \A n \in Nat : f1.session >= n => f1'.session >= n
<1>0. f1.session \in Nat /\ f1.over \in BOOLEAN /\ Events \subseteq Nat
      /\ \A s \in States : s.session \in Nat /\ s.over \in BOOLEAN
  BY EventsAreNumbers DEF TypeOK, States, Sessions
<1>1. CASE F1Shows
  BY <1>0, <1>1 DEF F1Shows, Ended, Past
<1>2. CASE F1Over
  <2>1. f1'.session = f1.session /\ f1'.over = TRUE
    BY <1>2 DEF F1Over, TypeOK, States
  <2> QED BY <1>0, <2>1 DEF Ended, Past
<1> QED BY <1>1, <1>2

\* What nobody writes to: the conjuncts a step disturbs are those whose
\* variables it assigns.
LEMMA CInvStep == Season /\ CInv /\ [Next]_vars => CInv'
<1> SUFFICES ASSUME Season, CInv, [Next]_vars PROVE FeedInv' /\ CompletedIsOver'
  BY WInvStep DEF CInv
<1>0. /\ TypeOK /\ TypeOK' /\ Watched /\ WatchesTheSession /\ FeedInv /\ CompletedIsOver
  BY WInvStep DEF CInv, WInv, TypeInv
<1>n. /\ Sessions \subseteq Nat /\ Events \subseteq Nat /\ FindActiveEvent \in Nat
      /\ f1.session \in Nat /\ f1.over \in BOOLEAN
  <2>1. Sessions \subseteq Nat /\ Events \subseteq Nat
    BY EventsAreNumbers DEF Sessions
  <2> QED BY <1>0, <2>1, FindActiveEventType DEF States, TypeOK
<1>e. Empty.session = 0 /\ Empty.over = FALSE
  BY DEF Empty
<1> USE <1>0, <1>n, LookupStays DEF FeedInv, CompletedIsOver, IsOver, Past, Ended
<1>1. CASE Tick
  <2>0. now' = now + 1 /\ pc = "waiting"
        /\ UNCHANGED <<running, gs, saved, completed, f1>> /\ pc' = "checking"
    BY <1>1 DEF Tick
  <2>1. FindActiveEvent' # 0 => f1'.session >= FindActiveEvent'
    <3>1. SUFFICES ASSUME FindActiveEvent' # 0 PROVE f1.session >= FindActiveEvent'
      BY <2>0
    <3>2. (FindActiveEvent # 0 => FindActiveEvent \in Events /\ InWindow(FindActiveEvent))'
      BY FindActiveEventType, PTL
    <3>3. PICK e \in Events : e = FindActiveEvent' /\ now' > Schedule[e].start - Buffer
      BY <3>1, <3>2 DEF InWindow
    <3>4. Schedule[e].start \in Nat /\ Lead \in Nat /\ Buffer \in Nat /\ now \in Nat
      BY ScheduleTimes, SessionManagerAssumption DEF SessionManagerAssumption, TypeOK
    <3>5. now + 1 >= Schedule[e].start - Lead
      BY <2>0, <3>3, <3>4 DEF Season, FeedIsEarly
    <3> QED BY <1>1, <3>3, <3>5 DEF Tick
  <2>2. running' /\ FindActiveEvent' # 0 /\ IsOver(gs)' => gs'.session >= FindActiveEvent'
    BY <2>0, WindowsAreSeparate DEF Season, WatchesTheSession
  <2> QED BY <2>0, <2>1, <2>2
<1>2. CASE Check
  <2>1. CASE SkipCompleted \/ FindActive \/ FindActiveUnsure
    BY <2>1 DEF SkipCompleted, FindActive, FindActiveUnsure
  <2>4. CASE Connect
    <3>1. Past(gs)' /\ (running' /\ FindActiveEvent' # 0 /\ IsOver(gs)' => gs'.session >= FindActiveEvent')
      <4>1. CASE running
        BY <2>4, <4>1 DEF Connect
      <4>2. CASE ~running
        BY <2>4, <4>2, <1>e DEF Connect
      <4> QED BY <4>1, <4>2
    <3> QED BY <2>4, <3>1 DEF Connect
  <2>5. CASE CountEnded
    <3>1. pc' = "completing" => Ended(active)'
      <4>1. SUFFICES ASSUME pc' = "completing" PROVE Ended(active)
        BY <2>5 DEF CountEnded
      <4>2. IsOver(gs)
        BY <2>5, <4>1, SessionManagerAssumption DEF CountEnded, SessionManagerAssumption
      <4>3. gs \in States /\ gs.session \in Nat
        BY <4>2, <1>n DEF TypeOK, States
      <4>4. active = FindActiveEvent /\ gs.session >= active
        BY <2>5, <4>2 DEF CountEnded, Watched
      <4> QED BY <4>2, <4>3, <4>4
    <3> QED BY <2>5, <3>1 DEF CountEnded
  <2>6. CASE AddCompleted
    BY <2>6 DEF AddCompleted
  <2>7. CASE SaveLatest
    BY <2>7 DEF SaveLatest
  <2>8. CASE SaveFails \/ StopClient
    BY <2>8 DEF SaveFails, StopClient
  <2>9. CASE CloseSession \/ LoadFails
    BY <2>9 DEF CloseSession, LoadFails
  <2>10. CASE LoadLatest
    BY <2>10 DEF LoadLatest
  <2> QED
    BY <1>2, <2>1, <2>4, <2>5, <2>6, <2>7, <2>8, <2>9, <2>10 DEF Check
<1>3. CASE Environment
  <2>1. CASE Crash
    BY <2>1 DEF Crash
  <2>2. CASE FeedState
    BY <2>2 DEF FeedState
  <2>3. CASE FeedUnparsable \/ BrowserConnects
    BY <1>e, <2>3 DEF FeedUnparsable, BrowserConnects
  <2>4. CASE F1Shows \/ F1Over
    <3>1. UNCHANGED <<now, pc, active, running, gs, completed, saved>>
      BY <2>4 DEF F1Shows, F1Over
    <3>2. gs \in States \cup {Nil} /\ saved \in States \cup {Nil} /\ active \in Sessions
          /\ completed \subseteq Events
      BY DEF TypeOK
    <3>3. /\ \A e \in Events : Ended(e) => Ended(e)'
          /\ \A s \in States \cup {Nil} : Past(s) => Past(s)'
          /\ \A n \in Nat : f1.session >= n => f1'.session >= n
      BY <2>4, FeedGoesOn
    <3>4. Past(gs)' /\ Past(saved)' /\ (FindActiveEvent' # 0 => f1'.session >= FindActiveEvent')
      BY <3>1, <3>2, <3>3
    <3>5. pc' = "completing" => Ended(active)'
      BY <3>1, <3>2, <3>3 DEF Watched, Sessions
    <3>6. \A e \in completed' : Ended(e)'
      BY <3>1, <3>2, <3>3
    <3> QED BY <3>1, <3>4, <3>5, <3>6
  <2> QED BY <1>3, <2>1, <2>2, <2>3, <2>4 DEF Environment
<1>4. CASE UNCHANGED vars
  BY <1>4 DEF vars
<1> QED BY <1>1, <1>2, <1>3, <1>4 DEF Next

\* CompletedIsOver: however the feed, the browsers, Valkey and crashes interleave
\* with the checks, a session recorded as completed has ended, if the season's
\* windows are separate and the feed shows a session when its window opens.
THEOREM CompletedHasEnded == Season => (Spec => []CompletedIsOver)
<1> SUFFICES ASSUME Season PROVE Spec => []CompletedIsOver
  OBVIOUS
<1>1. CInv => CompletedIsOver
  BY DEF CInv
<1>2. Init => CInv
  BY CInvInit
<1>3. CInv /\ [Next]_vars => CInv'
  BY CInvStep
<1> QED BY <1>1, <1>2, <1>3, PTL DEF Spec
=============================================================================
