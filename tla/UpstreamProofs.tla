--------------------------- MODULE UpstreamProofs ---------------------------
(***************************************************************************)
(* Theorems about Upstream for every number of runs.                       *)
(***************************************************************************)
EXTENDS Upstream, TLAPS

\* Stop has called the cancel function it found.
Cancelled == ctl \in {"looking", "hanging", "waiting", "panicked"}

\* Stop's progress: it begins with isRunning reset, and the stop channel is
\* closed from its second step to its last.
StopInv ==
  /\ stopClosed <=> ctl \in {"cancelling", "looking", "hanging", "waiting", "panicked"}
  /\ ctl # "idle" => ~isRunning
  /\ worker = "leaving" => ~isRunning
  /\ ctl = "idle" /\ ~isRunning => worker = "none"

\* The run in progress: its number, and the context it made.
RunInv ==
  /\ cancel <= run
  /\ worker # "none" => run \in Runs
  /\ \A r \in Runs : r > run => stream[r] = "none"
  /\ worker \notin {"serving", "none"} => \A r \in Runs : r = run => stream[r] # "live"
  /\ worker \in {"creating", "starting", "serving"} =>
       cancel = run /\ (Cancelled => run \in late \/ stream[run] = "cancelled")

\* A live client that is not a late one can still be cancelled by Stop: it is
\* the last run's, and so is the cancel function.
StreamInv ==
  \A r \in Runs : stream[r] = "live" /\ r \notin late =>
    /\ r = run /\ cancel = run
    /\ ~Cancelled
    /\ worker = "serving" \/ ctl = "cancelling"

IInv == TypeOK /\ StopInv /\ RunInv /\ StreamInv /\ WorkerAlive

\* Nothing is running in the initial state.
LEMMA IInvInit == Init => IInv
<1> SUFFICES ASSUME Init PROVE IInv
  OBVIOUS
<1> USE UpstreamAssumption DEF UpstreamAssumption, Init, Runs
<1>1. TypeOK
  <2>1. isRunning \in BOOLEAN /\ stopClosed \in BOOLEAN
    OBVIOUS
  <2>2. cancel \in 0 .. MaxRuns /\ run \in 0 .. MaxRuns
    OBVIOUS
  <2>3. ctl \in CtlStates /\ worker \in WorkerStates /\ legacy = "nil"
    BY DEF CtlStates, WorkerStates
  <2>4. stream \in [Runs -> {"none", "live", "cancelled"}]
    OBVIOUS
  <2>5. late \subseteq Runs /\ stillborn \subseteq Runs
    OBVIOUS
  <2> QED BY <2>1, <2>2, <2>3, <2>4, <2>5 DEF TypeOK
<1>2. StopInv
  BY DEF StopInv
<1>3. RunInv
  BY DEF RunInv
<1>4. StreamInv
  BY DEF StreamInv
<1>5. WorkerAlive
  BY DEF WorkerAlive
<1> QED BY <1>1, <1>2, <1>3, <1>4, <1>5 DEF IInv

\* Every step keeps the invariant.
LEMMA IInvStep == IInv /\ [Next]_vars => IInv'
<1> SUFFICES ASSUME IInv, [Next]_vars PROVE IInv'
  OBVIOUS
<1> USE UpstreamAssumption DEF UpstreamAssumption
<1> USE DEF IInv, TypeOK, StopInv, RunInv, StreamInv, WorkerAlive, Runs, Cancelled,
            CtlStates, WorkerStates, Ctl, Worker
<1>1. CASE Start
  BY <1>1 DEF Start
<1>2. CASE StopStep
  <2>1. CASE StopMark
    BY <2>1 DEF StopMark
  <2>2. CASE StopSignal
    BY <2>2 DEF StopSignal
  <2>3. CASE StopCancel
    BY <2>3 DEF StopCancel
  <2>4. CASE StopLook
    BY <2>4 DEF StopLook
  <2>5. CASE StopHangUp
    BY <2>5 DEF StopHangUp
  <2>6. CASE StopPanics
    BY <2>6 DEF StopPanics
  <2>7. CASE StopReturn
    BY <2>7 DEF StopReturn
  <2> QED BY <1>2, <2>1, <2>2, <2>3, <2>4, <2>5, <2>6, <2>7 DEF StopStep
<1>3. CASE ctl # "panicked" /\ NewStreamStep
  <2>1. CASE Authenticated
    BY <2>1 DEF Authenticated
  <2>2. CASE MakeContext
    BY <1>3, <2>2 DEF MakeContext
  <2>3. CASE CreateClient
    BY <2>3 DEF CreateClient
  <2>4. CASE CreateFails
    BY <2>4 DEF CreateFails
  <2>5. CASE StartStream
    BY <1>3, <2>5 DEF StartStream
  <2>6. CASE ServeStop
    BY <2>6 DEF ServeStop
  <2> QED BY <1>3, <2>1, <2>2, <2>3, <2>4, <2>5, <2>6 DEF NewStreamStep
<1>4. CASE LegacyStep
  <2>1. CASE LegacyTop
    BY <2>1 DEF LegacyTop
  <2>2. CASE Negotiate
    BY <2>2 DEF Negotiate
  <2>3. CASE Dial
    BY <2>3 DEF Dial
  <2>4. CASE Poll
    BY <2>4 DEF Poll
  <2>5. CASE ReadMessage
    BY <2>5 DEF ReadMessage
  <2>6. CASE ReadFails
    BY <2>6 DEF ReadFails
  <2>7. CASE Lost
    BY <2>7 DEF Lost
  <2>8. CASE DropConn
    BY <2>8 DEF DropConn
  <2>9. CASE Wake
    BY <2>9 DEF Wake
  <2>10. CASE Leave
    BY <2>10 DEF Leave
  <2> QED
    BY <1>4, <2>1, <2>2, <2>3, <2>4, <2>5, <2>6, <2>7, <2>8, <2>9, <2>10 DEF LegacyStep
<1>5. CASE UNCHANGED vars
  BY <1>5 DEF vars
<1> QED BY <1>1, <1>2, <1>3, <1>4, <1>5 DEF Next

\* The inductive invariant holds in every reachable state.
LEMMA Invariant == Spec => []IInv
BY IInvInit, IInvStep, PTL DEF Spec

\* Type correctness of the client's fields, and no legacy socket open without
\* a goroutine that reads it.
THEOREM TypeCorrect == Spec => []TypeOK
<1>1. IInv => TypeOK
  BY DEF IInv
<1> QED BY <1>1, Invariant, PTL

\* When Stop has returned, the goroutine is gone and so is its socket: the wait
\* for the goroutine is what the implication rests on (StopInv).
THEOREM StopIsQuiet == Spec => []StoppedIsQuiet
<1>1. IInv => StoppedIsQuiet
  BY DEF IInv, StopInv, TypeOK, StoppedIsQuiet
<1> QED BY <1>1, Invariant, PTL

\* The only SignalR clients that survive the Stop of their run are those whose
\* context was made after Stop had looked for it: one hole, and no other.
THEOREM OnlyLateStreamsStray == Spec => []NoStrayStream
<1>1. IInv => NoStrayStream
  BY DEF IInv, StreamInv, NoStrayStream
<1> QED BY <1>1, Invariant, PTL

\* A client that says it is running has a goroutine, or could not be created.
THEOREM RunningHasWorker == Spec => []WorkerAlive
<1>1. IInv => WorkerAlive
  BY DEF IInv
<1> QED BY <1>1, Invariant, PTL
=============================================================================
