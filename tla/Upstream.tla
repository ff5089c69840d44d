------------------------------ MODULE Upstream ------------------------------
(***************************************************************************)
(* The client of the F1TV live timing feed (f1tvclient/client.go,          *)
(* signalr.go, legacy.go): Start and Stop, called by one goroutine (the    *)
(* session manager, or main), against the goroutine that Start spawns,     *)
(* which authenticates and then either starts a SignalR client or, without *)
(* a token, dials the legacy websocket in a loop.                          *)
(*                                                                         *)
(* None of the fields they share is guarded by a lock; each read or write  *)
(* of one is a step of its own here.  A SignalR client reconnects by       *)
(* itself for as long as its context is not cancelled (external library):  *)
(* it is "live" from Start() until the cancellation.                       *)
(***************************************************************************)
EXTENDS Naturals, FiniteSets

CONSTANT MaxRuns      \* bound: calls of Start in a behaviour

ASSUME UpstreamAssumption == MaxRuns \in Nat

VARIABLES
  isRunning,    \* F1TVClient.isRunning
  stopClosed,   \* whether the current stopChan is closed
  cancel,       \* F1TVClient.cancel: the run whose context it cancels, 0 for nil
  legacy,       \* F1TVClient.legacyConn: "nil", "open", "closed"
  ctl,          \* where Start/Stop's caller is
  worker,       \* where the run() goroutine is
  stream,       \* per run: its SignalR client
  run,          \* number of runs started
  \* Bookkeeping the program does not keep.
  late,         \* runs whose context was made after Stop had looked for it
  stillborn     \* runs whose SignalR client could not be created

vars == <<isRunning, stopClosed, cancel, legacy, ctl, worker, stream, run, late, stillborn>>

Runs == 1 .. MaxRuns

CtlStates == {"idle", "marked", "cancelling", "looking", "hanging", "waiting", "panicked"}
WorkerStates == {"none", "authenticating", "contextualising", "creating", "starting", "serving",
                 "top", "negotiating", "dialing", "polling", "reading", "lost",
                 "dropping", "sleeping", "leaving"}

\* The shared fields and the two control states; the legacy socket is open only
\* while readMessages is there to close it.
TypeOK ==
  /\ isRunning \in BOOLEAN /\ stopClosed \in BOOLEAN
  /\ cancel \in 0 .. MaxRuns
  /\ legacy \in {"nil", "open", "closed"}
  /\ ctl \in CtlStates
  /\ worker \in WorkerStates
  /\ stream \in [Runs -> {"none", "live", "cancelled"}]
  /\ run \in 0 .. MaxRuns
  /\ late \subseteq Runs /\ stillborn \subseteq Runs
  /\ legacy = "open" => worker \in {"polling", "reading"}

Init ==
  /\ isRunning = FALSE /\ stopClosed = FALSE
  /\ cancel = 0
  /\ legacy = "nil"
  /\ ctl = "idle"
  /\ worker = "none"
  /\ stream = [r \in Runs |-> "none"]
  /\ run = 0
  /\ late = {} /\ stillborn = {}

Ctl(from, to)    == ctl = from /\ ctl' = to
Worker(from, to) == worker = from /\ worker' = to

-----------------------------------------------------------------------------
(* Start and Stop.  Both return at once when isRunning already says so. *)

Start ==
  /\ ctl = "idle" /\ ~isRunning /\ run < MaxRuns
  /\ isRunning' = TRUE
  /\ run' = run + 1
  /\ worker' = "authenticating"
  /\ UNCHANGED <<stopClosed, cancel, legacy, ctl, stream, late, stillborn>>

StopMark ==
  /\ Ctl("idle", "marked") /\ isRunning
  /\ isRunning' = FALSE
  /\ UNCHANGED <<stopClosed, cancel, legacy, worker, stream, run, late, stillborn>>

StopSignal ==
  /\ Ctl("marked", "cancelling")
  /\ stopClosed' = TRUE
  /\ UNCHANGED <<isRunning, cancel, legacy, worker, stream, run, late, stillborn>>

Mut_StopNeverCancels ==
  /\ Ctl("cancelling", "looking")
  /\ UNCHANGED <<isRunning, stopClosed, cancel, legacy, worker, stream, run, late, stillborn>>

\* cancel may be nil, or left over from an earlier run.
StopCancel ==
  /\ Ctl("cancelling", "looking")
  /\ stream' = [r \in Runs |-> IF r = cancel THEN "cancelled" ELSE stream[r]]
  /\ UNCHANGED <<isRunning, stopClosed, cancel, legacy, worker, run, late, stillborn>>

StopLook ==
  /\ \/ Ctl("looking", "waiting") /\ legacy = "nil"
     \/ Ctl("looking", "hanging") /\ legacy # "nil"
  /\ UNCHANGED <<isRunning, stopClosed, cancel, legacy, worker, stream, run, late, stillborn>>

StopHangUp ==
  /\ Ctl("hanging", "waiting")
  /\ legacy # "nil"
  /\ legacy' = "closed"
  /\ UNCHANGED <<isRunning, stopClosed, cancel, worker, stream, run, late, stillborn>>

\* The run goroutine set legacyConn to nil between the test and the call.
StopPanics ==
  /\ Ctl("hanging", "panicked")
  /\ legacy = "nil"
  /\ UNCHANGED <<isRunning, stopClosed, cancel, legacy, worker, stream, run, late, stillborn>>

Mut_ReturnsAtOnce ==
  /\ Ctl("waiting", "idle")
  /\ stopClosed' = FALSE
  /\ UNCHANGED <<isRunning, cancel, legacy, worker, stream, run, late, stillborn>>

\* wg.Wait(), then a fresh stopChan.
StopReturn ==
  /\ Ctl("waiting", "idle")
  /\ worker = "none"
  /\ stopClosed' = FALSE
  /\ UNCHANGED <<isRunning, cancel, legacy, worker, stream, run, late, stillborn>>

-----------------------------------------------------------------------------
(* run() and runNewStream. *)

Authenticated ==
  /\ \/ Worker("authenticating", "contextualising")
     \/ Worker("authenticating", "top")
  /\ UNCHANGED <<isRunning, stopClosed, cancel, legacy, ctl, stream, run, late, stillborn>>

MakeContext ==
  /\ Worker("contextualising", "creating")
  /\ cancel' = run
  /\ late' = IF ctl \in {"looking", "hanging", "waiting"} THEN late \cup {run} ELSE late
  /\ UNCHANGED <<isRunning, stopClosed, legacy, ctl, stream, run, stillborn>>

CreateClient ==
  /\ Worker("creating", "starting")
  /\ UNCHANGED <<isRunning, stopClosed, cancel, legacy, ctl, stream, run, late, stillborn>>

\* The goroutine ends with isRunning still set: nothing starts another one.
CreateFails ==
  /\ Worker("creating", "none")
  /\ stillborn' = stillborn \cup {run}
  /\ UNCHANGED <<isRunning, stopClosed, cancel, legacy, ctl, stream, run, late>>

\* A client started under a cancelled context does nothing.
StartStream ==
  /\ Worker("starting", "serving")
  /\ stream' = [stream EXCEPT ![run] = IF @ = "cancelled" THEN @ ELSE "live"]
  /\ UNCHANGED <<isRunning, stopClosed, cancel, legacy, ctl, run, late, stillborn>>

ServeStop ==
  /\ Worker("serving", "none")
  /\ stopClosed
  /\ UNCHANGED <<isRunning, stopClosed, cancel, legacy, ctl, stream, run, late, stillborn>>

-----------------------------------------------------------------------------
(* runLegacy and readMessages. *)

\* stopChan is looked at first, then isRunning; either ends the loop.
LegacyTop ==
  /\ \/ Worker("top", "leaving") /\ (stopClosed \/ ~isRunning)
     \/ Worker("top", "negotiating") /\ ~stopClosed /\ isRunning
  /\ UNCHANGED <<isRunning, stopClosed, cancel, legacy, ctl, stream, run, late, stillborn>>

Negotiate ==
  /\ Worker("negotiating", "dialing") \/ Worker("negotiating", "sleeping")
  /\ UNCHANGED <<isRunning, stopClosed, cancel, legacy, ctl, stream, run, late, stillborn>>

Dial ==
  /\ \/ Worker("dialing", "polling") /\ legacy' = "open"
     \/ Worker("dialing", "sleeping") /\ UNCHANGED legacy
  /\ UNCHANGED <<isRunning, stopClosed, cancel, ctl, stream, run, late, stillborn>>

Mut_PollIgnoresStop ==
  /\ Worker("polling", "reading")
  /\ UNCHANGED <<isRunning, stopClosed, cancel, legacy, ctl, stream, run, late, stillborn>>

Mut_NoDeferredClose ==
  /\ \/ Worker("polling", "lost") /\ stopClosed
     \/ Worker("polling", "reading") /\ ~stopClosed
  /\ UNCHANGED <<isRunning, stopClosed, cancel, legacy, ctl, stream, run, late, stillborn>>

\* A closed stopChan ends readMessages, whose deferred call closes the socket.
Poll ==
  /\ \/ Worker("polling", "lost") /\ stopClosed /\ legacy' = "closed"
     \/ Worker("polling", "reading") /\ ~stopClosed /\ UNCHANGED legacy
  /\ UNCHANGED <<isRunning, stopClosed, cancel, ctl, stream, run, late, stillborn>>

\* A message is read and handed to the handler.
ReadMessage ==
  /\ Worker("reading", "polling")
  /\ legacy = "open"
  /\ UNCHANGED <<isRunning, stopClosed, cancel, legacy, ctl, stream, run, late, stillborn>>

\* The server hangs up, or Stop closed the socket under the read.
ReadFails ==
  /\ Worker("reading", "lost")
  /\ legacy' = "closed"
  /\ UNCHANGED <<isRunning, stopClosed, cancel, ctl, stream, run, late, stillborn>>

Mut_NoReconnect ==
  /\ Worker("lost", "none")
  /\ UNCHANGED <<isRunning, stopClosed, cancel, legacy, ctl, stream, run, late, stillborn>>

Lost ==
  /\ \/ Worker("lost", "leaving") /\ stopClosed
     \/ Worker("lost", "dropping") /\ ~stopClosed
  /\ UNCHANGED <<isRunning, stopClosed, cancel, legacy, ctl, stream, run, late, stillborn>>

DropConn ==
  /\ Worker("dropping", "sleeping")
  /\ legacy' = "nil"
  /\ UNCHANGED <<isRunning, stopClosed, cancel, ctl, stream, run, late, stillborn>>

Wake ==
  /\ Worker("sleeping", "top")
  /\ UNCHANGED <<isRunning, stopClosed, cancel, legacy, ctl, stream, run, late, stillborn>>

\* The deferred isRunning = false runs before wg.Done.
Leave ==
  /\ Worker("leaving", "none")
  /\ isRunning' = FALSE
  /\ UNCHANGED <<stopClosed, cancel, legacy, ctl, stream, run, late, stillborn>>

-----------------------------------------------------------------------------
StopStep ==
  StopMark \/ StopSignal \/ StopCancel \/ StopLook \/ StopHangUp \/ StopPanics \/ StopReturn

NewStreamStep ==
  Authenticated \/ MakeContext \/ CreateClient \/ CreateFails \/ StartStream \/ ServeStop

LegacyStep ==
  LegacyTop \/ Negotiate \/ Dial \/ Poll \/ ReadMessage \/ ReadFails \/ Lost \/ DropConn
    \/ Wake \/ Leave

\* A panic in the caller's goroutine takes the process down.
Next == ctl # "panicked" /\ (Start \/ StopStep \/ NewStreamStep \/ LegacyStep)

Spec == Init /\ [][Next]_vars

\* Both goroutines are scheduled; authentication (90 s timeout), negotiation,
\* dialing and the 5 s sleeps end.  A server may stay silent for ever: a read
\* is only sure to return once the socket is closed.
Fairness ==
  /\ WF_vars(StopSignal \/ StopCancel \/ StopLook \/ StopHangUp \/ StopPanics \/ StopReturn)
  /\ WF_vars(NewStreamStep)
  /\ WF_vars(LegacyTop \/ Negotiate \/ Dial \/ Poll \/ Lost \/ DropConn \/ Wake \/ Leave)
  /\ WF_vars(legacy = "closed" /\ ReadFails)

FairSpec == Spec /\ Fairness

-----------------------------------------------------------------------------
(* Properties. *)

\* When Stop has returned, and before any Start, the goroutine of the last run
\* is gone, the stop channel is a fresh one, and no legacy socket is open, even
\* if Stop came while the goroutine was dialing one.
StoppedIsQuiet ==
  ctl = "idle" /\ ~isRunning => worker = "none" /\ ~stopClosed /\ legacy # "open"

\* A SignalR client that nobody serves any more is one whose context was made
\* after Stop had already called the previous cancel function; every other
\* one is cancelled by the Stop that ends its run.
NoStrayStream ==
  \A r \in Runs : stream[r] = "live" =>
    r \in late \/ (r = run /\ (worker = "serving" \/ ctl = "cancelling"))

\* A client that says it is running has a goroutine, except after NewClient
\* failed: the manager relies on IsRunning to decide whether to Start.
WorkerAlive == isRunning => worker # "none" \/ run \in stillborn

\* Stop returns, whatever the goroutine was doing when it was called: it waits
\* for that goroutine, and the manager's only thread waits for Stop.
StopReturns == ctl = "marked" ~> ctl \in {"idle", "panicked"}

\* README: "Allow one connection to the race telemetry websocket to fan out to
\* many thousands of clients": at most one client of the feed is open.
OneConnection ==
  Cardinality({r \in Runs : stream[r] = "live"}) + (IF legacy = "open" THEN 1 ELSE 0) <= 1
=============================================================================
