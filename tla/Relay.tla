-------------------------------- MODULE Relay --------------------------------
(***************************************************************************)
(* The feed's way through the relay (handlers/handlers.go, main.go's /ws,  *)
(* model/custom_event_broadcaster.go): a message is handed to the          *)
(* broadcaster, then applied to the global state, whose laps are announced *)
(* to the browsers while the state is locked.  A new browser is greeted    *)
(* with a snapshot of the state and gets the stream from then on.          *)
(*                                                                         *)
(* The feed is external: its state is the set of changes it has made, a    *)
(* reply to Subscribe carries all of them, an update one.  The broadcaster *)
(* is reduced to its positions in the stream (module Broadcaster has the   *)
(* rest): messages published, and taken by run() from its channel.  A      *)
(* browser's queue is in order, so what matters of its registration is the *)
(* position in the stream at which the greeting enters the queue.          *)
(***************************************************************************)
EXTENDS Naturals, Sequences, FiniteSets

CONSTANTS
  Browsers,    \* calls of /ws, each made once
  BcastCap,    \* capacity of the broadcast channel (256)
  SkipLimit,   \* skipped updates before ForceReconnect (50)
  Nil,         \* the nil *GlobalState
  None,        \* nothing being handled, or no reply under way
  MaxFeed,     \* bound: changes of the feed
  LapChanges,  \* bound: changes that may complete a lap
  MaxConnects  \* bound: connections to the feed

ASSUME RelayAssumption ==
  /\ BcastCap \in Nat \ {0} /\ SkipLimit \in Nat \ {0}
  /\ MaxFeed \in Nat /\ MaxConnects \in Nat
  /\ LapChanges \subseteq 1 .. MaxFeed

Threads == {"stream", "subscribe"}

VARIABLES
  feed,       \* external: number of changes of the feed
  link,       \* "down", "signalr" or "legacy"
  connects,   \* connections made so far
  reply,      \* the reply to Subscribe that is under way
  handling,   \* per thread: the message broadcast and not yet applied, its
              \* number and the link it came by
  gs,         \* *globalState: feed changes, laps, and whether it has a session key
  locked,     \* the state's mutex is held
  skipped,    \* skippedFeedUpdates
  crashed,    \* the process has died of a panic
  msgs,       \* messages handed to Broadcast
  taken,      \* how many of them run() has taken from its channel
  ws,         \* where the /ws handler of a browser is
  snap,       \* its initialState
  \* Bookkeeping the program does not keep.
  since,      \* the messages that snapshot surely contains
  greetedAt,  \* messages flushed when the greeting was queued
  crossed,    \* a reply and an update are, or were, handled beside each other,
              \* or the update before the reply
  whole       \* gs is the latest reply and every update since

feedVars    == <<feed, link, connects, reply>>
streamVars  == <<msgs, taken>>
browserVars == <<ws, snap, since, greetedAt>>
stateVars   == <<gs, locked, skipped, crashed>>
vars == <<feedVars, handling, stateVars, streamVars, browserVars, crossed, whole>>

Empty == [changes |-> {}, laps |-> {}, keyed |-> FALSE]

Updates == [kind : {"update"}, change : 1 .. MaxFeed, lap : BOOLEAN]
Laps    == [kind : {"lap"}, change : 1 .. MaxFeed]
Replies == [kind : {"reply"}, upto : 0 .. MaxFeed, good : BOOLEAN]

Messages == Updates \cup Laps \cup Replies
Handling == [msg : Messages, number : Nat, via : {"signalr", "legacy"}]

States == [changes : SUBSET (1 .. MaxFeed), laps : SUBSET (1 .. MaxFeed), keyed : BOOLEAN]

ASSUME NilAssumption ==
  Nil \notin States /\ None \notin States /\ None \notin Handling /\ None \notin 0 .. MaxFeed

\* The handlers' data and the stream's positions, which are in order.
TypeOK ==
  /\ feed \in 0 .. MaxFeed
  /\ link \in {"down", "signalr", "legacy"}
  /\ connects \in 0 .. MaxConnects
  /\ reply \in 0 .. MaxFeed \cup {None}
  /\ handling \in [Threads -> Handling \cup {None}]
  /\ gs \in States \cup {Nil}
  /\ locked \in BOOLEAN /\ crashed \in BOOLEAN
  /\ skipped \in 0 .. MaxFeed
  /\ msgs \in Seq(Messages)
  /\ taken \in 0 .. Len(msgs) /\ Len(msgs) - taken \in 0 .. BcastCap
  /\ ws \in [Browsers -> {"new", "stateless", "arrived", "snapped", "greeted", "failed"}]
  /\ snap \in [Browsers -> States \cup {None}]
  /\ since \in [Browsers -> 0 .. Len(msgs)] /\ greetedAt \in [Browsers -> 0 .. taken]
  /\ crossed \in BOOLEAN /\ whole \in BOOLEAN

Init ==
  /\ feed = 0 /\ link = "down" /\ connects = 0 /\ reply = None
  /\ handling = [t \in Threads |-> None]
  /\ gs = Nil /\ locked = FALSE /\ skipped = 0 /\ crashed = FALSE
  /\ msgs = <<>> /\ taken = 0
  /\ ws = [s \in Browsers |-> "new"]
  /\ snap = [s \in Browsers |-> None]
  /\ since = [s \in Browsers |-> 0]
  /\ greetedAt = [s \in Browsers |-> 0]
  /\ crossed = FALSE /\ whole = FALSE

-----------------------------------------------------------------------------
(* Broadcast, and run()'s taking and flushing of messages. *)

Mut_BroadcastNeverBlocks(m) == msgs' = Append(msgs, m) /\ UNCHANGED taken

\* Broadcast blocks while the channel is full.
Broadcast(m) ==
  /\ Len(msgs) - taken < BcastCap
  /\ msgs' = Append(msgs, m)
  /\ UNCHANGED taken

Mut_TakeLocksState ==
  /\ ~locked
  /\ taken < Len(msgs)
  /\ taken' = taken + 1
  /\ UNCHANGED <<feedVars, handling, stateVars, msgs, browserVars, crossed, whole>>

\* run() takes a message and records it; the recorder reads the state without
\* its mutex.
Take ==
  /\ ~crashed
  /\ taken < Len(msgs)
  /\ taken' = taken + 1
  /\ UNCHANGED <<feedVars, handling, stateVars, msgs, browserVars, crossed, whole>>

-----------------------------------------------------------------------------
(* The feed. *)

\* A connection is made with the state as it is, or with the one the session
\* manager has just reset; SignalR when there is a token, else the legacy
\* stream.
Connect ==
  /\ ~crashed /\ link = "down" /\ connects < MaxConnects
  /\ connects' = connects + 1
  /\ link' \in {"signalr", "legacy"}
  /\ feed' \in feed .. MaxFeed
  /\ reply' = feed'
  /\ \/ UNCHANGED <<gs, locked, whole>>
     \/ gs' = Empty /\ locked' = FALSE /\ whole' = FALSE
  /\ UNCHANGED <<handling, skipped, crashed, streamVars, browserVars, crossed>>

Disconnect ==
  /\ ~crashed /\ link # "down"
  /\ link' = "down" /\ reply' = None
  /\ crossed' = (crossed /\ \E t \in Threads : handling[t] # None)
  /\ UNCHANGED <<feed, connects, handling, stateVars, streamVars, browserVars, whole>>

-----------------------------------------------------------------------------
(* HandleNewStreamMessage and HandleLegacyStreamMessage.  Updates are      *)
(* handled one at a time; with SignalR the reply has a goroutine of its    *)
(* own, in the legacy stream it is the first message of the socket.        *)

Other(t) == CHOOSE u \in Threads : u # t

ReplyThread == IF link = "legacy" THEN "stream" ELSE "subscribe"

\* Both handlers begin by broadcasting the message.
Begin(t, m) ==
  /\ ~crashed
  /\ handling[t] = None
  /\ Broadcast(m)
  /\ handling' = [handling EXCEPT ![t] = [msg |-> m, number |-> Len(msgs) + 1, via |-> link]]
  /\ crossed' = (crossed \/ handling[Other(t)] # None \/ (t = "stream" /\ reply # None /\ m.kind = "update"))

\* ... and end when it is applied.
Finish(t) ==
  /\ handling' = [handling EXCEPT ![t] = None]
  /\ crossed' = (crossed /\ (handling[Other(t)] # None \/ (t = "stream" /\ reply # None)))

ReceiveUpdate ==
  /\ link # "down" /\ feed < MaxFeed
  /\ link = "legacy" => reply = None
  /\ feed' = feed + 1
  /\ \E lap \in {FALSE, link = "signalr" /\ feed + 1 \in LapChanges} :
       Begin("stream", [kind |-> "update", change |-> feed + 1, lap |-> lap])
  /\ UNCHANGED <<link, connects, reply, stateVars, browserVars, whole>>

ReceiveReply ==
  /\ reply # None
  /\ \E good \in BOOLEAN : Begin(ReplyThread, [kind |-> "reply", upto |-> reply, good |-> good])
  /\ reply' = None
  /\ UNCHANGED <<feed, link, connects, stateVars, browserVars, whole>>

Applies(t, kind) == ~crashed /\ handling[t] # None /\ handling[t].msg.kind = kind

Legacy == handling["stream"].via = "legacy"

Mut_CarryNothing(m) ==
  IF m.good THEN [changes |-> {}, laps |-> {}, keyed |-> TRUE] ELSE Nil

\* NewGlobalState: the laps are kept if the state before had a session key.
\* (One session here; module LapHistory has several.)
NewGlobalState(m) ==
  IF m.good
  THEN [changes |-> 1 .. m.upto,
        laps    |-> IF gs # Nil /\ gs.keyed THEN gs.laps ELSE {},
        keyed   |-> TRUE]
  ELSE Nil

ApplyReply(t) ==
  /\ Applies(t, "reply")
  /\ gs' = NewGlobalState(handling[t].msg)
  /\ locked' = FALSE
  /\ skipped' = IF handling[t].msg.good THEN 0 ELSE skipped
  /\ whole' = (handling[t].msg.good /\ ~crossed)
  /\ Finish(t)
  /\ UNCHANGED <<feedVars, crashed, streamVars, browserVars>>

Mut_LapNotAnnounced ==
  /\ Applies("stream", "update") /\ gs # Nil /\ ~Legacy
  /\ LET m == handling["stream"].msg IN
       gs' = [gs EXCEPT !.changes = @ \cup {m.change},
                        !.laps = IF m.lap THEN @ \cup {m.change} ELSE @]
  /\ skipped' = 0
  /\ whole' = (whole /\ ~crossed)
  /\ Finish("stream")
  /\ UNCHANGED <<feedVars, locked, crashed, streamVars, browserVars>>

\* ApplyFeedUpdate, under the state's mutex.  An update that completes a lap
\* announces it before the mutex is released (as others do incidents and
\* starting positions).
ApplyUpdate ==
  /\ Applies("stream", "update") /\ gs # Nil /\ ~Legacy
  /\ LET m == handling["stream"].msg IN
     IF m.lap
     THEN /\ gs' = [gs EXCEPT !.changes = @ \cup {m.change}, !.laps = @ \cup {m.change}]
          /\ locked' = TRUE
          /\ handling' = [handling EXCEPT !["stream"].msg = [kind |-> "lap", change |-> m.change]]
          /\ UNCHANGED crossed
     ELSE /\ gs' = [gs EXCEPT !.changes = @ \cup {m.change}]
          /\ Finish("stream")
          /\ UNCHANGED locked
  /\ skipped' = 0
  /\ whole' = (whole /\ ~crossed)
  /\ UNCHANGED <<feedVars, crashed, streamVars, browserVars>>

\* BroadcastLapHistory, then the end of ApplyFeedUpdate.
AnnounceLap ==
  /\ Applies("stream", "lap")
  /\ Broadcast(handling["stream"].msg)
  /\ locked' = FALSE
  /\ Finish("stream")
  /\ UNCHANGED <<feedVars, gs, skipped, crashed, browserVars, whole>>

\* The legacy handler takes A[0] for an array, and it is the topic: the update
\* is never applied.
IgnoreLegacyUpdate ==
  /\ Applies("stream", "update") /\ Legacy
  /\ whole' = FALSE
  /\ Finish("stream")
  /\ UNCHANGED <<feedVars, stateVars, streamVars, browserVars>>

\* There is no state to apply an update to.
SkipUpdate ==
  /\ Applies("stream", "update") /\ gs = Nil /\ ~Legacy
  /\ skipped + 1 < SkipLimit
  /\ skipped' = skipped + 1
  /\ Finish("stream")
  /\ UNCHANGED <<feedVars, gs, locked, crashed, streamVars, browserVars, whole>>

\* ForceReconnect is called on a nil client (main.go makes the handlers before
\* the client): it panics, which ends this call, its counter not reset, if the
\* SignalR client recovers from it, and else the process.
ReconnectPanics ==
  /\ Applies("stream", "update") /\ gs = Nil /\ ~Legacy
  /\ skipped + 1 >= SkipLimit
  /\ skipped' = skipped + 1
  /\ crashed' \in BOOLEAN
  /\ Finish("stream")
  /\ UNCHANGED <<feedVars, gs, locked, streamVars, browserVars, whole>>

-----------------------------------------------------------------------------
(* /ws. *)

Goes(s, from, to) == ~crashed /\ ws[s] = from /\ ws' = [ws EXCEPT ![s] = to]

\* The request looks whether there is a state ...
Arrive(s) ==
  /\ Goes(s, "new", IF gs = Nil THEN "stateless" ELSE "arrived")
  /\ UNCHANGED <<feedVars, handling, stateVars, streamVars, snap, since, greetedAt, crossed, whole>>

\* ... and makes an empty one if there was none, over a state that the feed's
\* reply may have made in between: the state then lacks what the reply said.
MakeEmpty(s) ==
  /\ Goes(s, "stateless", "arrived")
  /\ gs' = Empty /\ locked' = FALSE /\ whole' = FALSE
  /\ UNCHANGED <<feedVars, handling, skipped, crashed, streamVars, snap, since, greetedAt, crossed>>

\* Messages 1 .. Handled are broadcast and applied.
Handled ==
  LET busy == {handling[t].number : t \in {u \in Threads : handling[u] # None}} IN
  IF busy = {} THEN Len(msgs) ELSE (CHOOSE n \in busy : \A k \in busy : n <= k) - 1

\* GetStateAsJSON, under the mutex.
Snapshot(s) ==
  /\ Goes(s, "arrived", "snapped")
  /\ gs # Nil /\ ~locked
  /\ snap' = [snap EXCEPT ![s] = gs]
  /\ since' = [since EXCEPT ![s] = Handled]
  /\ UNCHANGED <<feedVars, handling, stateVars, streamVars, greetedAt, crossed, whole>>

\* A reply that could not be parsed has made the state nil in between: the
\* handler panics, which net/http recovers.
SnapshotPanics(s) ==
  /\ Goes(s, "arrived", "failed")
  /\ gs = Nil
  /\ UNCHANGED <<feedVars, handling, stateVars, streamVars, snap, since, greetedAt, crossed, whole>>

\* HandleConnections up to the moment the snapshot is queued.  The ticks have
\* flushed some of what run() took; a browser sees only where it comes in.
Greet(s) ==
  /\ Goes(s, "snapped", "greeted")
  /\ \E flushed \in 0 .. taken : greetedAt' = [greetedAt EXCEPT ![s] = flushed]
  /\ UNCHANGED <<feedVars, handling, stateVars, streamVars, snap, since, crossed, whole>>

-----------------------------------------------------------------------------
Feed    == Connect \/ Disconnect
Handle  ==
  \/ ReceiveUpdate \/ ReceiveReply
  \/ ApplyUpdate \/ AnnounceLap \/ IgnoreLegacyUpdate \/ SkipUpdate \/ ReconnectPanics
  \/ \E t \in Threads : ApplyReply(t)
Browser == \E s \in Browsers : Arrive(s) \/ MakeEmpty(s) \/ Snapshot(s) \/ SnapshotPanics(s) \/ Greet(s)

Next == Take \/ Feed \/ Handle \/ Browser

Spec == Init /\ [][Next]_vars

\* run(), the handlers and the HTTP server's goroutines go on.
Fairness ==
  /\ WF_vars(Take)
  /\ WF_vars(ApplyUpdate) /\ WF_vars(AnnounceLap)
  /\ \A s \in Browsers : WF_vars(Snapshot(s)) /\ WF_vars(SnapshotPanics(s))

FairSpec == Spec /\ Fairness

-----------------------------------------------------------------------------
(* Properties. *)

\* External: what a browser shows once it has read its queue.  A frame with an
\* R, be it the greeting or a reply in the stream, replaces what it knew of the
\* feed; updates and laps add to it.
Got(s)         == {i \in 1 .. taken : i > greetedAt[s]}
GotReplies(s)  == {i \in Got(s) : msgs[i].kind = "reply"}
LastReply(s)   == CHOOSE i \in GotReplies(s) : \A j \in GotReplies(s) : j <= i

Shown(s) ==
  IF GotReplies(s) = {}
  THEN snap[s].changes \cup {msgs[i].change : i \in {j \in Got(s) : msgs[j].kind = "update"}}
  ELSE (1 .. msgs[LastReply(s)].upto)
         \cup {msgs[i].change : i \in {j \in Got(s) : j > LastReply(s) /\ msgs[j].kind = "update"}}

ShownLaps(s) ==
  snap[s].laps \cup {msgs[i].change : i \in {j \in Got(s) : msgs[j].kind = "lap"}}

\* Messages that were broadcast, or still being applied, when the snapshot was
\* taken or later, and flushed before the greeting was queued.
JoinGap(s) == {i \in 1 .. greetedAt[s] : i > since[s]}

Carries(i, k) ==
  CASE msgs[i].kind = "reply" -> k <= msgs[i].upto
    [] OTHER -> msgs[i].change = k

Quiet == taken = Len(msgs) /\ \A t \in Threads : handling[t] = None

Greeted == {s \in Browsers : ws[s] = "greeted"}

\* A browser that has read its queue shows the relay's state, except for what
\* was flushed between its snapshot and its greeting: neither the order of
\* broadcast and application, nor reconnections, nor the nil state cost it more.
\* (With the SignalR stream, and no update handled beside a reply.)
BrowserFollows ==
  Quiet /\ whole => \A s \in Greeted : \A k \in 1 .. feed :
    (k \in gs.changes) # (k \in Shown(s)) => \E i \in JoinGap(s) : Carries(i, k)

\* Every lap of the history has reached every browser, by its snapshot or as an
\* event, with the same exception.
LapsReachBrowsers ==
  Quiet /\ gs # Nil => \A s \in Greeted : \A k \in gs.laps :
    k \in ShownLaps(s) \/ \E i \in JoinGap(s) : msgs[i].kind = "lap" /\ Carries(i, k)

\* A new browser gets its snapshot although laps are announced under the
\* state's mutex while the broadcast channel may be full.
SnapshotServed ==
  \A s \in Browsers : ws[s] = "arrived" ~> (ws[s] # "arrived" \/ crashed)
==============================================================================
