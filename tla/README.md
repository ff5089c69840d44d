# pitwall-drs: specification and proofs

pitwall-drs relays the Formula 1 live timing feed: one connection to F1TV on one
side, many browsers on the other, with the feed's state kept in between so that a
browser can start from a snapshot. This directory specifies the relay in TLA+,
checks small instances of it with TLC and proves every safety property those runs check
for every instance with TLAPS.

    tlc -workers 2 -config broadcaster.cfg MCBroadcaster.tla
    tlapm BroadcasterProofs.tla
    tlapm UpstreamProofs.tla
    tlapm SessionManagerProofs.tla
    tlapm LapHistoryProofs.tla
    tlapm RelayProofs.tla
    tlapm RecorderProofs.tla
    tlapm RecordingsProofs.tla
    tlapm CachesProofs.tla

## The system

| component | code | state | operations | hard behaviour |
|---|---|---|---|---|
| broadcaster | `broadcaster/broadcaster.go` | clients, broadcast channel, message buffer, a send channel and two pumps per client | `Broadcast`, `HandleConnections`, `run()`'s four cases, `readPump`, `writePump` | four kinds of goroutine share channels; slow clients are evicted; three parties clean up |
| connection limiter | `ratelimiter/ratelimiter.go` | connections per address | `AddConnection`, `RemoveConnection` | paired calls made by different goroutines |
| upstream client | `f1tvclient/*.go` | `isRunning`, `stopChan`, `cancel`, `conn`, `legacyConn` | `Start`, `Stop`, `run`, the SignalR and the legacy loop, `ForceReconnect` | unlocked fields, Stop at any moment of a connection attempt, reconnection |
| session manager | `sessionmanager/manager.go` | `sessionEndedCount` | one check every two minutes | the decision depends on the clock, the state, Valkey and the client; crashes |
| Valkey client | `valkeyclient/client.go` | completed sessions, saved states, schedule, login | get and set | each call may fail |
| global state | `model/state.go` | the feed's topics, lap and incident history, starting positions | `NewGlobalState`, `ApplyFeedUpdate`, snapshot | partial updates merged into slices; snapshots that overtake updates |
| message handlers | `handlers/handlers.go` | skipped updates | new-stream and legacy messages | state replaced by one goroutine while another updates it |
| custom events | `model/custom_event_broadcaster.go`, `model/incident_parser.go` | - | lap, driver and incident events into the stream | sent while the state's mutex is held |
| HTTP | `main.go` | the pointer to the state | `/ws`, `/state`, `/season`, downloads | snapshot and registration are two steps |
| recorder | `recorder/*.go` | line buffer | `Record`, `flush`, `FinalizeSessionRecording`, `Stop` | two flushers, the file chosen late |
| replayer | `replayer/replayer.go` | first-client latch | `Start`, `NotifyFirstClient` | the latch is closed by concurrent handlers |
| season loader | `api/seasons.go` | schedule | `loadData`, `WaitUntilReady` | unlocked replacement, readiness after failure |
| recordings API | `api/recordings.go` | compressed copies on disk | serve, compress | copies that are stale or half written |
| authenticator | `auth/authenticator.go` | token cache in memory and in Valkey | `Authenticate` | two caches with different margins |
| tracks API, metrics, event model, load tester | `api/tracks.go`, `metrics/`, `model/event.go`, `loadtester.go` | - | - | nothing that changes state others use |

How they interact. The manager (or `main`) calls `Start` and `Stop` of the upstream
client. The client's goroutines call the handlers with each message; a handler first
hands the message to `Broadcast`, a channel `run()` drains, then replaces or updates the
global state, which in turn broadcasts custom events. `run()` records every message and
every 200 ms sends the bundle of what has come in to each client's channel. `/ws` takes
a snapshot of the state and passes it to `HandleConnections`. The manager, the recorder
and `/state` read the state through a shared pointer.

What makes each part correct:

- broadcaster: a client gets every message once and in order from where it joined until
  it is taken down; nobody closes a closed channel; everything is reclaimed; the limiter
  counts what exists;
- upstream client: at most one connection, Stop returns and leaves nothing, nothing but
  Stop ends the attempts to connect;
- session manager: connected during every session until it is over and not otherwise,
  no session recorded too early, across crashes and failures of Valkey;
- state: equal to the feed's; a lap is one lap, numbered right, and not lost;
- recorder: every message of a session in its file, once, in order;
- caches: never stale beyond what the code says.

`PROJECT.json` lists the hazards at their lines.

## Modules

### Fanout and Broadcaster

`Fanout` is what the broadcaster promises, without channels: messages are numbered,
a subscriber joins at a position, is handed runs of consecutive messages, and leaves.

`Broadcaster` is the code. `hpc[c]` is the program counter of the `HandleConnections`
call of attempt `c`; `reader[c]`, `writer[c]` those of its pumps; `clients`,
`broadcast`, `buffer` and `send` are the fields of the same name, `closed` the clients
whose channel has been closed, `ips` the limiter's map, `conn[c]` the websocket.
`RunRegister`, `RunUnregister`, `RunBroadcast` and `RunTick` are the four cases of
`run()`'s select; a rendezvous on an unbuffered channel is one step. A tick visits the
clients one by one in the code and is one step here; the comment at the head of the
module says why that loses nothing. A message is its number, a bundle the sequence of
the messages in it, the greeting the number 0.

`published`, `received`, `joinedAt` and `evicted` are bookkeeping: nothing reads them
but the properties. `StreamComplete` speaks of a queue of frames without flattening it:
`Continues` asks for a position in the stream at each end of a frame, which is the same
thing and can be reasoned about without induction. `Phase` and `Abstract` map the broadcaster to `Fanout`: a client is
live from its registration until its writePump ends.

### Upstream

`ctl` is the position of the goroutine that calls `Start` and `Stop`, `worker` that of
the goroutine that `Start` spawns. No lock guards the fields the two share, so each
access is a step. A SignalR client reconnects by itself as long as its context lives,
so `stream[r]` is `live` from its start to the cancellation of the context of run `r`.
`late` records the runs whose context was made after Stop had looked for one.

### SessionManager

One check is a path through `pc`: look the event up, ask Valkey, connect, count,
record, save, stop. The feed, browsers and crashes interleave with its steps. `Start`
and `Stop` are one step each. Time passes in checks. What Valkey keeps (`completed`,
`saved`) survives a crash. The feed is external: it shows the sessions in their order,
each by `Lead` before its start at the latest, and each gets over some time after its
start. `excused` holds the events whose completion Valkey failed to store or to
confirm; `finalised` those that a check has decided are over.

### LapHistory

`gs` is the part of the global state from which laps are made, and the starting
positions. A sector's time is written as the lap in which it was driven, so that a saved
lap shows whether its sectors belong together. `HandleUpdate` is the handler of one feed
message: of a driver's sectors down to `saveLapToHistory`, of a driver's line
(`updateDriverList`), or of the session info, which overwrites the key of the state and
leaves the rest (`WithInfo`). `HandleReply` is that of a snapshot, `NewGlobalState` with
its carry-over. The two are taken for atomic: an update applied to the old state while the
new one is built has the effect of one applied before. A reply may lack the session info:
the new state then has the zero key, and the code's branch that would keep the history in
this case cannot be taken (every new state has a `SessionInfo`), so the laps are dropped.

The feed is external. Laps are counted over all sessions; `begun` is where a session
starts, and what a session's end leaves of a lap is not resumed. A session may change at
any time, connected or not: with the manager the client is normally stopped in between,
without it (the default) it stays connected. That the updates are handed over one at a
time, in the order in which the SignalR client received them, is an assumption about that
library, whose source is not here; only the reply has a goroutine of its own.

`sound` says that `gs` is the latest snapshot and every update since; `missed` that a lap
of this session ended while it was not, or that the session's laps were dropped, as above
or by a `SessionInfo` that arrives late and takes the key away; `kept` how many laps of
earlier sessions each driver has in the history since the key changed in place.
`LapsComplete` is what is true of the history: after the kept ones, the laps of the
session, all, in order. `LapNumbersTrue` is what `NewGlobalState` says of it, with no
kept ones.

### Relay

`Relay` follows the feed's messages through both handlers to the browsers. The
broadcaster is reduced to what `Broadcaster` shows of it: a stream in order, of which
`msgs` are published and `taken` read by `run()`; a browser is greeted somewhere in what
`run()` has taken (`greetedAt`). `handling` holds a message between its broadcast and its
application, per goroutine: updates are handled one at a time, the SignalR reply beside
them. `gs` is a set of feed changes and of laps, or nil. An update that completes a lap
publishes it while the state is `locked`. `Arrive`, `MakeEmpty`, `Snapshot` and `Greet`
are `/ws`; a nil state that appears between the first and the third makes the handler
panic. `ReconnectPanics` is the call of `ForceReconnect` on the nil client that the
handlers were given.

`since` and `JoinGap` say which messages a browser cannot be blamed for: handled after
its snapshot was taken and flushed before its greeting was queued. `whole` says that
`gs` is the latest reply and every update since; it is false in the legacy stream, whose
updates are never applied, and after an empty state has been stored over a reply's.

### Journal and Recorder

`Journal` is what the recorder promises of its files: one per session, each only grows, by
lines that are in no file yet.

`Recorder` is the code. A line is the number of its message. `RecordReads` and
`RecordAppends` are the two halves of `Record`, around the mutex; `FlushChooses`,
`FlushTakes` and `FlushWrites` or `FlushFails` are the steps of `flush`: the path from the
state, the buffer under the mutex, the write without it. `path[f]` and `batch[f]` are the
local variables of the flush that goroutine `f` is in: `Ticker` is the flush routine,
`Finalisers` the goroutines that call `FinalizeSessionRecording` or `Stop`, at any time.
The state is reduced to what the recorder reads of it, the session and whether that is
finished; `Publish`, `Apply` and `Reset` are what the handlers, the manager and `/ws` do to
it. `Restart` is any end of the process.

`gone` collects the lines that were dropped or lost; `behind` those taken while another
flush still held earlier ones, the only ones that may be out of order in a file;
`displaced` those during whose way from the stream to the flush the state was in another
session, the only ones that may be in another session's file.

### Recordings

One recording and its compressed copy. The recording is its number of lines; the copy is
a sequence of what its bytes stand for: lines, the trailer of a gzip stream, or the hole
that a write past the end of a truncated file leaves (two requests that make the copy have
the file open each at its own position). `Ask` to `ServePlain` are the steps of
`ServeFileWithCompression`; `CopyFails` has the three ways in which a copy is broken off,
of which one looks like success. `made` is how long the recording was when the copy's
maker asked, `spoilt` that a copy was made by two or broken off, `early` who was served
one that was being made.

### TokenCache, SeasonLoader and Caches

The two parts that keep something in Valkey for a time. In `TokenCache` a token is the
time at which it expires; `mem` is the cache in memory, `kept` the session in Valkey, `lock`
the holder of the write lock. `Call` to `Fetch` are `Authenticate`, split where the lock is
given up: what Valkey said is used after another caller may have fetched. In
`SeasonLoader` a schedule is the time at which it was fetched; `due` is the ticker. A load
takes at most `Slow`, which is external: `http.Get` has no timeout there. `Caches` composes
them under one clock and adds the restart that empties both memories; the clock stops for
a load that is due.

The relay itself authenticates from one goroutine at a time (two, after a Stop that left
a stream behind), so the callers are more than it has today; the lock is the code's.

## Runs

| run | instance | shows |
|---|---|---|
| `broadcaster` | 3 attempts from one address, limit 2, queues of 1, 2 messages | `TypeOK`, `RunNeverPanics`, `StreamComplete`, `SlotsAccounted`, `LimitRespected` |
| `broadcaster_liveness` | 1 attempt, queue of 2, 4 messages, fairness | `GoroutinesReclaimed`, `HandlerReturns`, `DeliveredOrDropped`, `ImplementsFanout` |
| `broadcaster_slot_leak` | 2 attempts, limit 1 | violated: `RefusalMeansTooMany` |
| `upstream` | 3 runs of the client, fairness | `TypeOK`, `StoppedIsQuiet`, `NoStrayStream`, `WorkerAlive`, `StopReturns` |
| `upstream_one_connection` | 3 runs | violated: `OneConnection` |
| `manager` | 2 events, 15 checks, 1 crash, fairness | `TypeOK`, `CompletedIsOver`, `WatchesTheSession`, `RewatchedOnlyIfExcused`, `Disconnects` |
| `laps` | 1 driver, 2 lines, 2 laps, 3 sessions, 2 queued updates | `TypeOK`, `StateTracksFeed`, `LapsComplete`, `LapIsOneLap`, `HistoryKept` |
| `laps_session_change` | the same with 2 sessions | violated: `LapNumbersTrue` |
| `relay` | 1 browser, 2 connections, 2 changes of which 1 may end a lap, channel of 1, limit of 2 skipped updates, fairness | `TypeOK`, `BrowserFollows`, `LapsReachBrowsers`, `SnapshotServed` |
| `recorder` | 2 flushers, 2 sessions, 3 messages, 1 failure or restart, fairness | `TypeOK`, `EachLineOnce`, `OrderUnlessRaced`, `FiledUnderItsSession`, `ImplementsJournal`, `BufferDrains` |
| `recordings` | 3 requests, up to 3 lines, 1 failure or crash | `TypeOK`, `WholeUnlessDisturbed` |
| `caches` | 2 callers, clock to 5, token life 2, margin, interval, ttl and load of 1 | `CachesTypeOK`, `UsableToken`, `ScheduleAge`, `MemoryNeverOlder` |

The three violated properties are statements of the repository that the code does not
keep; each has a finding in `PROJECT.json`:

- a client evicted because it is slow does not give its limiter slot back. In the run the
  address is refused after the evicted client's socket is closed and both its pumps are
  gone, so no connection of it is left in any sense (`Existing`); a release at the
  unregistration would do. `SlotsAccounted` says that no later step gives it back either;
- Stop during authentication leaks a SignalR client, and after the next Start two are
  open. The stray one hands nothing on: its `runNewStream` returns on the closed stop
  channel before the client is connected, so `subscribeToTopics` never runs for it;
- a session that changes while the relay is connected keeps the laps and the grid of the
  one before. `SessionInfo` updates overwrite the state's key in place, and only
  `NewGlobalState` resets the history; without `-auto-connect` nothing ever disconnects
  the client between sessions. The new session's first lap is numbered after the old ones.

Several properties that hold name their exceptions, and each exception is something that
the code really does; without it TLC finds the property violated in the same instance:

- `OrderUnlessRaced`: a batch taken by one flush while another has not written its own may
  be written first, so a recording's lines may be out of order;
- `FiledUnderItsSession`: the last lines of a session that wait in the buffer when the
  state moves on are written into the next session's file;
- `WholeUnlessDisturbed`: a request can be sent half of a copy that another is making, and
  a copy made of an unfinished recording, or broken off, is served to everyone after;
- `ScheduleAge` has an interval more than the copy's life: a copy saved at the end of a
  load outlives the next tick, so the source is asked at every second tick only;
- `RewatchedOnlyIfExcused`, `NoStrayStream`, `BrowserFollows`: see the modules.

`UsableToken` promises no more than a token that had not expired when it was asked for: the
hour's margin that the cache in memory keeps is not kept for a token from Valkey. It rests
on the login service, which is external, never returning an expired token: the code does
not look.

### Bounds, and why they are enough

Broadcaster. Queues of one or two frames replace 256: what matters is whether a queue is
full, and with these it fills after one or two ticks. Two messages make a bundle or two
ticks, four (in the liveness run) a bundle of two and ticks on both sides of it; two
clients are what it takes for one to be evicted while the other goes on; three attempts under a limit of two are what it takes to admit one past it.
Attempts of different addresses meet nowhere in the limiter. A connection's liveness
does not depend on other connections, since `run()` never waits for one. The proofs
below have no bounds.

Upstream. Within a run the loops are unbounded; three runs are one that leaks, one
that meets what it left, and one that follows.

SessionManager. A threshold of two checks instead of five still tells a count that is
reset from one that is not. Two events are what it takes to mistake one for the other;
their windows do not overlap.

LapHistory. Drivers have separate entries, so one is enough; two laps tell a lap's
sectors from those of the lap before, three sessions tell a reconnection from a new
session and one that changed in place from one that changed unseen, two queued updates let a snapshot be overtaken, and two lines (interchangeable,
so declared symmetric) tell a starting position from the line a driver has now.

Relay. Browsers do not disturb each other, so one is enough; a second connection brings a
reply into the stream of a browser that has joined, and laps to carry over; two changes
are an update after, and one lost before, a reply. A channel of one is full after one
message, so laps are announced to a full channel. Without the exception for `JoinGap`,
`BrowserFollows` fails in this instance: the case happens.

Recorder. Two flushers are what it takes for one to overtake the other, with a third
message to wait behind them; two sessions are what it takes to misfile a line; one failure
breaks any of the steps. The proofs have no bounds.

Recordings. Two requests make the copy at once and the third finds what they leave; three
lines let the second truncate a copy of two and leave a hole. Requests are symmetric.

Caches. Two callers race for the lock; a token that outlives the margin by one unit passes
through all its phases (fresh, in its last hour, expired) within the clock's bound, and a
schedule reaches its greatest age. The proofs have no bounds but the clock's.

`CHECK_DEADLOCK` is off everywhere: all bounded systems here may stop, when the bounds
are used up or when nobody connects.

### Fairness

Broadcaster: `run()` never blocks, so each ready case of its select is taken in the end;
goroutines that can step do; reads and writes on a broken socket fail because of the
deadlines (`pongWait`, `writeWait`). A sender blocked on a channel is served in its turn,
which makes `Greet` strongly fair. Nobody has to connect, publish or leave.

Upstream: both goroutines step; authentication (it has a timeout), dialing and sleeping
end. The legacy negotiation has no timeout and is assumed to end. A read is only sure to
return once its socket is closed.

Relay: `run()` takes messages, a handler goes on with its update, a request that has its
turn for the mutex is served. Nobody has to connect or to send.

SessionManager: the ticker ticks, a check goes on to its end, and the season goes on.

Recorder: the ticker's flush is begun again and again while there is a path, and a flush
under way takes the mutex, which nobody holds for long, and writes. The finalising flushes
need not happen, and neither need failures or restarts.

## Proofs

`BroadcasterProofs` proves for every set of attempts, every address map, limit and
capacity, from `BroadcasterAssumption` alone:

- `TypeCorrect`: `Spec => []TypeOK`. `TypeOK` bounds `Flushed` from nothing, so the
  induction carries that no more is queued than was published (`TypeInv`).
- `NeverPanics`: `Spec => []RunNeverPanics`.
- `SlotsAreAccounted`: `Spec => []SlotsAccounted`, the limiter's count of an address as
  the size of the set of its holders.
- `LimitIsRespected`: `Spec => []LimitRespected`.

The inductive invariant `IInv` adds to these what the code relies on without saying:
clients that are registered, or whose channel is closed, are past their registration,
every evicted client has a closed channel, and no registered one has. So an attempt holds
its slot in one of three ways and never in two, and a release hits a slot that is the
attempt's own; without these facts the count could drift. The counting steps are
separate lemmas (`SlotTaken`, `SlotFreed`, `SlotsSame`): an action adds one holder,
removes one, or leaves the holders of each address alone; `IInvStep` goes through the
actions and cites them.

`StreamIsComplete` (`[]StreamComplete`) and `BroadcasterFansOut` (`Spec =>
ImplementsFanout`) share the invariant `StreamInv`: buffer and channel hold the numbers
after `Flushed`; each client whose writePump has not ended was handed a run that its queue
continues, up to `Flushed` if it is registered (`Handed`); nothing is queued for an attempt
that is not registered yet. `ContinuesAppend` and `ContinuesTail` say what a frame put into
a queue, and one taken from it, do to the positions; a tick is the first, a write the
second. For the refinement a registration joins at `Flushed`, a write delivers what
`SendsNext` says (or stutters, when the frame is the greeting), the end of the writePump
leaves, and all other steps stutter.

`UpstreamProofs` proves, for every number of runs, `TypeCorrect`, `StopIsQuiet`
(`[]StoppedIsQuiet`), `OnlyLateStreamsStray` (`[]NoStrayStream`) and `RunningHasWorker`
(`[]WorkerAlive`). Its invariant ties the two goroutines together in three parts:
`StopInv` (Stop resets `isRunning` first, and the stop channel is closed exactly from its
second step to its last), `RunInv` (from the making of a context to the end of a run the
cancel function is that run's, and if Stop has called it, the context is cancelled or
late), `StreamInv` (a live client that is not late is one that Stop can still cancel).

`SessionManagerProofs` proves, for every schedule, threshold and number of crashes:

- `TypeCorrect`. That the lookup finds an event when some window is open needs the first
  such event to exist: `LeastNat`, from the library's well-founded order on the naturals.
- `NotRewatched`: with Valkey, `Spec => RewatchedOnlyIfExcused`. `MInv` adds that an event
  whose finalisation has begun is completed or excused unless the running check is about
  to add it (`Recorded`), and that a check about to connect has seen, or could not see,
  that its event is not completed (`Unread`).
- `SessionIsWatched`: `Spec => []WatchesTheSession`, without any hypothesis. `Watched` says
  what each step of a check knows: the lookup it began with still holds, because the
  clock moves between checks only, and one about to disconnect has no event or one whose
  finalisation has begun.
- `CompletedHasEnded`: `Season => (Spec => []CompletedIsOver)`. `Season` has the three
  things without which the code does record a session too early, and which a season
  normally provides: `SeparateWindows`, the window of a session (14 minutes before its start to
  56 minutes after its end) closes before the next one's opens; `SeasonAhead`, the process
  is not started within the first window; `FeedIsEarly`, the feed shows a session before
  the first check in its window. The code checks none of them: while the feed, in the
  window of a session, still shows the end of the one before, the checks count towards the
  end of the new one, and the fifth records it. `CInv` adds where the states the
  process, Valkey and the browsers keep can come from (`FeedInv`): from no session later
  than the feed's, so that one seen as ended in an event's window is that event's. The run
  evaluates `Season` for its schedule (`MCScheduleAssumption`), so it is not empty.

`LapHistoryProofs` proves, for every number of drivers, positions, laps, sessions and
updates in the queue, from `LapHistoryAssumption` and `NilAssumption`:

- `TypeCorrect`, with each driver's laps numbered 1, 2, 3, ...;
- `StateFollows` (`[]StateTracksFeed`) and `LapsAreWhole` (`Spec => LapIsOneLap`). A sound
  state shows a view of the feed that the queued updates lead, one after the other, to the
  feed as it is now (`Replays`, in `SoundInv`); each update takes a view to the next
  (`Follows`): the next sector, of this session or of an earlier one, or the session
  itself. The same holds of a reply that nothing has overtaken (`SnapshotInv`).
  `MergedIsNext` is the lemma about the code's merge: a line of sectors updated by the
  next sector is the feed's next line. So a third sector finds two of its own lap;
- `LapsAreComplete` (`[]LapsComplete`): while no lap of the session was missed, the
  history and the laps that the queue still brings are together the session's (`LapsInv`),
  each with its three times (`WholeInv`), after the kept ones (`KeptInv`). A state with
  another key has none of them (`Saved`), so the `SessionInfo` update that gives it the
  session's key finds all its laps to be kept ones; and while a snapshot of an earlier
  session waits, none is saved that it could drop (`StaleInv`);
- `HistoryStays` (`Spec => HistoryKept`), an action property: `SessionInv` says that the
  state, if any, is of the session the feed is in or of an earlier one, so of two states
  with equal keys the new one takes the laps over rightly. It says nothing of a snapshot
  that does not parse or lacks the session info: that one does lose the laps.

`RelayProofs` proves, for every number of browsers, changes, connections and skipped
updates and every capacity:

- `TypeCorrect`. `HandlingInv` adds that what is being handled has been broadcast, after
  every message that a snapshot surely contains, and has the place in the stream that its
  handler believes;
- `LapsAreShown` (`[]LapsReachBrowsers`): a lap of the state is in a browser's snapshot, or
  announced after it, or about to be (`LapsInv`), also when a reply has replaced the state;
- `BrowsersFollow` (`[]BrowserFollows`). The difficulty is that two goroutines broadcast
  first and apply later, so the state is not the stream's prefix. `Current(i)` says of a
  message that its effect is in the state: it comes before those still being handled, and
  no applied reply follows it. `WholeInv` then says that a whole state has exactly the
  changes that current messages say, that a snapshot has those it surely contains, and
  that whatever else it has is in the state or said later. A reply keeps that only if it
  is as new as what it replaces: `CrossInv` and `ReplyInv` follow the reply from the
  feed to its broadcast and `HandledReplyInv` until it is applied; they say that it is,
  unless the two goroutines' messages have crossed, and then the state is not whole.
  `FeedInv` ties all of them to what the feed has shown.

`RecorderProofs` proves, for every set of flushers, number of sessions, messages and
failures, from `RecorderAssumption`:

- `TypeCorrect`: `Spec => []TypeOK`, which says that a flush under way has a path and that
  one which is not writing holds no batch;
- `LinesAreFiled`: `Spec => []FiledUnderItsSession`. The invariant `FiledInv` follows a
  line: while it waits, or is in a batch, the session it will be filed under is its own or
  the line is displaced already;
- `EachLineIsOnce`: `Spec => []EachLineOnce`, from two parts that are inductive together
  with `TypeOK`. `NoLineTwice` says that buffer, batches and files share no line;
  `NoLineVanishes` that they have all lines but those gone. `Placed` states the latter one
  line at a time, and each action moves a line from one place to another;
- `RecorderKeepsJournals`: `Spec => ImplementsJournal`, the refinement. A write appends
  lines that no file has because of `NoLineTwice`; every other step leaves the files alone;
- `RecordingsAreInOrder`: `Spec => []OrderUnlessRaced`. `OrderInv` orders the places of a
  line: files and batches come before the buffer, the buffer before the line that is held,
  and two batches are out of order only if the later one is `behind`. `OrderConcat` is the
  lemma about appending one ordered sequence to another.

`RecordingsProofs` proves, for every number of requests, lines and failures, `TypeCorrect`
and `AnswersAreWhole` (`[]WholeUnlessDisturbed`). `CopyUndisturbed` says that a copy which
nothing has spoilt has at most one writer and holds what that one has read, and is a whole
recording when it has none; `Arrived` that whoever copies found a line.

`CachesProofs` proves, for every set of callers, lifetimes, margin, interval, ttl and load
time, of the composition: `CachesTyped`, `TokensAreUsable`, `MemoryGrows` and
`ScheduleIsYoung`. For a token, the invariant is that what a caller holds from Valkey had
not expired when it called, so whatever is in memory when it takes the lock is at least as
good; for the schedule, that the copy is dropped `Ttl` after the end of the load that
fetched it, and how far from the fetch the next tick can be (`AgeInv`).

Model-checked only: the liveness properties (`GoroutinesReclaimed`, `HandlerReturns`,
`DeliveredOrDropped`, `StopReturns`, `Disconnects`, `SnapshotServed`, `BufferDrains`), as
liveness and `ENABLED` are out of the prover's reach, and the three statements that the
code violates. Every invariant, every action property and both refinements that the runs
check are theorems. Each inductive invariant was checked by TLC before it was proved.

## Not modelled, and the plan

Modelling order: broadcaster and limiter first, as every message goes through them; then
the upstream client and the manager, whose interleavings and failures are the least
testable; then the state, the way from the feed to a browser, the recorder, and the parts
that keep things on disk or in Valkey.

What more could be proved: the safety that the liveness properties rest on (for instance
that a client whose queue is closed always has a goroutine left to end it, or that whoever
waits for the state's mutex waits for a goroutine that can step); a `Relay` whose stream is `Fanout` itself, so that the
two modules are joined by a theorem and not by the reading of one beside the other.

Not modelled, and why:

- the replayer: a development mode, one goroutine that reads a file in order. Two things
  were seen in reading it: `NotifyFirstClient` may close its channel twice when two first
  browsers come at once (`replayer/replayer.go:50`), and a replay is recorded like a live
  session (`RECORD_LOGS` is a constant), into the file of the session being replayed;
- the recorder's metadata file and the listing of recordings, which only format what is
  there; a line cut in two by a broken write, whose rest shares a line with the next batch;
- the state's other topics, merged field by field like those that are modelled; the order
  of race control messages in one update, which is that of a Go map;
- what is broadcast as starting positions: at a reconnection that is the current order,
  sent before the state restores the grid (`model/state.go:503`);
- the manager without Valkey, in the runs: `HasValkey` is a constant and the proof of type
  correctness covers both values, but nothing then remembers that a session was finalised,
  and the next check connects to it again, as the code says;
- the token that a SignalR client goes on using after it has expired: its reconnections
  are the library's;
- the tracks API, metrics, the load tester (no state that others depend on), the incident
  parser's expressions, the token bucket of the download limiter (library), and races on
  unlocked Go maps, whose outcome is a crash of the runtime.
