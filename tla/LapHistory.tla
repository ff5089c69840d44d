----------------------------- MODULE LapHistory -----------------------------
(***************************************************************************)
(* The lap history and the grid (model/state.go): what the relay remembers *)
(* of every completed lap, built from the TimingData updates of the feed,  *)
(* and of the line each driver had first, built from DriverList's; both    *)
(* are carried from one global state to the next when the feed reconnects. *)
(*                                                                         *)
(* The feed is external: a driver completes sectors one after the other;   *)
(* each is one update, which carries the sector's time; so is each change  *)
(* of a driver's line, the position in the list, and of the session, also  *)
(* for a relay that stays connected (without -auto-connect it always is).  *)
(* A sector time is written as the lap it was driven in, 0 for none; laps  *)
(* are counted over all sessions, and one that a session's end leaves      *)
(* unfinished is not resumed.  The first sector of a lap clears the other  *)
(* two.  Subscribing yields a snapshot of the feed's state and then its    *)
(* updates, which the SignalR library is assumed to hand over one at a     *)
(* time and in order; the reply is handled by a goroutine of its own, so   *)
(* updates may overtake it.                                                *)
(***************************************************************************)
EXTENDS Naturals, Sequences, SequencesExt

CONSTANTS
  Drivers,
  Positions,
  Nil,          \* the nil *GlobalState
  NoReply,      \* no Subscribe call is waiting to be handled
  MaxLaps,      \* bound: laps per driver, over all sessions
  MaxSessions,  \* bound: sessions
  MaxQueue      \* bound: updates received and not yet handled

ASSUME LapHistoryAssumption ==
  /\ MaxLaps \in Nat /\ MaxSessions \in Nat \ {0} /\ MaxQueue \in Nat

VARIABLES
  session,    \* external: key of the session the feed shows
  progress,   \* external: the last sector completed by each driver
  begun,      \* external: laps each driver began before the session
  line,       \* external: line of each driver
  connected,  \* external: whether the feed sends us updates
  queue,      \* updates received, handled in order
  reply,      \* snapshot received in reply to Subscribe
  gs,         \* *globalState: session key, TimingData.Lines with <<>> for a
              \* driver that is not in it, LapHistoryMap, and DriverList's
              \* StartingPosition, 0 for none
  \* Bookkeeping the program does not keep.
  overtaken,  \* an update was handled before the snapshot that precedes it
  sound,      \* gs is the latest snapshot and every update after it
  missed,     \* a lap of this session ended while gs was not sound, or its
              \* laps were dropped: by a snapshot that cannot be read or lacks
              \* the session info, or with the key by a late SessionInfo
  kept        \* laps of each driver in the history that gs had from earlier
              \* sessions when its key changed in place

vars == <<session, progress, begun, line, connected, queue, reply, gs,
          overtaken, sound, missed, kept>>

feedVars == <<session, progress, begun, line, connected>>

LapOf(n)    == (n + 2) \div 3
SectorOf(n) == ((n - 1) % 3) + 1

\* The feed's own view of a driver's sectors after n of them.
SectorsAt(n) ==
  [i \in 1 .. 3 |-> IF n > 0 /\ i <= SectorOf(n) THEN LapOf(n) ELSE 0]

FeedLine(d) == SectorsAt(progress[d])

\* The sector that a driver completes next.
NextSector(d) == IF progress[d] > 3 * begun[d] THEN progress[d] + 1 ELSE 3 * begun[d] + 1

\* The laps that a driver has completed in this session.
Ended(d) == IF progress[d] > 3 * begun[d] THEN progress[d] \div 3 - begun[d] ELSE 0

NoneKept == [d \in Drivers |-> 0]

NoLaps == [d \in Drivers |-> <<>>]
NoLines == [d \in Drivers |-> <<>>]
NoStart == [d \in Drivers |-> 0]

\* NewEmptyGlobalState has a SessionInfo, with the zero Key.
EmptyState == [key |-> 0, lines |-> NoLines, laps |-> NoLaps, start |-> NoStart]

\* An update of a driver's sectors, or of the line, or of the session info.
Updates ==
  [driver : Drivers, sectors : 1 .. 3 * MaxLaps] \cup [driver : Drivers, line : Positions]
    \cup [info : 1 .. MaxSessions]

OfSectors(m) == "sectors" \in DOMAIN m
OfLine(m)    == "line" \in DOMAIN m
OfSession(m) == "info" \in DOMAIN m

Sectors == {s \in Seq(0 .. MaxLaps) : Len(s) \in 0 .. 3}
Laps    == [num : Nat, sectors : Sectors]

\* Global states.
States ==
  [key   : 0 .. MaxSessions,
   lines : [Drivers -> Sectors],
   laps  : [Drivers -> Seq(Laps)],
   start : [Drivers -> Positions \cup {0}]]

ASSUME NilAssumption == Nil \notin States /\ NoReply \notin States

\* The feed's and the relay's data; a driver's laps are numbered 1, 2, 3, ...
TypeOK ==
  /\ session \in 1 .. MaxSessions
  /\ progress \in [Drivers -> 0 .. 3 * MaxLaps]
  /\ begun \in [Drivers -> 0 .. MaxLaps]
  /\ line \in [Drivers -> Positions]
  /\ connected \in BOOLEAN
  /\ queue \in Seq(Updates) /\ Len(queue) \in 0 .. MaxQueue
  /\ reply \in States \cup {NoReply}
  /\ gs \in States \cup {Nil}
  /\ gs # Nil => \A d \in Drivers : \A i \in DOMAIN gs.laps[d] : gs.laps[d][i].num = i
  /\ overtaken \in BOOLEAN /\ sound \in BOOLEAN /\ missed \in BOOLEAN
  /\ kept \in [Drivers -> Nat]

Init ==
  /\ session = 1
  /\ progress = [d \in Drivers |-> 0]
  /\ begun = [d \in Drivers |-> 0]
  /\ line \in [Drivers -> Positions]
  /\ connected = FALSE
  /\ queue = <<>>
  /\ reply = NoReply
  /\ gs = EmptyState
  /\ overtaken = FALSE /\ sound = FALSE /\ missed = FALSE
  /\ kept = NoneKept

-----------------------------------------------------------------------------
(* The feed. *)

\* The feed's update m reaches the relay if that is connected.
Sends(m) ==
  /\ Len(queue) < MaxQueue
  /\ queue' = IF connected THEN Append(queue, m) ELSE queue

CompleteSector(d) ==
  /\ NextSector(d) <= 3 * MaxLaps
  /\ progress' = [progress EXCEPT ![d] = NextSector(d)]
  /\ Sends([driver |-> d, sectors |-> progress'[d]])
  /\ missed' = (missed \/ (~connected /\ SectorOf(progress'[d]) = 3))
  /\ UNCHANGED <<session, begun, line, connected, reply, gs, overtaken, sound, kept>>

MoveTo(d, p) ==
  /\ p # line[d]
  /\ line' = [line EXCEPT ![d] = p]
  /\ Sends([driver |-> d, line |-> p])
  /\ UNCHANGED <<session, progress, begun, connected, reply, gs, overtaken, sound, missed, kept>>

\* A lap begun in the session before is left as it is.
NextSession ==
  /\ session < MaxSessions
  /\ session' = session + 1
  /\ begun' = [d \in Drivers |-> LapOf(progress[d])]
  /\ Sends([info |-> session'])
  /\ missed' = FALSE
  /\ UNCHANGED <<progress, line, connected, reply, gs, overtaken, sound, kept>>

\* subscribeToTopics, on every (re)connection.  The reply may lack the session
\* info; NewGlobalState then has the zero key.
Subscribe ==
  /\ ~connected /\ reply = NoReply
  /\ connected' = TRUE
  /\ \E key \in {session, 0} :
       reply' = [key |-> key, lines |-> [d \in Drivers |-> FeedLine(d)],
                 laps |-> NoLaps, start |-> line]
  /\ overtaken' = (queue # <<>>)
  /\ UNCHANGED <<session, progress, begun, line, queue, gs, sound, missed, kept>>

Disconnect ==
  /\ connected
  /\ connected' = FALSE
  /\ sound' = FALSE
  /\ UNCHANGED <<session, progress, begun, line, queue, reply, gs, overtaken, missed, kept>>

-----------------------------------------------------------------------------
(* updateTimingData and saveLapToHistory. *)

Mut_ClearedSectorsKept(sectors, n) ==
  [i \in 1 .. 3 |->
     IF i = SectorOf(n) THEN LapOf(n) ELSE IF i > Len(sectors) THEN 0 ELSE sectors[i]]

\* applyMapUpdatesToSlice: grow the slice to the highest index in the update,
\* then merge element by element.
Merged(sectors, n) ==
  LET size == IF SectorOf(n) = 1 THEN 3 ELSE SectorOf(n)
      len  == IF Len(sectors) > size THEN Len(sectors) ELSE size
  IN  [i \in 1 .. len |->
         IF i = SectorOf(n) THEN LapOf(n)
         ELSE IF SectorOf(n) = 1 \/ i > Len(sectors) THEN 0
         ELSE sectors[i]]

UpdatedLine(m) == Merged(gs.lines[m.driver], m.sectors)

\* The lap is built from the entry still in the map, not from the updated copy.
\* The copy's Sectors share the entry's array unless they had to grow, in which
\* case the entry has fewer than three and the time cannot be summed ("N/A").
Mut_LapFromTheEntry(m) ==
  LET entry == gs.lines[m.driver] IN
  [num     |-> Len(gs.laps[m.driver]) + 1,
   sectors |-> IF Len(entry) = 3 THEN entry ELSE <<>>]

Mut_NumberedFromZero(m) ==
  [num |-> Len(gs.laps[m.driver]), sectors |-> UpdatedLine(m)]

CompletedLap(m) ==
  [num     |-> Len(gs.laps[m.driver]) + 1,
   sectors |-> IF Len(gs.lines[m.driver]) = 3 THEN UpdatedLine(m) ELSE <<>>]

\* A third sector's time saves a lap, if the driver already had an entry.
SavesLap(m) == SectorOf(m.sectors) = 3 /\ gs.lines[m.driver] # <<>>

Mut_LapsAfterFirstOnly(m) ==
  IF SavesLap(m) /\ gs.laps[m.driver] # <<>>
  THEN [gs.laps EXCEPT ![m.driver] = Append(@, CompletedLap(m))]
  ELSE gs.laps

LapsAfter(m) ==
  IF SavesLap(m)
  THEN [gs.laps EXCEPT ![m.driver] = Append(@, CompletedLap(m))]
  ELSE gs.laps

LinesAfter(m) == [gs.lines EXCEPT ![m.driver] = UpdatedLine(m)]

\* updateDriverList: the first line of a driver is the starting position.
StartAfter(m) ==
  [gs.start EXCEPT ![m.driver] = IF @ = 0 THEN m.line ELSE @]

\* The SessionInfo is overwritten in place; the rest of the state stays.
WithInfo(m) == [gs EXCEPT !.key = m.info]

\* A nil state skips every update.
HandleUpdate ==
  /\ queue # <<>>
  /\ queue' = Tail(queue)
  /\ LET m == Head(queue) IN
       \/ /\ OfSectors(m)
          /\ gs' = IF gs = Nil THEN gs
                   ELSE [gs EXCEPT !.lines = LinesAfter(m), !.laps = LapsAfter(m)]
          /\ missed' = (missed \/ (SectorOf(m.sectors) = 3 /\ (~sound \/ reply # NoReply)))
          /\ UNCHANGED kept
       \/ /\ OfLine(m)
          /\ gs' = IF gs = Nil THEN gs ELSE [gs EXCEPT !.start = StartAfter(m)]
          /\ UNCHANGED <<missed, kept>>
       \/ /\ OfSession(m)
          /\ gs' = IF gs = Nil THEN gs ELSE WithInfo(m)
          /\ missed' = (missed \/ (gs # Nil /\ gs.key = session /\ m.info # session))
          /\ kept' = IF gs = Nil \/ gs.key = m.info THEN kept
                     ELSE [d \in Drivers |-> Len(gs.laps[d])]
  /\ overtaken' = (overtaken \/ reply # NoReply)
  /\ UNCHANGED <<feedVars, reply, sound>>

-----------------------------------------------------------------------------
(* NewGlobalState. *)

Mut_AlwaysFreshLaps == NoLaps

\* The history is carried over when the session key is the same.  (The branch
\* for a snapshot without session info cannot be taken: a new state always has
\* a SessionInfo.)
SameSession == gs # Nil /\ gs.key = reply.key

CarriedLaps == IF SameSession THEN gs.laps ELSE NoLaps

\* So are the starting positions, over the snapshot's lines.
CarriedStart ==
  [d \in Drivers |-> IF SameSession /\ gs.start[d] # 0 THEN gs.start[d] ELSE reply.start[d]]

HandleReply ==
  /\ reply # NoReply
  /\ gs' = [reply EXCEPT !.laps = CarriedLaps, !.start = CarriedStart]
  /\ reply' = NoReply
  /\ sound' = (connected /\ ~overtaken)
  /\ missed' = (missed \/ reply.key = 0)
  /\ kept' = IF SameSession THEN kept ELSE NoneKept
  /\ UNCHANGED <<feedVars, queue, overtaken>>

\* A reply that does not parse leaves a nil state.
ReplyUnparsable ==
  /\ reply # NoReply
  /\ gs' = Nil
  /\ reply' = NoReply
  /\ sound' = FALSE
  /\ missed' = TRUE
  /\ kept' = NoneKept
  /\ UNCHANGED <<feedVars, queue, overtaken>>

\* /ws creates an empty state where there is none.
BrowserConnects ==
  /\ gs = Nil
  /\ gs' = EmptyState
  /\ UNCHANGED <<feedVars, queue, reply, overtaken, sound, missed, kept>>

Next ==
  \/ \E d \in Drivers : CompleteSector(d)
  \/ \E d \in Drivers, p \in Positions : MoveTo(d, p)
  \/ NextSession
  \/ Subscribe
  \/ Disconnect
  \/ HandleUpdate
  \/ HandleReply
  \/ ReplyUnparsable
  \/ BrowserConnects

Spec == Init /\ [][Next]_vars

-----------------------------------------------------------------------------
(* Properties. *)

\* When everything received has been handled, the state is the feed's (but for
\* the session, if the snapshot did not say it), unless
\* an update overtook the snapshot that should have come before it (then the
\* snapshot overwrote it, and nothing brings it back).
StateTracksFeed ==
  sound /\ queue = <<>> =>
    /\ gs.key \in {session, 0}
    /\ \A d \in Drivers : gs.lines[d] = FeedLine(d)

\* The three sector times of lap n.
Whole(n) == [i \in 1 .. 3 |-> n]

\* A lap saved in a sound state has three sector times, all of its own lap.
LapIsOneLap ==
  [][HandleUpdate /\ sound /\ reply = NoReply /\ gs # Nil =>
       LET m == Head(queue) IN
         OfSectors(m) /\ SectorOf(m.sectors) = 3 =>
           Last(gs'.laps[m.driver]).sectors = Whole(LapOf(m.sectors))]_vars

\* While a session lasts, a lap in the history stays there, unchanged, and so
\* does a starting position, through every reconnection whose snapshot can be
\* read and names the session.
HistoryKept ==
  [][gs # Nil /\ gs' # Nil /\ session \in {gs.key} \cap {gs'.key} =>
       \A d \in Drivers :
         /\ IsPrefix(gs.laps[d], gs'.laps[d])
         /\ gs.start[d] # 0 => gs'.start[d] = gs.start[d]]_vars

\* If no lap of the session was missed, the history has after what was kept of
\* earlier sessions exactly the laps that the driver has completed in this
\* one, in order and each with its own three times, over every reconnection.
LapsComplete ==
  sound /\ ~missed /\ queue = <<>> =>
    \A d \in Drivers :
      /\ Len(gs.laps[d]) = kept[d] + Ended(d)
      /\ \A i \in 1 .. Ended(d) : gs.laps[d][kept[d] + i].sectors = Whole(begun[d] + i)

\* The number that a lap gets (its place in the history, not the feed's number)
\* is the lap of the session, as NewGlobalState has it: "If the session key is
\* the same, it's a reconnect within the same session", else "New session
\* detected, resetting lap history".
LapNumbersTrue ==
  sound /\ ~missed /\ queue = <<>> =>
    \A d \in Drivers : Ended(d) > 0 => Last(gs.laps[d]).num = Ended(d)
=============================================================================
