------------------------------ MODULE Recorder ------------------------------
(***************************************************************************)
(* The recorder (recorder/recorder.go).  run() hands it every message it   *)
(* takes from the stream; the lines wait in a buffer that several          *)
(* goroutines flush into the file of the session the global state is in:   *)
(* the flush routine every two seconds, the session manager when it        *)
(* finalises a session, main when it stops.                                *)
(*                                                                         *)
(* The file is chosen before the buffer is taken, and written after the    *)
(* mutex is given back: three steps, of which each may meet another state  *)
(* or another flush.  The state is reduced to what the recorder reads: the *)
(* session whose path it has, and whether that is finished.  A line is the *)
(* number of its message in the stream.                                    *)
(***************************************************************************)
EXTENDS Naturals, Sequences

CONSTANTS
  Finalisers,  \* the goroutines that finalise: the manager's, and main's in Stop
  LastSession, \* the sessions of the feed are 1 .. LastSession, in order
  Nil,         \* the nil *GlobalState
  MaxLines,    \* bound: messages of the feed
  MaxFaults    \* bound: failures of the disk and ends of the process

Ticker == "ticker"
Flushers == Finalisers \cup {Ticker}

Sessions == 1 .. LastSession
NoPath == 0
States == [session : Sessions \cup {NoPath}, finished : BOOLEAN]
Empty == [session |-> NoPath, finished |-> FALSE]

ASSUME RecorderAssumption ==
  /\ LastSession \in Nat \ {0} /\ MaxLines \in Nat /\ MaxFaults \in Nat
  /\ Ticker \notin Finalisers /\ Nil \notin States

VARIABLES
  feed,      \* external: the session the feed is in
  sent,      \* the messages handed to Broadcast: the session each is about
  gs,        \* *globalState
  taken,     \* how many messages run() has taken
  held,      \* the line that Record has decided to keep, before the mutex
  buffer,    \* Recorder.buffer
  at,        \* per flusher: where its goroutine is
  path,      \* per flusher: filePath
  batch,     \* per flusher: toWrite
  file,      \* the recordings on disk
  faults,    \* failures so far
  \* Bookkeeping the program does not keep.
  gone,      \* lines dropped, or lost with the process
  behind,    \* lines taken while another flush held earlier ones
  displaced, \* lines that met a state of another session on their way
  moved      \* flushes whose state has changed since they chose their file

feedVars == <<feed, sent, gs>>
lineVars == <<taken, held, buffer>>
flushVars == <<at, path, batch>>
history == <<gone, behind, displaced, moved>>
vars == <<feedVars, lineVars, flushVars, file, faults, history>>

Content(s) == {s[i] : i \in DOMAIN s}

TypeOK ==
  /\ feed \in Sessions
  /\ sent \in Seq(Sessions) /\ Len(sent) <= MaxLines
  /\ gs \in States \cup {Nil}
  /\ taken \in 0 .. Len(sent)
  /\ held \in Seq(1 .. taken) /\ Len(held) <= 1
  /\ buffer \in Seq(1 .. taken)
  /\ at \in [Flushers -> {"idle", "chosen", "writing"}]
  /\ path \in [Flushers -> Sessions \cup {NoPath}]
  /\ batch \in [Flushers -> Seq(1 .. taken)]
  /\ \A f \in Flushers : /\ at[f] # "idle" => path[f] \in Sessions
                         /\ at[f] # "writing" => batch[f] = <<>>
  /\ file \in [Sessions -> Seq(1 .. taken)]
  /\ faults \in 0 .. MaxFaults
  /\ gone \subseteq 1 .. taken /\ behind \subseteq 1 .. taken
  /\ displaced \subseteq 1 .. Len(sent) /\ moved \subseteq Flushers

Init ==
  /\ feed = 1
  /\ sent = <<>> /\ gs = Nil
  /\ taken = 0 /\ held = <<>> /\ buffer = <<>>
  /\ at = [f \in Flushers |-> "idle"]
  /\ path = [f \in Flushers |-> NoPath]
  /\ batch = [f \in Flushers |-> <<>>]
  /\ file = [s \in Sessions |-> <<>>]
  /\ faults = 0
  /\ gone = {} /\ behind = {} /\ displaced = {} /\ moved = {}

-----------------------------------------------------------------------------
(* The feed, the handlers and the manager, as far as the recorder sees them. *)

\* The next session begins.
FeedMoves ==
  /\ feed < LastSession /\ feed' = feed + 1
  /\ UNCHANGED <<sent, gs, lineVars, flushVars, file, faults, history>>

\* What the recorder reads of the state: getRecordingFilePath's session.
StateSession == IF gs = Nil THEN NoPath ELSE gs.session

\* A handler broadcasts a message, before it applies it.
Publish ==
  /\ Len(sent) < MaxLines
  /\ sent' = Append(sent, feed)
  /\ displaced' = IF StateSession \in {NoPath, feed}
                  THEN displaced ELSE displaced \cup {Len(sent) + 1}
  /\ UNCHANGED <<feed, gs, lineVars, flushVars, file, faults, gone, behind, moved>>

\* The lines on their way to the buffer, or in it.
Waiting == (taken + 1 .. Len(sent)) \cup Content(held) \cup Content(buffer)

\* The state becomes g.  A waiting line of another session is displaced.
SetState(g) ==
  /\ gs' = g
  /\ IF g.session = StateSession
     THEN UNCHANGED <<displaced, moved>>
     ELSE /\ displaced' = displaced \cup
               {n \in Waiting : g.session # NoPath /\ sent[n] # g.session}
          /\ moved' = moved \cup {f \in Flushers : at[f] = "chosen"}
  /\ UNCHANGED <<feed, sent, lineVars, flushVars, file, faults, gone, behind>>

\* A message that has been broadcast is applied: a reply, which replaces the
\* state, or an update of the session info or of the session's status, which a
\* nil state skips.  The status is the feed's, and may be any.
Apply ==
  /\ feed \in Content(sent)
  /\ \E finished \in BOOLEAN :
       \/ SetState([session |-> feed, finished |-> finished])
       \/ gs # Nil /\ SetState([gs EXCEPT !.session = feed])
       \/ gs # Nil /\ SetState([gs EXCEPT !.finished = finished])

\* The manager resets the state before it connects, /ws sets a nil one.
Reset == SetState(Empty)

-----------------------------------------------------------------------------
(* Record, called by run(). *)

\* Is the message kept?  The state is read before the mutex is taken.
RecordReads ==
  /\ held = <<>> /\ taken < Len(sent)
  /\ taken' = taken + 1
  /\ IF gs = Nil \/ ~gs.finished
     THEN held' = <<taken + 1>> /\ UNCHANGED gone
     ELSE gone' = gone \cup {taken + 1} /\ UNCHANGED held
  /\ UNCHANGED <<feedVars, buffer, flushVars, file, faults, behind, displaced, moved>>

RecordAppends ==
  /\ held # <<>>
  /\ buffer' = buffer \o held
  /\ held' = <<>>
  /\ UNCHANGED <<feedVars, taken, flushVars, file, faults, history>>

-----------------------------------------------------------------------------
(* flush, by any of the flushers. *)

\* The flush of f is over.
Returns(f) ==
  /\ at' = [at EXCEPT ![f] = "idle"]
  /\ path' = [path EXCEPT ![f] = NoPath]
  /\ batch' = [batch EXCEPT ![f] = <<>>]

Mut_FlushWithoutPath(f) ==
  /\ at[f] = "idle"
  /\ at' = [at EXCEPT ![f] = "chosen"]
  /\ path' = [path EXCEPT ![f] = StateSession]
  /\ moved' = moved \ {f}
  /\ UNCHANGED <<feedVars, lineVars, batch, file, faults, gone, behind, displaced>>

\* The path is computed at the first flush and kept.
Mut_FirstPathKept(f) ==
  /\ at[f] = "idle" /\ StateSession # NoPath
  /\ at' = [at EXCEPT ![f] = "chosen"]
  /\ path' = [path EXCEPT ![f] = IF \E s \in Sessions : file[s] # <<>>
                                 THEN CHOOSE s \in Sessions : file[s] # <<>>
                                 ELSE StateSession]
  /\ moved' = moved \ {f}
  /\ UNCHANGED <<feedVars, lineVars, batch, file, faults, gone, behind, displaced>>

Mut_NoFlushOnceFinished(f) ==
  /\ at[f] = "idle" /\ StateSession # NoPath /\ ~gs.finished
  /\ at' = [at EXCEPT ![f] = "chosen"]
  /\ path' = [path EXCEPT ![f] = StateSession]
  /\ moved' = moved \ {f}
  /\ UNCHANGED <<feedVars, lineVars, batch, file, faults, gone, behind, displaced>>

\* flush chooses the file from the state.  Without a path, or when the
\* directory cannot be made, it returns and changes nothing.
FlushChooses(f) ==
  /\ at[f] = "idle" /\ StateSession # NoPath
  /\ at' = [at EXCEPT ![f] = "chosen"]
  /\ path' = [path EXCEPT ![f] = StateSession]
  /\ moved' = moved \ {f}
  /\ UNCHANGED <<feedVars, lineVars, batch, file, faults, gone, behind, displaced>>

Mut_BufferNotReset(f) ==
  /\ at[f] = "chosen"
  /\ IF buffer = <<>>
     THEN Returns(f)
     ELSE /\ at' = [at EXCEPT ![f] = "writing"]
          /\ batch' = [batch EXCEPT ![f] = buffer]
          /\ UNCHANGED path
  /\ moved' = moved \ {f}
  /\ UNCHANGED <<feedVars, lineVars, file, faults, gone, behind, displaced>>

\* Under the mutex, flush takes the buffer, unless it is empty.
FlushTakes(f) ==
  /\ at[f] = "chosen"
  /\ IF buffer = <<>>
     THEN Returns(f)
     ELSE /\ at' = [at EXCEPT ![f] = "writing"]
          /\ batch' = [batch EXCEPT ![f] = buffer]
          /\ UNCHANGED path
  /\ buffer' = <<>>
  /\ behind' = IF \E g \in Flushers : batch[g] # <<>>
               THEN behind \cup Content(buffer) ELSE behind
  /\ displaced' = IF f \in moved THEN displaced \cup Content(buffer) ELSE displaced
  /\ moved' = moved \ {f}
  /\ UNCHANGED <<feedVars, taken, held, file, faults, gone>>

\* The batch is appended to the file, without the mutex.
FlushWrites(f) ==
  /\ at[f] = "writing"
  /\ file' = [file EXCEPT ![path[f]] = @ \o batch[f]]
  /\ Returns(f)
  /\ UNCHANGED <<feedVars, lineVars, faults, history>>

\* What could not be written is put back behind the lines that have come since.
Mut_PutBack(f) ==
  /\ at[f] = "writing" /\ faults < MaxFaults
  /\ faults' = faults + 1
  /\ buffer' = buffer \o batch[f]
  /\ Returns(f)
  /\ UNCHANGED <<feedVars, taken, held, file, history>>

\* A batch that could be written in part is written again.
Mut_WrittenAgain(f) ==
  /\ at[f] = "writing" /\ faults < MaxFaults
  /\ faults' = faults + 1
  /\ \E k \in 0 .. Len(batch[f]) - 1 :
       file' = [file EXCEPT ![path[f]] = @ \o SubSeq(batch[f], 1, k)]
  /\ buffer' = batch[f] \o buffer
  /\ Returns(f)
  /\ UNCHANGED <<feedVars, taken, held, history>>

\* The file cannot be opened, or only a part of the batch is written: what is
\* left of it is dropped.  (A line cut in two counts as dropped.)
FlushFails(f) ==
  /\ at[f] = "writing" /\ faults < MaxFaults
  /\ faults' = faults + 1
  /\ \E k \in 0 .. Len(batch[f]) - 1 :
       /\ file' = [file EXCEPT ![path[f]] = @ \o SubSeq(batch[f], 1, k)]
       /\ gone' = gone \cup {batch[f][i] : i \in k + 1 .. Len(batch[f])}
  /\ Returns(f)
  /\ UNCHANGED <<feedVars, lineVars, behind, displaced, moved>>

\* The process ends, also by main's return after Stop, which waits for no other
\* goroutine.  The files stay, what is in memory does not.
Restart ==
  /\ faults < MaxFaults /\ faults' = faults + 1
  /\ gone' = gone \cup Waiting \cup UNION {Content(batch[f]) : f \in Flushers}
  /\ gs' = Nil /\ taken' = Len(sent) /\ held' = <<>> /\ buffer' = <<>>
  /\ at' = [f \in Flushers |-> "idle"]
  /\ path' = [f \in Flushers |-> NoPath]
  /\ batch' = [f \in Flushers |-> <<>>]
  /\ moved' = {}
  /\ UNCHANGED <<feed, sent, file, behind, displaced>>

-----------------------------------------------------------------------------
Flush(f) == FlushChooses(f) \/ FlushTakes(f) \/ FlushWrites(f) \/ FlushFails(f)

Next ==
  \/ FeedMoves \/ Publish \/ Apply \/ Reset
  \/ RecordReads \/ RecordAppends
  \/ \E f \in Flushers : Flush(f)
  \/ Restart

Spec == Init /\ [][Next]_vars

\* The ticker ticks; a flush under way goes on.
Fairness ==
  /\ WF_vars(FlushChooses(Ticker))
  /\ \A f \in Flushers : WF_vars(FlushTakes(f) \/ FlushWrites(f))

FairSpec == Spec /\ Fairness

-----------------------------------------------------------------------------
(* Properties. *)

Distinct(s) == \A i, j \in DOMAIN s : s[i] = s[j] => i = j
Apart(s, t) == Content(s) \cap Content(t) = {}

\* A line is in one place: in no file twice, in no two files, and in none while
\* a flush or the buffer still has it, whoever flushes when.
NoLineTwice ==
  /\ Distinct(buffer) /\ Apart(held, buffer)
  /\ \A f \in Flushers :
       /\ Distinct(batch[f]) /\ Apart(batch[f], buffer) /\ Apart(batch[f], held)
       /\ \A g \in Flushers \ {f} : Apart(batch[f], batch[g])
  /\ \A s \in Sessions :
       /\ Distinct(file[s]) /\ Apart(file[s], buffer) /\ Apart(file[s], held)
       /\ \A f \in Flushers : Apart(file[s], batch[f])
       /\ \A t \in Sessions \ {s} : Apart(file[s], file[t])

\* A message that Record was given is in a file, on its way to one, or gone for
\* a reason: the session was finished, the disk failed, or the process died.
NoLineVanishes ==
  1 .. taken = gone \cup Content(held) \cup Content(buffer)
                 \cup (UNION {Content(batch[f]) : f \in Flushers})
                 \cup (UNION {Content(file[s]) : s \in Sessions})

\* Every message that run() has taken is accounted for, exactly once.
EachLineOnce == NoLineTwice /\ NoLineVanishes

\* A recording has its lines in the order of the stream, except that a batch
\* taken while another flush held an earlier one may be written before it.
OrderUnlessRaced ==
  \A s \in Sessions : \A i, j \in DOMAIN file[s] :
    i < j /\ file[s][i] > file[s][j] => file[s][i] \in behind

\* A line is in the recording of its own session, unless the state's session
\* changed between its way into the stream and its flush.
FiledUnderItsSession ==
  \A s \in Sessions : \A n \in Content(file[s]) : sent[n] = s \/ n \in displaced

\* The files, whatever the flushes and crashes, are journals.
J == INSTANCE Journal
ImplementsJournal == J!Spec

Pending == Content(buffer) \cup UNION {Content(batch[f]) : f \in Flushers}

\* A buffered line does not stay in memory while the state has a path.
BufferDrains ==
  \A n \in 1 .. MaxLines :
    (n \in Pending /\ StateSession # NoPath) ~> (n \notin Pending \/ StateSession = NoPath)
=============================================================================
