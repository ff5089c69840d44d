----------------------------- MODULE Recordings -----------------------------
(***************************************************************************)
(* The download of one recording (api/recordings.go).  A request that      *)
(* accepts gzip is served the compressed copy beside the recording, if     *)
(* there is one; the first one makes it.  Nothing keeps two requests, or   *)
(* the recorder, out of each other's way, and the copy is never remade.    *)
(*                                                                         *)
(* The recording is its number of lines, which the recorder adds to; the   *)
(* copy is what its bytes stand for: lines, the trailer that ends a gzip   *)
(* stream, or a hole that writing past the end of a truncated file leaves. *)
(***************************************************************************)
EXTENDS Naturals, Sequences

CONSTANTS
  Requests,  \* requests for the recording, each made once
  None,      \* no such file, no answer
  MaxLines,  \* bound: lines of the recording
  MaxFaults  \* bound: failures of the disk, and deaths of the process

ASSUME RecordingsAssumption ==
  /\ MaxLines \in Nat \ {0} /\ MaxFaults \in Nat
  /\ None \notin Seq(Nat)

Hole == 0
End == MaxLines + 1
Cells == 0 .. MaxLines + 1

VARIABLES
  txt,     \* lines of the recording on disk
  gz,      \* the compressed copy on disk
  at,      \* per request: where its handler is
  read,    \* per request: lines it has read of the recording
  answer,  \* per request: what it was sent
  faults,
  \* Bookkeeping the program does not keep.
  lines,   \* per request: lines of the recording when it arrived
  made,    \* the same of the request that made the copy, 0 if none did
  spoilt,  \* a copy was made by two at once, or broken off
  early    \* requests sent a copy that was still being made

reqVars == <<at, read, answer>>
vars == <<txt, gz, reqVars, faults, lines, made, spoilt, early>>

Where == {"new", "missing", "copying", "ready", "plain", "done", "lost"}

TypeOK ==
  /\ txt \in 1 .. MaxLines
  /\ gz = None \/ gz \in Seq(Cells)
  /\ at \in [Requests -> Where]
  /\ read \in [Requests -> 0 .. txt]
  /\ answer \in [Requests -> Seq(Cells) \cup {None}]
  /\ \A r \in Requests : at[r] \in {"copying", "ready"} => gz # None
  /\ \A r \in Requests : at[r] = "done" <=> answer[r] # None
  /\ faults \in 0 .. MaxFaults
  /\ lines \in [Requests -> 0 .. txt] /\ made \in 0 .. txt
  /\ spoilt \in BOOLEAN /\ early \subseteq Requests

Init ==
  /\ txt = 1 /\ gz = None
  /\ at = [r \in Requests |-> "new"]
  /\ read = [r \in Requests |-> 0]
  /\ answer = [r \in Requests |-> None]
  /\ faults = 0
  /\ lines = [r \in Requests |-> 0] /\ made = 0 /\ spoilt = FALSE /\ early = {}

\* The recorder appends to the recording.
Record ==
  /\ txt < MaxLines /\ txt' = txt + 1
  /\ UNCHANGED <<gz, reqVars, faults, lines, made, spoilt, early>>

-----------------------------------------------------------------------------
(* ServeFileWithCompression. *)

Copying == {r \in Requests : at[r] = "copying"}

\* The copy is taken to be there.
Mut_NeverMade(r) ==
  /\ at[r] = "new"
  /\ at' = [at EXCEPT ![r] = "ready"]
  /\ lines' = [lines EXCEPT ![r] = txt]
  /\ UNCHANGED <<txt, gz, read, answer, faults, made, spoilt, early>>

\* A request arrives, with or without gzip among the encodings it accepts; the
\* copy exists, or it does not.
Ask(r) ==
  /\ at[r] = "new"
  /\ \/ at' = [at EXCEPT ![r] = "plain"]
     \/ at' = [at EXCEPT ![r] = IF gz = None THEN "missing" ELSE "ready"]
  /\ lines' = [lines EXCEPT ![r] = txt]
  /\ UNCHANGED <<txt, gz, read, answer, faults, made, spoilt, early>>

\* createCompressedFile: os.Create truncates a copy that is there by now.
Create(r) ==
  /\ at[r] = "missing"
  /\ at' = [at EXCEPT ![r] = "copying"]
  /\ gz' = <<>>
  /\ made' = lines[r]
  /\ spoilt' = (spoilt \/ Copying # {} \/ gz # None)
  /\ UNCHANGED <<txt, read, answer, faults, lines, early>>

\* The copy with a cell written at a position, past its end if it has been cut.
WriteAt(pos, cell) ==
  [i \in 1 .. (IF pos > Len(gz) THEN pos ELSE Len(gz)) |->
     IF i = pos THEN cell ELSE IF i <= Len(gz) THEN gz[i] ELSE Hole]

\* io.Copy moves on by a line.
Copy(r) ==
  /\ at[r] = "copying" /\ read[r] < txt
  /\ gz' = WriteAt(read[r] + 1, read[r] + 1)
  /\ read' = [read EXCEPT ![r] = @ + 1]
  /\ UNCHANGED <<txt, at, answer, faults, lines, made, spoilt, early>>

Mut_NotClosed(r) ==
  /\ at[r] = "copying" /\ read[r] = txt
  /\ at' = [at EXCEPT ![r] = "ready"]
  /\ UNCHANGED <<txt, gz, read, answer, faults, lines, made, spoilt, early>>

\* Up to the end of the recording as it is then; the deferred Close writes the
\* trailer.
CopyEnds(r) ==
  /\ at[r] = "copying" /\ read[r] = txt
  /\ gz' = WriteAt(read[r] + 1, End)
  /\ at' = [at EXCEPT ![r] = "ready"]
  /\ UNCHANGED <<txt, read, answer, faults, lines, made, spoilt, early>>

\* The copy cannot be made, or not to its end: the request is answered from the
\* recording.  The copy stays as it is, and the deferred Close ends it like a
\* whole one if only the reading failed.  An error of that Close is not seen,
\* and the request is answered from a copy without a trailer.
CopyFails(r) ==
  /\ at[r] \in {"missing", "copying"} /\ faults < MaxFaults
  /\ faults' = faults + 1
  /\ \/ at' = [at EXCEPT ![r] = "plain"] /\ UNCHANGED gz
     \/ /\ at[r] = "copying"
        /\ at' = [at EXCEPT ![r] = "plain"]
        /\ gz' = WriteAt(read[r] + 1, End)
     \/ /\ at[r] = "copying" /\ read[r] = txt
        /\ at' = [at EXCEPT ![r] = "ready"] /\ UNCHANGED gz
  /\ spoilt' = (spoilt \/ at[r] = "copying")
  /\ UNCHANGED <<txt, read, answer, lines, made, early>>

\* http.ServeFile of the copy.
ServeCopy(r) ==
  /\ at[r] = "ready"
  /\ answer' = [answer EXCEPT ![r] = gz]
  /\ at' = [at EXCEPT ![r] = "done"]
  /\ early' = IF Copying # {} THEN early \cup {r} ELSE early
  /\ UNCHANGED <<txt, gz, read, faults, lines, made, spoilt>>

Recording(n) == [i \in 1 .. n + 1 |-> IF i <= n THEN i ELSE End]

\* http.ServeFile of the recording itself.
ServePlain(r) ==
  /\ at[r] = "plain"
  /\ answer' = [answer EXCEPT ![r] = Recording(txt)]
  /\ at' = [at EXCEPT ![r] = "done"]
  /\ UNCHANGED <<txt, gz, read, faults, lines, made, spoilt, early>>

\* The process dies, and with it the requests; the copy stays as it is.
Crash ==
  /\ faults < MaxFaults /\ faults' = faults + 1
  /\ spoilt' = (spoilt \/ Copying # {})
  /\ at' = [r \in Requests |-> IF at[r] \in {"new", "done"} THEN at[r] ELSE "lost"]
  /\ UNCHANGED <<txt, gz, read, answer, lines, made, early>>

Handle(r) ==
  Ask(r) \/ Create(r) \/ Copy(r) \/ CopyEnds(r) \/ CopyFails(r) \/ ServeCopy(r) \/ ServePlain(r)

Next == Record \/ (\E r \in Requests : Handle(r)) \/ Crash

Spec == Init /\ [][Next]_vars

-----------------------------------------------------------------------------
(* Properties. *)

Answered(r) == at[r] = "done"

\* Unless two requests made the copy at once, or it was broken off, or is still
\* being made, an answer is the whole recording as it was at some time, and not
\* before the request came, or that of the one that made the copy.
WholeUnlessDisturbed ==
  \A r \in Requests : Answered(r) =>
    \/ \E n \in 1 .. txt :
         /\ answer[r] = Recording(n)
         /\ n >= lines[r] \/ (made > 0 /\ n >= made)
    \/ spoilt
    \/ r \in early
=============================================================================
