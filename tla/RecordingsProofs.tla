--------------------------- MODULE RecordingsProofs ---------------------------
(***************************************************************************)
(* Theorems about the download of a recording, for any number of requests, *)
(* lines and faults.                                                       *)
(***************************************************************************)
EXTENDS Recordings, SequenceTheorems, TLAPS

\* What a copier has written once it has read n lines.
Lines(n) == [i \in 1 .. n |-> i]

(* Lemmas about the copy. *)

\* None is not the contents of a file.
LEMMA NoneIsNoFile == \A f \in Seq(Cells) : f # None
<1>1. Cells \subseteq Nat
  BY RecordingsAssumption DEF Cells, RecordingsAssumption
<1>2. Seq(Cells) \subseteq Seq(Nat)
  BY <1>1, SeqMonotonic
<1> QED BY <1>2, RecordingsAssumption DEF RecordingsAssumption

\* A write leaves a file.
LEMMA WriteAtTyped ==
  ASSUME gz \in Seq(Cells), NEW pos \in Nat \ {0}, NEW cell \in Cells
  PROVE  WriteAt(pos, cell) \in Seq(Cells)
<1> DEFINE n == IF pos > Len(gz) THEN pos ELSE Len(gz)
<1>1. n \in Nat /\ Hole \in Cells
  BY RecordingsAssumption DEF Hole, Cells, RecordingsAssumption
<1>2. \A i \in 1 .. n :
        (IF i = pos THEN cell ELSE IF i <= Len(gz) THEN gz[i] ELSE Hole) \in Cells
  BY <1>1
<1>3. WriteAt(pos, cell) =
        [i \in 1 .. n |-> IF i = pos THEN cell ELSE IF i <= Len(gz) THEN gz[i] ELSE Hole]
  BY DEF WriteAt
<1> QED BY <1>1, <1>2, <1>3

\* So is the whole recording.
LEMMA RecordingTyped ==
  ASSUME NEW n \in 0 .. MaxLines
  PROVE  Recording(n) \in Seq(Cells)
<1>1. \A i \in 1 .. n + 1 : (IF i <= n THEN i ELSE End) \in Cells
  BY RecordingsAssumption DEF End, Cells, RecordingsAssumption
<1>2. n + 1 \in Nat
  OBVIOUS
<1> QED BY <1>1, <1>2 DEF Recording

\* A copier alone with its file extends it by what it read, and ends it.
LEMMA WriteAtEnd ==
  ASSUME NEW n \in Nat, gz = Lines(n)
  PROVE  /\ WriteAt(n + 1, n + 1) = Lines(n + 1)
         /\ WriteAt(n + 1, End) = Recording(n)
<1>1. Len(gz) = n /\ n + 1 > Len(gz)
  BY DEF Lines
<1>2. \A i \in 1 .. n + 1 : i # n + 1 => i <= Len(gz) /\ gz[i] = i
  BY <1>1 DEF Lines
<1>3. WriteAt(n + 1, n + 1) = [i \in 1 .. n + 1 |-> i]
  BY <1>1, <1>2 DEF WriteAt
<1>4. WriteAt(n + 1, End) = [i \in 1 .. n + 1 |-> IF i <= n THEN i ELSE End]
  <2>1. WriteAt(n + 1, End) =
          [i \in 1 .. n + 1 |-> IF i = n + 1 THEN End ELSE IF i <= Len(gz) THEN gz[i] ELSE Hole]
    BY <1>1 DEF WriteAt
  <2>2. \A i \in 1 .. n + 1 :
          (IF i = n + 1 THEN End ELSE IF i <= Len(gz) THEN gz[i] ELSE Hole)
            = (IF i <= n THEN i ELSE End)
    BY <1>1, <1>2
  <2> QED BY <2>1, <2>2
<1> QED BY <1>3, <1>4 DEF Lines, Recording

-----------------------------------------------------------------------------
(* Type correctness. *)

LEMMA TypeInit == Init => TypeOK
<1> SUFFICES ASSUME Init PROVE TypeOK
  OBVIOUS
<1> USE RecordingsAssumption DEF RecordingsAssumption, Init
<1>1. txt \in 1 .. MaxLines /\ faults \in 0 .. MaxFaults /\ made \in 0 .. txt
  OBVIOUS
<1>2. at \in [Requests -> Where] /\ \A r \in Requests : at[r] = "new" /\ answer[r] = None
  BY DEF Where
<1>3. read \in [Requests -> 0 .. txt] /\ lines \in [Requests -> 0 .. txt]
  OBVIOUS
<1>4. answer \in [Requests -> Seq(Cells) \cup {None}]
  OBVIOUS
<1> QED BY <1>1, <1>2, <1>3, <1>4 DEF TypeOK

LEMMA TypeStep == TypeOK /\ [Next]_vars => TypeOK'
<1> SUFFICES ASSUME TypeOK, [Next]_vars PROVE TypeOK'
  OBVIOUS
<1> USE RecordingsAssumption DEF RecordingsAssumption
<1>0. MaxLines \in Nat /\ txt \in Nat /\ End \in Cells
  BY DEF TypeOK, End, Cells
<1>1. CASE Record
  BY <1>0, <1>1 DEF Record, reqVars, TypeOK, Where
<1>2. ASSUME NEW r \in Requests, Handle(r) PROVE TypeOK'
  <2>1. CASE Ask(r)
    <3>1. \E w \in {"plain", "missing", "ready"} :
            at' = [at EXCEPT ![r] = w] /\ (w = "ready" => gz # None)
      BY <2>1 DEF Ask
    <3>2. lines' \in [Requests -> 0 .. txt]
      BY <1>0, <2>1 DEF Ask, TypeOK
    <3>3. /\ at' \in [Requests -> Where]
          /\ \A q \in Requests : at'[q] \in {"copying", "ready"} => gz # None
          /\ \A q \in Requests : at'[q] = "done" <=> at[q] = "done"
      BY <2>1, <3>1 DEF Ask, TypeOK, Where
    <3> QED BY <2>1, <3>2, <3>3 DEF Ask, TypeOK
  <2>2. CASE Create(r)
    <3>1. gz' \in Seq(Cells) /\ gz' # None
      BY <2>2, EmptySeq, NoneIsNoFile DEF Create
    <3>2. made' \in 0 .. txt /\ spoilt' \in BOOLEAN
      BY <2>2 DEF Create, TypeOK
    <3> QED BY <2>2, <3>1, <3>2 DEF Create, TypeOK, Where
  <2>3. ASSUME at[r] = "copying", NEW cell \in Cells, gz' = WriteAt(read[r] + 1, cell)
        PROVE  gz' \in Seq(Cells) /\ gz' # None
    <3>1. gz \in Seq(Cells) /\ read[r] + 1 \in Nat \ {0}
      BY <1>0, <2>3 DEF TypeOK
    <3> QED BY <2>3, <3>1, WriteAtTyped, NoneIsNoFile
  <2>4. CASE Copy(r)
    <3>1. read[r] + 1 \in Cells /\ read[r] + 1 \in 0 .. txt
      BY <1>0, <2>4 DEF Copy, TypeOK, Cells
    <3>2. gz' \in Seq(Cells) /\ gz' # None
      BY <2>3, <2>4, <3>1 DEF Copy
    <3>3. read' \in [Requests -> 0 .. txt]
      BY <2>4, <3>1 DEF Copy, TypeOK
    <3> QED BY <2>4, <3>2, <3>3 DEF Copy, TypeOK
  <2>5. CASE CopyEnds(r)
    <3>1. gz' \in Seq(Cells) /\ gz' # None
      BY <1>0, <2>3, <2>5 DEF CopyEnds
    <3> QED BY <2>5, <3>1 DEF CopyEnds, TypeOK, Where
  <2>6. CASE CopyFails(r)
    <3>1. gz' = gz \/ (gz' \in Seq(Cells) /\ gz' # None)
      BY <1>0, <2>3, <2>6 DEF CopyFails
    <3>2. faults' \in 0 .. MaxFaults /\ spoilt' \in BOOLEAN
      BY <2>6 DEF CopyFails, TypeOK
    <3>3. \E w \in {"plain", "ready"} :
            at' = [at EXCEPT ![r] = w] /\ (w = "ready" => at[r] = "copying")
      BY <2>6 DEF CopyFails
    <3>4. /\ at' \in [Requests -> Where]
          /\ \A q \in Requests : at'[q] \in {"copying", "ready"} => at[q] \in {"copying", "ready"}
          /\ \A q \in Requests : at'[q] = "done" <=> at[q] = "done"
      BY <2>6, <3>3 DEF CopyFails, TypeOK, Where
    <3> QED BY <2>6, <3>1, <3>2, <3>3, <3>4 DEF CopyFails, TypeOK
  <2>7. CASE ServeCopy(r)
    <3>1. gz \in Seq(Cells) /\ gz # None
      BY <2>7 DEF ServeCopy, TypeOK
    <3>2. \A q \in Requests : answer'[q] = IF q = r THEN gz ELSE answer[q]
      BY <2>7 DEF ServeCopy, TypeOK
    <3> QED BY <2>7, <3>1, <3>2 DEF ServeCopy, TypeOK, Where
  <2>8. CASE ServePlain(r)
    <3>1. Recording(txt) \in Seq(Cells) /\ Recording(txt) # None
      BY <1>0, RecordingTyped, NoneIsNoFile DEF TypeOK
    <3> QED BY <2>8, <3>1 DEF ServePlain, TypeOK, Where
  <2> QED BY <1>2, <2>1, <2>2, <2>4, <2>5, <2>6, <2>7, <2>8 DEF Handle
<1>3. CASE Crash
  <2>1. at' \in [Requests -> Where] /\ faults' \in 0 .. MaxFaults /\ spoilt' \in BOOLEAN
    BY <1>3 DEF Crash, TypeOK, Where
  <2>2. \A q \in Requests : /\ at'[q] \notin {"copying", "ready"}
                            /\ at'[q] = "done" <=> at[q] = "done"
    BY <1>3 DEF Crash, TypeOK
  <2> QED BY <1>3, <2>1, <2>2 DEF Crash, TypeOK
<1>4. CASE UNCHANGED vars
  BY <1>4 DEF vars, reqVars, TypeOK
<1> QED BY <1>1, <1>2, <1>3, <1>4 DEF Next

\* The files, the handlers and the answers keep their types, for any number of
\* requests: no request copies or serves a copy that was never made, and each
\* is answered once, when it is done.
THEOREM TypeCorrect == Spec => []TypeOK
<1> QED BY TypeInit, TypeStep, PTL DEF Spec

-----------------------------------------------------------------------------
(* The answers are whole. *)

\* A request that has arrived found a line there, and reads nothing before it
\* makes the copy; a copy was made by a request that had arrived.
Arrived ==
  /\ \A r \in Requests : at[r] # "new" => lines[r] >= 1
  /\ \A r \in Requests : at[r] \in {"new", "missing"} => read[r] = 0
  /\ gz # None <=> made >= 1

\* As long as nothing has disturbed the copy: at most one request writes it, and
\* it holds what that one has read; once it is written it is a whole recording,
\* with what was there when its maker arrived.
CopyUndisturbed ==
  ~spoilt =>
    /\ \A r, q \in Requests : at[r] = "copying" /\ at[q] = "copying" => r = q
    /\ \A r \in Requests : at[r] = "copying" => gz = Lines(read[r])
    /\ gz # None /\ Copying = {} => \E n \in made .. txt : gz = Recording(n)

IInv == TypeOK /\ Arrived /\ CopyUndisturbed /\ WholeUnlessDisturbed

LEMMA IInvInit == Init => IInv
<1> SUFFICES ASSUME Init PROVE IInv
  OBVIOUS
<1>1. Arrived
  BY DEF Init, Arrived
<1>2. CopyUndisturbed
  BY DEF Init, CopyUndisturbed
<1>3. WholeUnlessDisturbed
  BY DEF Init, WholeUnlessDisturbed, Answered
<1> QED BY TypeInit, <1>1, <1>2, <1>3 DEF IInv

\* An answer given stays a good one, unless the step that remakes the copy
\* spoils it.
LEMMA AnswersStand ==
  ASSUME IInv, TypeOK', NEW q \in Requests, at[q] = "done",
         answer'[q] = answer[q], lines'[q] = lines[q], txt <= txt',
         spoilt => spoilt', early \subseteq early',
         made' = made \/ gz = None \/ spoilt'
  PROVE  \/ \E n \in 1 .. txt' :
              /\ answer'[q] = Recording(n)
              /\ n >= lines'[q] \/ (made' > 0 /\ n >= made')
         \/ spoilt'
         \/ q \in early'
<1> SUFFICES ASSUME ~spoilt', q \notin early'
             PROVE  \E n \in 1 .. txt' :
                      /\ answer'[q] = Recording(n)
                      /\ n >= lines'[q] \/ (made' > 0 /\ n >= made')
  OBVIOUS
<1>1. PICK n \in 1 .. txt : /\ answer[q] = Recording(n)
                            /\ n >= lines[q] \/ (made > 0 /\ n >= made)
  BY DEF IInv, WholeUnlessDisturbed, Answered
<1>2. n \in 1 .. txt'
  BY DEF IInv, TypeOK
<1>3. made' = made \/ ~(made > 0)
  BY DEF IInv, TypeOK, Arrived
<1> QED BY <1>1, <1>2, <1>3

LEMMA IInvStep == IInv /\ [Next]_vars => IInv'
<1> SUFFICES ASSUME IInv, [Next]_vars PROVE IInv'
  OBVIOUS
<1>0. TypeOK /\ Arrived /\ CopyUndisturbed /\ WholeUnlessDisturbed /\ TypeOK'
  BY TypeStep DEF IInv
<1>t. txt \in Nat /\ MaxLines \in Nat /\ \A r \in Requests : read[r] \in Nat /\ lines[r] \in Nat
  BY <1>0, RecordingsAssumption DEF TypeOK, RecordingsAssumption
<1> SUFFICES Arrived' /\ CopyUndisturbed' /\ WholeUnlessDisturbed'
  BY <1>0 DEF IInv
<1> USE <1>0, <1>t
<1>1. CASE Record
  <2> USE <1>1 DEF Record, reqVars
  <2>1. Arrived'
    BY DEF Arrived
  <2>2. CopyUndisturbed'
    <3> SUFFICES ASSUME ~spoilt PROVE CopyUndisturbed'
      BY DEF CopyUndisturbed
    <3>1. Copying' = Copying
      BY DEF Copying
    <3>2. ASSUME gz # None, Copying = {} PROVE \E n \in made .. txt' : gz = Recording(n)
      <4>1. PICK n \in made .. txt : gz = Recording(n)
        BY <3>2 DEF CopyUndisturbed
      <4>2. n \in made .. txt'
        BY DEF TypeOK
      <4> QED BY <4>1, <4>2
    <3> QED BY <3>1, <3>2 DEF CopyUndisturbed
  <2>3. WholeUnlessDisturbed'
    BY AnswersStand DEF WholeUnlessDisturbed, Answered
  <2> QED BY <2>1, <2>2, <2>3
<1>2. ASSUME NEW r \in Requests, Handle(r)
      PROVE  Arrived' /\ CopyUndisturbed' /\ WholeUnlessDisturbed'
  <2>1. CASE Ask(r)
    <3> USE <2>1 DEF Ask
    <3>1. PICK w \in {"plain", "missing", "ready"} : at' = [at EXCEPT ![r] = w]
      OBVIOUS
    <3>2. \A q \in Requests : at'[q] \in {"copying", "done", "new"} => q # r /\ at'[q] = at[q]
      BY <3>1 DEF TypeOK
    <3>3. Copying' = Copying
      BY <3>1 DEF Copying, TypeOK
    <3>4. Arrived'
      BY <3>1 DEF Arrived, TypeOK
    <3>5. CopyUndisturbed'
      BY <3>2, <3>3 DEF CopyUndisturbed
    <3>6. WholeUnlessDisturbed'
      BY <3>2, AnswersStand DEF WholeUnlessDisturbed, Answered, TypeOK
    <3> QED BY <3>4, <3>5, <3>6
  <2>2. CASE Create(r)
    <3> USE <2>2 DEF Create
    <3>1. gz' = Lines(0) /\ gz' # None
      <4>1. Lines(0) \in Seq(Cells) /\ Len(Lines(0)) = 0
        BY DEF Lines
      <4>2. Lines(0) = <<>>
        BY <4>1, EmptySeq
      <4> QED BY <4>1, <4>2, NoneIsNoFile
    <3>2. Arrived'
      BY <3>1 DEF Arrived, TypeOK
    <3>3. CopyUndisturbed'
      BY <3>1 DEF Arrived, CopyUndisturbed, Copying, TypeOK
    <3>4. WholeUnlessDisturbed'
      <4>1. made' = made \/ gz = None \/ spoilt'
        OBVIOUS
      <4>2. \A q \in Requests : at'[q] = "done" => at[q] = "done"
        BY DEF TypeOK
      <4>3. txt <= txt' /\ lines' = lines /\ answer' = answer /\ (spoilt => spoilt') /\ early' = early
        BY DEF TypeOK
      <4> HIDE DEF Create
      <4> QED BY <4>1, <4>2, <4>3, AnswersStand DEF WholeUnlessDisturbed, Answered
    <3> QED BY <3>2, <3>3, <3>4
  <2>3. CASE Copy(r)
    <3> USE <2>3 DEF Copy
    <3>1. gz # None /\ gz' # None
      BY WriteAtTyped, NoneIsNoFile DEF TypeOK
    <3>2. Arrived'
      BY <3>1 DEF Arrived, TypeOK
    <3>3. CopyUndisturbed'
      BY WriteAtEnd DEF CopyUndisturbed, Copying, TypeOK
    <3>4. WholeUnlessDisturbed'
      BY AnswersStand DEF WholeUnlessDisturbed, Answered
    <3> QED BY <3>2, <3>3, <3>4
  <2>4. CASE CopyEnds(r)
    <3> USE <2>4 DEF CopyEnds
    <3>1. gz # None /\ gz' # None
      BY DEF TypeOK
    <3>2. Arrived'
      BY <3>1 DEF Arrived, TypeOK
    <3>3. CopyUndisturbed'
      <4> SUFFICES ASSUME ~spoilt PROVE CopyUndisturbed'
        BY DEF CopyUndisturbed
      <4>1. \A q \in Requests : at'[q] # "copying"
        BY DEF CopyUndisturbed, TypeOK
      <4>2. gz' = Recording(txt) /\ txt' = txt /\ made' \in 0 .. txt
        BY WriteAtEnd DEF CopyUndisturbed, TypeOK
      <4> QED BY <4>1, <4>2 DEF CopyUndisturbed, TypeOK
    <3>4. WholeUnlessDisturbed'
      <4>1. \A q \in Requests : at'[q] = "done" => at[q] = "done"
        BY DEF TypeOK
      <4> QED BY <4>1, AnswersStand DEF WholeUnlessDisturbed, Answered
    <3> QED BY <3>2, <3>3, <3>4
  <2>5. CASE CopyFails(r)
    <3> USE <2>5 DEF CopyFails
    <3>1. PICK w \in {"plain", "ready"} : at' = [at EXCEPT ![r] = w]
      OBVIOUS
    <3>2. \A q \in Requests : at'[q] \in {"copying", "done", "new", "missing"} => q # r /\ at'[q] = at[q]
      BY <3>1 DEF TypeOK
    <3>3. gz # None <=> gz' # None
      <4>1. CASE gz' = gz
        BY <4>1
      <4>2. CASE at[r] = "copying" /\ gz' = WriteAt(read[r] + 1, End)
        <5>1. gz \in Seq(Cells) /\ gz # None /\ read[r] + 1 \in Nat \ {0}
          BY <4>2 DEF TypeOK
        <5>2. End \in Cells
          BY DEF End, Cells
        <5>3. gz' \in Seq(Cells)
          BY <4>2, <5>1, <5>2, WriteAtTyped
        <5> QED BY <5>1, <5>3, NoneIsNoFile
      <4> QED BY <4>1, <4>2
    <3>4. Arrived'
      BY <3>1, <3>2, <3>3 DEF Arrived, TypeOK
    <3>5. CopyUndisturbed'
      <4> SUFFICES ASSUME ~spoilt' PROVE CopyUndisturbed'
        BY DEF CopyUndisturbed
      <4>1. at[r] = "missing" /\ gz' = gz /\ ~spoilt
        BY DEF TypeOK
      <4>2. Copying' = Copying
        BY <3>1, <4>1 DEF Copying, TypeOK
      <4> QED BY <3>2, <4>1, <4>2 DEF CopyUndisturbed
    <3>6. WholeUnlessDisturbed'
      BY <3>2, AnswersStand DEF WholeUnlessDisturbed, Answered
    <3> QED BY <3>4, <3>5, <3>6
  <2>6. CASE ServeCopy(r)
    <3> USE <2>6 DEF ServeCopy
    <3>1. Arrived'
      BY DEF Arrived, TypeOK
    <3>2. Copying' = Copying
      BY DEF Copying, TypeOK
    <3>3. CopyUndisturbed'
      BY <3>2 DEF CopyUndisturbed, TypeOK
    <3>4. WholeUnlessDisturbed'
      <4> SUFFICES ASSUME NEW q \in Requests, at'[q] = "done"
                   PROVE  \/ \E n \in 1 .. txt' :
                               /\ answer'[q] = Recording(n)
                               /\ n >= lines'[q] \/ (made' > 0 /\ n >= made')
                          \/ spoilt'
                          \/ q \in early'
        BY DEF WholeUnlessDisturbed, Answered
      <4>1. CASE q # r
        BY <4>1, AnswersStand DEF TypeOK
      <4>2. CASE q = r
        <5>1. answer'[q] = gz /\ gz # None
          BY <4>2 DEF TypeOK
        <5>2. CASE spoilt \/ Copying # {}
          BY <4>2, <5>2
        <5>3. CASE ~spoilt /\ Copying = {}
          <6>1. PICK n \in made .. txt : gz = Recording(n)
            BY <5>1, <5>3 DEF CopyUndisturbed
          <6>2. made >= 1 /\ made \in Nat
            BY <5>1 DEF Arrived, TypeOK
          <6> QED BY <5>1, <6>1, <6>2
        <5> QED BY <5>2, <5>3
      <4> QED BY <4>1, <4>2
    <3> QED BY <3>1, <3>3, <3>4
  <2>7. CASE ServePlain(r)
    <3> USE <2>7 DEF ServePlain
    <3>1. Arrived'
      BY DEF Arrived, TypeOK
    <3>2. Copying' = Copying
      BY DEF Copying, TypeOK
    <3>3. CopyUndisturbed'
      BY <3>2 DEF CopyUndisturbed, TypeOK
    <3>4. WholeUnlessDisturbed'
      <4> SUFFICES ASSUME NEW q \in Requests, at'[q] = "done"
                   PROVE  \/ \E n \in 1 .. txt' :
                               /\ answer'[q] = Recording(n)
                               /\ n >= lines'[q] \/ (made' > 0 /\ n >= made')
                          \/ spoilt'
                          \/ q \in early'
        BY DEF WholeUnlessDisturbed, Answered
      <4>1. CASE q # r
        BY <4>1, AnswersStand DEF TypeOK
      <4>2. CASE q = r
        <5>1. answer'[q] = Recording(txt) /\ txt \in 1 .. txt' /\ txt >= lines'[q]
          BY <4>2 DEF TypeOK
        <5> QED BY <5>1
      <4> QED BY <4>1, <4>2
    <3> QED BY <3>1, <3>3, <3>4
  <2> QED BY <1>2, <2>1, <2>2, <2>3, <2>4, <2>5, <2>6, <2>7 DEF Handle
<1>3. CASE Crash
  <2> USE <1>3 DEF Crash
  <2>1. \A q \in Requests : at'[q] \in {"new", "done", "missing", "copying"} =>
                              at'[q] = at[q] /\ at[q] \in {"new", "done"}
    BY DEF TypeOK
  <2>2. Arrived'
    BY <2>1 DEF Arrived, TypeOK
  <2>3. CopyUndisturbed'
    <3> SUFFICES ASSUME ~spoilt' PROVE CopyUndisturbed'
      BY DEF CopyUndisturbed
    <3>1. Copying = {} /\ ~spoilt
      BY DEF TypeOK
    <3> QED BY <2>1, <3>1 DEF CopyUndisturbed
  <2>4. WholeUnlessDisturbed'
    BY <2>1, AnswersStand DEF WholeUnlessDisturbed, Answered, TypeOK
  <2> QED BY <2>2, <2>3, <2>4
<1>4. CASE UNCHANGED vars
  <2> USE <1>4 DEF vars, reqVars
  <2>1. Arrived' /\ CopyUndisturbed'
    BY DEF Arrived, CopyUndisturbed, Copying
  <2>2. WholeUnlessDisturbed'
    BY DEF WholeUnlessDisturbed, Answered
  <2> QED BY <2>1, <2>2
<1> QED BY <1>1, <1>2, <1>3, <1>4 DEF Next

\* For any number of requests, lines and failures: an answer is the whole
\* recording as it was at one time, of this request or of the one that made the
\* copy, unless two requests made the copy at once, it was broken off, or it was
\* served while it was being made.
THEOREM AnswersAreWhole == Spec => []WholeUnlessDisturbed
<1> QED BY IInvInit, IInvStep, PTL DEF Spec, IInv
=============================================================================
