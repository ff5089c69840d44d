--------------------------- MODULE RecorderProofs ---------------------------
(***************************************************************************)
(* Theorems about the recorder, for any number of flushers, sessions,      *)
(* lines and faults.                                                       *)
(***************************************************************************)
EXTENDS Recorder, SequenceTheorems, TLAPS

(* Lemmas about the lines of a sequence. *)

LEMMA ContentIsIn ==
  ASSUME NEW S, NEW s \in Seq(S)
  PROVE  Content(s) \subseteq S
BY ElementOfSeq, LenProperties DEF Content

LEMMA ContentNone == Content(<<>>) = {} /\ Distinct(<<>>)
BY DEF Content, Distinct

LEMMA ContentOne ==
  ASSUME NEW n
  PROVE  Content(<<n>>) = {n} /\ Distinct(<<n>>)
BY DEF Content, Distinct

LEMMA ContentOfConcat ==
  ASSUME NEW S, NEW s \in Seq(S), NEW t \in Seq(S)
  PROVE  /\ s \o t \in Seq(S)
         /\ Content(s \o t) = Content(s) \cup Content(t)
<1> DEFINE m == Len(s)
           n == Len(t)
<1>1. /\ m \in Nat /\ n \in Nat /\ s \o t \in Seq(S) /\ Len(s \o t) = m + n
      /\ DOMAIN s = 1 .. m /\ DOMAIN t = 1 .. n /\ DOMAIN (s \o t) = 1 .. m + n
  BY LenProperties, ConcatProperties
<1>2. \A i \in 1 .. m : (s \o t)[i] = s[i]
  BY <1>1, ConcatProperties
<1>3. \A i \in 1 .. n : (s \o t)[m + i] = t[i]
  BY <1>1, ConcatProperties
<1>4. ASSUME NEW x \in Content(s \o t)
      PROVE  x \in Content(s) \cup Content(t)
  <2>1. PICK i \in 1 .. m + n : x = (s \o t)[i]
    BY <1>1, <1>4 DEF Content
  <2>2. CASE i \in 1 .. m
    BY <1>1, <1>2, <2>1, <2>2 DEF Content
  <2>3. CASE i \in m + 1 .. m + n
    <3>1. i - m \in 1 .. n /\ i = m + (i - m)
      BY <1>1, <2>3
    <3> QED BY <1>1, <1>3, <2>1, <3>1 DEF Content
  <2> QED BY <1>1, <2>2, <2>3
<1>5. ASSUME NEW x \in Content(s) \cup Content(t)
      PROVE  x \in Content(s \o t)
  <2>1. CASE x \in Content(s)
    BY <1>1, <1>2, <2>1 DEF Content
  <2>2. CASE x \in Content(t)
    <3>1. PICK i \in 1 .. n : x = t[i]
      BY <1>1, <2>2 DEF Content
    <3>2. m + i \in 1 .. m + n
      BY <1>1
    <3> QED BY <1>1, <1>3, <3>1, <3>2 DEF Content
  <2> QED BY <1>5, <2>1, <2>2
<1> QED BY <1>1, <1>4, <1>5

LEMMA DistinctConcat ==
  ASSUME NEW S, NEW s \in Seq(S), NEW t \in Seq(S), Distinct(s), Distinct(t), Apart(s, t)
  PROVE  Distinct(s \o t)
<1> DEFINE m == Len(s)
           n == Len(t)
<1>1. /\ m \in Nat /\ n \in Nat
      /\ DOMAIN s = 1 .. m /\ DOMAIN t = 1 .. n /\ DOMAIN (s \o t) = 1 .. m + n
  BY LenProperties, ConcatProperties
<1>2. \A i \in 1 .. m + n : (s \o t)[i] = IF i <= m THEN s[i] ELSE t[i - m]
  BY <1>1, ConcatProperties
<1>3. \A i \in 1 .. m, j \in 1 .. n : s[i] # t[j]
  BY <1>1 DEF Apart, Content
<1> SUFFICES ASSUME NEW i \in 1 .. m + n, NEW j \in 1 .. m + n, (s \o t)[i] = (s \o t)[j]
             PROVE  i = j
  BY <1>1 DEF Distinct
<1> HIDE DEF m, n
<1>4. CASE i <= m /\ j <= m
  BY <1>1, <1>2, <1>4 DEF Distinct
<1>5. CASE ~(i <= m) /\ ~(j <= m)
  <2>1. i - m \in 1 .. n /\ j - m \in 1 .. n /\ t[i - m] = t[j - m]
    BY <1>1, <1>2, <1>5
  <2>2. i - m = j - m
    BY <1>1, <2>1 DEF Distinct
  <2> QED BY <1>1, <2>2
<1>6. CASE i <= m /\ ~(j <= m)
  <2>1. i \in 1 .. m /\ j - m \in 1 .. n /\ s[i] = t[j - m]
    BY <1>1, <1>2, <1>6
  <2> QED BY <1>3, <2>1
<1>7. CASE ~(i <= m) /\ j <= m
  <2>1. j \in 1 .. m /\ i - m \in 1 .. n /\ s[j] = t[i - m]
    BY <1>1, <1>2, <1>7
  <2> QED BY <1>3, <2>1
<1> QED BY <1>4, <1>5, <1>6, <1>7

\* What is left of a batch when the disk fails after k lines.
LEMMA Prefix ==
  ASSUME NEW S, NEW s \in Seq(S), NEW k \in 0 .. Len(s)
  PROVE  /\ SubSeq(s, 1, k) \in Seq(S)
         /\ Content(s) = Content(SubSeq(s, 1, k)) \cup {s[i] : i \in k + 1 .. Len(s)}
         /\ Distinct(s) => Distinct(SubSeq(s, 1, k))
<1> DEFINE p == SubSeq(s, 1, k)
<1>1. Len(s) \in Nat /\ DOMAIN s = 1 .. Len(s) /\ \A i \in 1 .. k : s[i] \in S
  BY LenProperties, ElementOfSeq
<1>2. p \in Seq(S) /\ Len(p) = k /\ \A i \in 1 .. k : p[i] = s[i]
  BY <1>1, SubSeqProperties
<1>3. DOMAIN p = 1 .. k
  BY <1>2, LenProperties
<1> HIDE DEF p
<1>4. Content(s) = Content(p) \cup {s[i] : i \in k + 1 .. Len(s)}
  BY <1>1, <1>2, <1>3 DEF Content
<1>5. Distinct(s) => Distinct(p)
  BY <1>1, <1>2, <1>3 DEF Distinct
<1> QED BY <1>2, <1>4, <1>5 DEF p

-----------------------------------------------------------------------------
(* Type correctness. *)

LEMMA StateSessionType == TypeOK => StateSession \in Sessions \cup {NoPath}
BY RecorderAssumption DEF RecorderAssumption, TypeOK, StateSession, States

LEMMA TypeInit == Init => TypeOK
<1> SUFFICES ASSUME Init PROVE TypeOK
  OBVIOUS
<1> USE RecorderAssumption, EmptySeq DEF RecorderAssumption, Init
<1>1. feed \in Sessions /\ sent \in Seq(Sessions) /\ Len(sent) <= MaxLines /\ Len(sent) = 0
  BY DEF Sessions
<1>2. gs \in States \cup {Nil} /\ taken \in 0 .. Len(sent) /\ faults \in 0 .. MaxFaults
  BY <1>1
<1>3. held \in Seq(1 .. taken) /\ Len(held) <= 1 /\ buffer \in Seq(1 .. taken)
  OBVIOUS
<1>4. at \in [Flushers -> {"idle", "chosen", "writing"}] /\ path \in [Flushers -> Sessions \cup {NoPath}]
  OBVIOUS
<1>5. batch \in [Flushers -> Seq(1 .. taken)] /\ file \in [Sessions -> Seq(1 .. taken)]
  OBVIOUS
<1>6. \A f \in Flushers : at[f] = "idle" /\ batch[f] = <<>>
  OBVIOUS
<1>7. gone = {} /\ behind = {} /\ displaced = {} /\ moved = {}
  OBVIOUS
<1> QED BY ONLY <1>1, <1>2, <1>3, <1>4, <1>5, <1>6, <1>7 DEF TypeOK

LEMMA PublishTyped == TypeOK /\ Publish => TypeOK'
<1> SUFFICES ASSUME TypeOK, Publish PROVE TypeOK'
  OBVIOUS
<1>1. sent' \in Seq(Sessions) /\ Len(sent') = Len(sent) + 1 /\ Len(sent) \in Nat
  BY AppendProperties, LenProperties DEF TypeOK, Publish
<1>2. Len(sent') <= MaxLines /\ taken' \in 0 .. Len(sent')
  BY <1>1, RecorderAssumption DEF RecorderAssumption, TypeOK, Publish, lineVars
<1>3. displaced' \subseteq 1 .. Len(sent')
  <2>1. displaced' \subseteq displaced \cup {Len(sent) + 1}
    BY DEF Publish
  <2>2. displaced \subseteq 1 .. Len(sent)
    BY DEF TypeOK
  <2> QED BY <1>1, <2>1, <2>2
<1> QED BY <1>1, <1>2, <1>3 DEF TypeOK, Publish, lineVars, flushVars

LEMMA WaitingIn == TypeOK => Waiting \subseteq 1 .. Len(sent)
<1> SUFFICES ASSUME TypeOK PROVE Waiting \subseteq 1 .. Len(sent)
  OBVIOUS
<1>1. Len(sent) \in Nat /\ taken \in 0 .. Len(sent)
  BY LenProperties DEF TypeOK
<1>2. Content(held) \subseteq 1 .. taken /\ Content(buffer) \subseteq 1 .. taken
  BY ContentIsIn DEF TypeOK
<1> QED BY <1>1, <1>2 DEF Waiting

LEMMA SetStateTyped ==
  ASSUME TypeOK, NEW g \in States, SetState(g)
  PROVE  TypeOK'
<1>1. displaced' \subseteq 1 .. Len(sent)
  BY WaitingIn DEF TypeOK, SetState
<1>2. moved' \subseteq Flushers
  BY DEF TypeOK, SetState
<1> QED BY <1>1, <1>2 DEF TypeOK, SetState, lineVars, flushVars

\* Every change of the state is one SetState can make.
LEMMA ApplyIsSetState ==
  ASSUME TypeOK, Apply \/ Reset
  PROVE  \E g \in States : SetState(g)
<1>1. \A finished \in BOOLEAN :
        /\ [session |-> feed, finished |-> finished] \in States
        /\ gs # Nil => [gs EXCEPT !.session = feed] \in States /\ [gs EXCEPT !.finished = finished] \in States
  BY DEF TypeOK, States
<1>2. Empty \in States
  BY DEF Empty, States
<1> QED BY <1>1, <1>2 DEF Apply, Reset

LEMMA ReadsTyped == TypeOK /\ RecordReads => TypeOK'
<1> SUFFICES ASSUME TypeOK, RecordReads PROVE TypeOK'
  OBVIOUS
<1>1. taken \in Nat /\ Len(sent) \in Nat /\ taken' = taken + 1 /\ taken' \in 0 .. Len(sent')
  BY LenProperties DEF TypeOK, RecordReads, feedVars
<1>2. 1 .. taken \subseteq 1 .. taken' /\ taken + 1 \in 1 .. taken'
  BY <1>1
<1>3. held' \in Seq(1 .. taken') /\ Len(held') <= 1
  <2>1. held' = <<>> \/ held' = <<taken + 1>>
    BY DEF RecordReads
  <2>2. <<taken + 1>> \in Seq(1 .. taken') /\ Len(<<taken + 1>>) = 1
    BY <1>2
  <2>3. <<>> \in Seq(1 .. taken') /\ Len(<<>>) = 0
    BY EmptySeq
  <2>4. CASE held' = <<>>
    BY <2>3, <2>4
  <2>5. CASE held' = <<taken + 1>>
    BY <2>2, <2>5
  <2> QED BY <2>1, <2>4, <2>5
<1>4. /\ buffer' \in Seq(1 .. taken')
      /\ batch' \in [Flushers -> Seq(1 .. taken')]
      /\ file' \in [Sessions -> Seq(1 .. taken')]
  BY <1>2, SeqMonotonic DEF TypeOK, RecordReads, flushVars
<1>5. gone' \subseteq 1 .. taken' /\ behind' \subseteq 1 .. taken'
  BY <1>2 DEF TypeOK, RecordReads
<1> QED BY <1>1, <1>3, <1>4, <1>5 DEF TypeOK, RecordReads, feedVars, flushVars

LEMMA AppendsTyped == TypeOK /\ RecordAppends => TypeOK'
<1> SUFFICES ASSUME TypeOK, RecordAppends PROVE TypeOK'
  OBVIOUS
<1>1. buffer' \in Seq(1 .. taken) /\ held' \in Seq(1 .. taken) /\ Len(held') <= 1
  BY ConcatProperties, EmptySeq DEF TypeOK, RecordAppends
<1> QED BY <1>1 DEF TypeOK, RecordAppends, feedVars, flushVars, history

LEMMA ReturnsTyped ==
  ASSUME TypeOK, NEW f \in Flushers, Returns(f)
  PROVE  /\ at' \in [Flushers -> {"idle", "chosen", "writing"}]
         /\ path' \in [Flushers -> Sessions \cup {NoPath}]
         /\ batch' \in [Flushers -> Seq(1 .. taken)]
         /\ \A g \in Flushers : /\ at'[g] # "idle" => path'[g] \in Sessions
                                /\ at'[g] # "writing" => batch'[g] = <<>>
BY EmptySeq DEF TypeOK, Returns

LEMMA ChoosesTyped ==
  ASSUME TypeOK, NEW f \in Flushers, FlushChooses(f)
  PROVE  TypeOK'
BY StateSessionType DEF TypeOK, FlushChooses, feedVars, lineVars

LEMMA TakesTyped ==
  ASSUME TypeOK, NEW f \in Flushers, FlushTakes(f)
  PROVE  TypeOK'
<1>1. Content(buffer) \subseteq 1 .. taken /\ 1 .. taken \subseteq 1 .. Len(sent)
  BY ContentIsIn, LenProperties DEF TypeOK
<1>2. /\ buffer' \in Seq(1 .. taken) /\ moved' \subseteq Flushers
      /\ behind' \subseteq 1 .. taken /\ displaced' \subseteq 1 .. Len(sent)
  BY <1>1, EmptySeq DEF TypeOK, FlushTakes
<1>3. UNCHANGED <<feedVars, taken, held, file, faults, gone>>
  BY DEF FlushTakes
<1>4. CASE buffer = <<>>
  <2>1. Returns(f)
    BY <1>4 DEF FlushTakes
  <2> QED BY <1>2, <1>3, <2>1, ReturnsTyped DEF TypeOK, feedVars
<1>5. CASE buffer # <<>>
  <2>1. /\ at[f] = "chosen" /\ at' = [at EXCEPT ![f] = "writing"]
        /\ batch' = [batch EXCEPT ![f] = buffer] /\ path' = path
    BY <1>5 DEF FlushTakes
  <2>2. /\ at' \in [Flushers -> {"idle", "chosen", "writing"}]
        /\ batch' \in [Flushers -> Seq(1 .. taken)]
        /\ \A g \in Flushers : /\ at'[g] # "idle" => path'[g] \in Sessions
                               /\ at'[g] # "writing" => batch'[g] = <<>>
    BY <2>1 DEF TypeOK
  <2> QED BY <1>2, <1>3, <2>1, <2>2 DEF TypeOK, feedVars
<1> QED BY <1>4, <1>5

LEMMA WritesTyped ==
  ASSUME TypeOK, NEW f \in Flushers, FlushWrites(f)
  PROVE  TypeOK'
<1>1. path[f] \in Sessions /\ file[path[f]] \o batch[f] \in Seq(1 .. taken)
  BY ConcatProperties DEF TypeOK, FlushWrites
<1>2. file' \in [Sessions -> Seq(1 .. taken)]
  BY <1>1 DEF TypeOK, FlushWrites
<1>3. Returns(f) /\ UNCHANGED <<feedVars, lineVars, faults, history>>
  BY DEF FlushWrites
<1> QED BY <1>2, <1>3, ReturnsTyped DEF TypeOK, feedVars, lineVars, history

LEMMA FailsTyped ==
  ASSUME TypeOK, NEW f \in Flushers, FlushFails(f)
  PROVE  TypeOK'
<1>1. path[f] \in Sessions /\ batch[f] \in Seq(1 .. taken) /\ Len(batch[f]) \in Nat
  BY LenProperties DEF TypeOK, FlushFails
<1>2. PICK k \in 0 .. Len(batch[f]) - 1 :
        /\ file' = [file EXCEPT ![path[f]] = @ \o SubSeq(batch[f], 1, k)]
        /\ gone' = gone \cup {batch[f][i] : i \in k + 1 .. Len(batch[f])}
  BY DEF FlushFails
<1>3. k \in 0 .. Len(batch[f])
  BY <1>1
<1>4. SubSeq(batch[f], 1, k) \in Seq(1 .. taken) /\ \A i \in k + 1 .. Len(batch[f]) : batch[f][i] \in 1 .. taken
  <2>1. SubSeq(batch[f], 1, k) \in Seq(1 .. taken)
    BY <1>1, <1>3, Prefix
  <2>2. \A i \in k + 1 .. Len(batch[f]) : i \in 1 .. Len(batch[f])
    BY <1>1, <1>3
  <2> QED BY <1>1, <2>1, <2>2, ElementOfSeq
<1>5. file' \in [Sessions -> Seq(1 .. taken)]
  BY <1>1, <1>2, <1>4, ConcatProperties DEF TypeOK
<1>6. gone' \subseteq 1 .. taken
  BY <1>2, <1>4 DEF TypeOK
<1>7. faults' \in 0 .. MaxFaults
  BY RecorderAssumption DEF RecorderAssumption, TypeOK, FlushFails
<1>8. Returns(f) /\ UNCHANGED <<feedVars, lineVars, behind, displaced, moved>>
  BY DEF FlushFails
<1> QED BY <1>5, <1>6, <1>7, <1>8, ReturnsTyped DEF TypeOK, feedVars, lineVars

LEMMA RestartTyped == TypeOK /\ Restart => TypeOK'
<1> SUFFICES ASSUME TypeOK, Restart PROVE TypeOK'
  OBVIOUS
<1>1. Len(sent) \in Nat /\ taken \in 0 .. Len(sent) /\ taken' = Len(sent) /\ sent' = sent
  BY LenProperties DEF TypeOK, Restart
<1>2. 1 .. taken \subseteq 1 .. taken'
  BY <1>1
<1>3. held' = <<>> /\ buffer' = <<>> /\ file' = file /\ gs' = Nil /\ feed' = feed
  BY DEF Restart
<1>4. <<>> \in Seq(1 .. taken') /\ Len(<<>>) = 0
  BY EmptySeq
<1>5. file' \in [Sessions -> Seq(1 .. taken')]
  BY <1>2, <1>3, SeqMonotonic DEF TypeOK
<1>6. /\ at' \in [Flushers -> {"idle", "chosen", "writing"}]
      /\ path' \in [Flushers -> Sessions \cup {NoPath}]
      /\ batch' \in [Flushers -> Seq(1 .. taken')]
      /\ \A f \in Flushers : at'[f] = "idle" /\ batch'[f] = <<>>
  BY <1>4 DEF Restart
<1>7. \A f \in Flushers : Content(batch[f]) \subseteq 1 .. taken
  BY ContentIsIn DEF TypeOK
<1>8. gone' \subseteq 1 .. taken'
  BY <1>1, <1>2, <1>7, WaitingIn DEF TypeOK, Restart
<1>9. behind' \subseteq 1 .. taken' /\ displaced' \subseteq 1 .. Len(sent') /\ moved' = {}
  BY <1>1, <1>2 DEF TypeOK, Restart
<1>10. faults' \in 0 .. MaxFaults
  BY RecorderAssumption DEF RecorderAssumption, TypeOK, Restart
<1> QED BY <1>1, <1>3, <1>4, <1>5, <1>6, <1>8, <1>9, <1>10 DEF TypeOK

LEMMA TypeStep == TypeOK /\ [Next]_vars => TypeOK'
<1> SUFFICES ASSUME TypeOK, [Next]_vars PROVE TypeOK'
  OBVIOUS
<1>1. CASE FeedMoves
  <2>1. feed' \in Sessions
    BY <1>1, RecorderAssumption DEF RecorderAssumption, TypeOK, FeedMoves, Sessions
  <2> QED BY <1>1, <2>1 DEF TypeOK, FeedMoves, lineVars, flushVars, history
<1>2. CASE Publish \/ RecordReads \/ RecordAppends \/ Restart
  BY <1>2, PublishTyped, ReadsTyped, AppendsTyped, RestartTyped
<1>3. CASE Apply \/ Reset
  BY <1>3, ApplyIsSetState, SetStateTyped
<1>4. ASSUME NEW f \in Flushers, Flush(f)
      PROVE  TypeOK'
  BY <1>4, ChoosesTyped, TakesTyped, WritesTyped, FailsTyped DEF Flush
<1>5. CASE UNCHANGED vars
  BY <1>5 DEF TypeOK, vars, feedVars, lineVars, flushVars, history
<1> QED BY <1>1, <1>2, <1>3, <1>4, <1>5 DEF Next

\* The buffer, the batches and the files hold lines that run() has taken, and a
\* flush that has chosen its file has a file.
THEOREM TypeCorrect == Spec => []TypeOK
BY TypeInit, TypeStep, PTL DEF Spec

-----------------------------------------------------------------------------
(* A line is in the recording of its own session. *)

\* Where a line is while it waits, it is of the state's session, or displaced;
\* in a batch it is of the session whose file was chosen.
FiledInv ==
  /\ StateSession # NoPath => \A n \in Waiting : sent[n] = StateSession \/ n \in displaced
  /\ \A f \in Flushers : at[f] = "chosen" /\ f \notin moved => path[f] = StateSession
  /\ \A f \in Flushers : \A n \in Content(batch[f]) : sent[n] = path[f] \/ n \in displaced
  /\ FiledUnderItsSession

LEMMA FiledInit == Init => FiledInv
<1> SUFFICES ASSUME Init PROVE FiledInv
  OBVIOUS
<1>1. StateSession = NoPath /\ \A f \in Flushers : at[f] = "idle" /\ batch[f] = <<>>
  BY DEF Init, StateSession
<1>2. \A s \in Sessions : Content(file[s]) = {}
  BY ContentNone DEF Init
<1> QED BY <1>1, <1>2, ContentNone DEF FiledInv, FiledUnderItsSession

LEMMA PublishFiled == TypeOK /\ FiledInv /\ Publish => FiledInv'
<1> SUFFICES ASSUME TypeOK, FiledInv, Publish PROVE FiledInv'
  OBVIOUS
<1>1. Len(sent) \in Nat /\ Len(sent') = Len(sent) + 1 /\ taken \in 0 .. Len(sent)
  BY LenProperties, AppendProperties DEF TypeOK, Publish
<1>2. (\A n \in 1 .. Len(sent) : sent'[n] = sent[n]) /\ sent'[Len(sent) + 1] = feed
  BY AppendProperties DEF TypeOK, Publish
<1>3. /\ UNCHANGED <<feed, gs, taken, held, buffer, at, path, batch, file, moved>>
      /\ StateSession' = StateSession
      /\ displaced \subseteq displaced'
  BY DEF Publish, lineVars, flushVars, StateSession
<1>4. Waiting' \subseteq Waiting \cup {Len(sent) + 1} /\ Waiting \subseteq 1 .. Len(sent)
  BY <1>1, <1>3, WaitingIn DEF Waiting
<1>5. StateSession \notin {NoPath, feed} => Len(sent) + 1 \in displaced'
  BY DEF Publish
<1>6. StateSession' # NoPath => \A n \in Waiting' : sent'[n] = StateSession' \/ n \in displaced'
  <2> SUFFICES ASSUME StateSession # NoPath, NEW n \in Waiting'
               PROVE  sent'[n] = StateSession \/ n \in displaced'
    BY <1>3
  <2>1. CASE n \in Waiting
    <3>1. sent[n] = StateSession \/ n \in displaced
      BY <2>1 DEF FiledInv
    <3> QED BY <1>2, <1>3, <1>4, <2>1, <3>1
  <2>2. CASE n = Len(sent) + 1
    BY <1>2, <1>5, <2>2
  <2> QED BY <1>4, <2>1, <2>2
<1>7. /\ \A f \in Flushers : Content(batch[f]) \subseteq 1 .. Len(sent)
      /\ \A s \in Sessions : Content(file[s]) \subseteq 1 .. Len(sent)
  <2>1. /\ \A f \in Flushers : batch[f] \in Seq(1 .. taken)
        /\ \A s \in Sessions : file[s] \in Seq(1 .. taken)
    BY DEF TypeOK
  <2>2. 1 .. taken \subseteq 1 .. Len(sent)
    BY <1>1
  <2>3. ASSUME NEW f \in Flushers PROVE Content(batch[f]) \subseteq 1 .. taken
    BY <2>1, ContentIsIn
  <2>4. ASSUME NEW s \in Sessions PROVE Content(file[s]) \subseteq 1 .. taken
    BY <2>1, ContentIsIn
  <2> QED BY <2>2, <2>3, <2>4
<1>8. \A f \in Flushers : \A n \in Content(batch'[f]) : sent'[n] = path'[f] \/ n \in displaced'
  <2> SUFFICES ASSUME NEW f \in Flushers, NEW n \in Content(batch[f])
               PROVE  sent'[n] = path[f] \/ n \in displaced'
    BY <1>3
  <2>1. sent[n] = path[f] \/ n \in displaced
    BY DEF FiledInv
  <2>2. sent'[n] = sent[n]
    BY <1>2, <1>7
  <2> QED BY <1>3, <2>1, <2>2
<1>9. FiledUnderItsSession'
  BY <1>2, <1>3, <1>7 DEF FiledInv, FiledUnderItsSession
<1>10. \A f \in Flushers : at'[f] = "chosen" /\ f \notin moved' => path'[f] = StateSession'
  BY <1>3 DEF FiledInv
<1> QED BY <1>6, <1>8, <1>9, <1>10 DEF FiledInv

LEMMA SetStateFiled ==
  ASSUME TypeOK, FiledInv, NEW g \in States, SetState(g)
  PROVE  FiledInv'
<1>1. /\ UNCHANGED <<feed, sent, taken, held, buffer, at, path, batch, file>>
      /\ Waiting' = Waiting /\ displaced \subseteq displaced' /\ moved \subseteq moved'
  BY DEF SetState, lineVars, flushVars, Waiting
<1>2. StateSession' = g.session
  BY RecorderAssumption DEF RecorderAssumption, SetState, StateSession
<1>3. StateSession' # NoPath => \A n \in Waiting' : sent'[n] = StateSession' \/ n \in displaced'
  BY <1>1, <1>2 DEF FiledInv, SetState
<1>4. \A f \in Flushers : at'[f] = "chosen" /\ f \notin moved' => path'[f] = StateSession'
  BY <1>1, <1>2 DEF FiledInv, SetState
<1>5. FiledUnderItsSession' /\ \A f \in Flushers : \A n \in Content(batch'[f]) : sent'[n] = path'[f] \/ n \in displaced'
  BY <1>1 DEF FiledInv, FiledUnderItsSession
<1> QED BY <1>3, <1>4, <1>5 DEF FiledInv

\* Record moves waiting lines, or drops them.
LEMMA RecordFiled == TypeOK /\ FiledInv /\ (RecordReads \/ RecordAppends) => FiledInv'
<1> SUFFICES ASSUME TypeOK, FiledInv, RecordReads \/ RecordAppends PROVE FiledInv'
  OBVIOUS
<1>1. UNCHANGED <<gs, sent, at, path, batch, file, displaced, moved>> /\ StateSession' = StateSession
  BY DEF RecordReads, RecordAppends, feedVars, flushVars, history, StateSession
<1>2. Waiting' \subseteq Waiting
  <2>1. CASE RecordReads
    <3>1. /\ taken \in Nat /\ Len(sent) \in Nat /\ taken < Len(sent) /\ taken' = taken + 1
          /\ sent' = sent /\ buffer' = buffer
      BY <2>1, LenProperties DEF TypeOK, RecordReads, feedVars
    <3>2. Content(held') \subseteq {taken + 1}
      BY <2>1, ContentNone, ContentOne DEF RecordReads
    <3> QED BY <3>1, <3>2 DEF Waiting
  <2>2. CASE RecordAppends
    <3>1. Content(buffer') = Content(buffer) \cup Content(held) /\ Content(held') = {}
      BY <2>2, ContentOfConcat, ContentNone DEF TypeOK, RecordAppends
    <3> QED BY <2>2, <3>1 DEF Waiting, RecordAppends, feedVars
  <2> QED BY <2>1, <2>2
<1> QED BY <1>1, <1>2 DEF FiledInv, FiledUnderItsSession

LEMMA ChoosesFiled ==
  ASSUME TypeOK, FiledInv, NEW f \in Flushers, FlushChooses(f)
  PROVE  FiledInv'
<1>1. /\ UNCHANGED <<gs, sent, taken, held, buffer, batch, file, displaced>>
      /\ StateSession' = StateSession /\ Waiting' = Waiting
  BY DEF FlushChooses, feedVars, lineVars, StateSession, Waiting
<1>2. batch[f] = <<>> /\ Content(batch[f]) = {}
  BY ContentNone DEF TypeOK, FlushChooses
<1>3. /\ path' = [path EXCEPT ![f] = StateSession] /\ at' = [at EXCEPT ![f] = "chosen"]
      /\ moved' = moved \ {f}
  BY DEF FlushChooses
<1>4. \A g \in Flushers : at'[g] = "chosen" /\ g \notin moved' => path'[g] = StateSession'
  BY <1>1, <1>3 DEF FiledInv, TypeOK
<1>5. \A g \in Flushers : \A n \in Content(batch'[g]) : sent'[n] = path'[g] \/ n \in displaced'
  BY <1>1, <1>2, <1>3 DEF FiledInv, TypeOK
<1>6. FiledUnderItsSession' /\ (StateSession' # NoPath => \A n \in Waiting' : sent'[n] = StateSession' \/ n \in displaced')
  BY <1>1 DEF FiledInv, FiledUnderItsSession
<1> QED BY <1>4, <1>5, <1>6 DEF FiledInv

LEMMA TakesFiled ==
  ASSUME TypeOK, FiledInv, NEW f \in Flushers, FlushTakes(f)
  PROVE  FiledInv'
<1>1. /\ UNCHANGED <<gs, sent, taken, held, file>> /\ displaced \subseteq displaced'
      /\ StateSession' = StateSession /\ moved' = moved \ {f}
  BY DEF FlushTakes, feedVars, StateSession
<1>2. Waiting' \subseteq Waiting /\ Content(buffer) \subseteq Waiting
  BY <1>1, ContentNone DEF FlushTakes, Waiting
<1>3. /\ \A g \in Flushers : g # f => at'[g] = at[g] /\ path'[g] = path[g] /\ batch'[g] = batch[g]
      /\ at'[f] # "chosen"
  BY DEF TypeOK, FlushTakes, Returns
<1>4. \A n \in Content(batch'[f]) : sent'[n] = path'[f] \/ n \in displaced'
  <2>1. CASE buffer = <<>>
    BY <2>1, ContentNone DEF TypeOK, FlushTakes, Returns
  <2>2. CASE buffer # <<>>
    <3>1. batch'[f] = buffer /\ path'[f] = path[f] /\ at[f] = "chosen"
      BY <2>2 DEF TypeOK, FlushTakes
    <3>2. CASE f \in moved
      BY <3>1, <3>2 DEF FlushTakes
    <3>3. CASE f \notin moved
      <4>1. path[f] = StateSession /\ StateSession # NoPath
        <5>1. path[f] = StateSession /\ path[f] \in Sessions
          BY <3>1, <3>3 DEF FiledInv, TypeOK
        <5> QED BY <5>1, RecorderAssumption DEF RecorderAssumption, NoPath, Sessions
      <4> QED BY <1>1, <1>2, <3>1, <4>1 DEF FiledInv
    <3> QED BY <3>2, <3>3
  <2> QED BY <2>1, <2>2
<1>5. \A g \in Flushers : \A n \in Content(batch'[g]) : sent'[n] = path'[g] \/ n \in displaced'
  BY <1>1, <1>3, <1>4 DEF FiledInv
<1>6. FiledUnderItsSession' /\ (StateSession' # NoPath => \A n \in Waiting' : sent'[n] = StateSession' \/ n \in displaced')
  BY <1>1, <1>2 DEF FiledInv, FiledUnderItsSession
<1>7. \A g \in Flushers : at'[g] = "chosen" /\ g \notin moved' => path'[g] = StateSession'
  BY <1>1, <1>3 DEF FiledInv
<1> QED BY <1>5, <1>6, <1>7 DEF FiledInv

\* What a flush writes, all of its batch or the beginning of it.
LEMMA WritesFiled ==
  ASSUME TypeOK, FiledInv, NEW f \in Flushers, FlushWrites(f) \/ FlushFails(f)
  PROVE  FiledInv'
<1>1. /\ UNCHANGED <<gs, sent, taken, held, buffer, displaced, moved>>
      /\ StateSession' = StateSession /\ Waiting' = Waiting
  BY DEF FlushWrites, FlushFails, feedVars, lineVars, history, StateSession, Waiting
<1>2. path[f] \in Sessions /\ batch[f] \in Seq(1 .. taken) /\ Len(batch[f]) \in Nat
  BY LenProperties DEF TypeOK, FlushWrites, FlushFails
<1>3. PICK part \in Seq(1 .. taken) :
        /\ Content(part) \subseteq Content(batch[f])
        /\ file' = [file EXCEPT ![path[f]] = @ \o part]
  <2>1. CASE FlushWrites(f)
    BY <1>2, <2>1 DEF FlushWrites
  <2>2. CASE FlushFails(f)
    <3>1. PICK k \in 0 .. Len(batch[f]) - 1 : file' = [file EXCEPT ![path[f]] = @ \o SubSeq(batch[f], 1, k)]
      BY <2>2 DEF FlushFails
    <3>2. k \in 0 .. Len(batch[f])
      BY <1>2
    <3>3. SubSeq(batch[f], 1, k) \in Seq(1 .. taken) /\ Content(SubSeq(batch[f], 1, k)) \subseteq Content(batch[f])
      BY <1>2, <3>2, Prefix
    <3> QED BY <3>1, <3>3
  <2> QED BY <2>1, <2>2
<1>4. /\ \A s \in Sessions \ {path[f]} : file'[s] = file[s]
      /\ Content(file'[path[f]]) = Content(file[path[f]]) \cup Content(part)
  BY <1>2, <1>3, ContentOfConcat DEF TypeOK
<1>5. FiledUnderItsSession'
  BY <1>1, <1>2, <1>3, <1>4 DEF FiledInv, FiledUnderItsSession
<1>6. /\ \A g \in Flushers : g # f => at'[g] = at[g] /\ path'[g] = path[g] /\ batch'[g] = batch[g]
      /\ at'[f] = "idle" /\ batch'[f] = <<>>
  BY DEF TypeOK, FlushWrites, FlushFails, Returns
<1>7. \A g \in Flushers : \A n \in Content(batch'[g]) : sent'[n] = path'[g] \/ n \in displaced'
  BY <1>1, <1>6, ContentNone DEF FiledInv
<1>8. \A g \in Flushers : at'[g] = "chosen" /\ g \notin moved' => path'[g] = StateSession'
  BY <1>1, <1>6 DEF FiledInv
<1> QED BY <1>1, <1>5, <1>7, <1>8 DEF FiledInv

LEMMA RestartFiled == TypeOK /\ FiledInv /\ Restart => FiledInv'
<1> SUFFICES ASSUME TypeOK, FiledInv, Restart PROVE FiledInv'
  OBVIOUS
<1>1. /\ StateSession' = NoPath /\ UNCHANGED <<sent, file, displaced>>
      /\ \A f \in Flushers : at'[f] = "idle" /\ batch'[f] = <<>>
  BY DEF Restart, StateSession
<1> QED BY <1>1, ContentNone DEF FiledInv, FiledUnderItsSession

LEMMA FiledStep == TypeOK /\ FiledInv /\ [Next]_vars => FiledInv'
<1> SUFFICES ASSUME TypeOK, FiledInv, [Next]_vars PROVE FiledInv'
  OBVIOUS
<1>1. CASE FeedMoves \/ UNCHANGED vars
  <2>1. /\ UNCHANGED <<gs, sent, at, path, batch, file, displaced, moved>>
        /\ StateSession' = StateSession /\ Waiting' = Waiting
    BY <1>1 DEF FeedMoves, vars, feedVars, lineVars, flushVars, history, StateSession, Waiting
  <2> QED BY <2>1 DEF FiledInv, FiledUnderItsSession
<1>2. CASE Publish \/ RecordReads \/ RecordAppends \/ Restart
  BY <1>2, PublishFiled, RecordFiled, RestartFiled
<1>3. CASE Apply \/ Reset
  BY <1>3, ApplyIsSetState, SetStateFiled
<1>4. ASSUME NEW f \in Flushers, Flush(f)
      PROVE  FiledInv'
  BY <1>4, ChoosesFiled, TakesFiled, WritesFiled DEF Flush
<1> QED BY <1>1, <1>2, <1>3, <1>4 DEF Next

\* A line is in the recording of its own session, unless the state was of
\* another one somewhere on the line's way.
THEOREM LinesAreFiled == Spec => []FiledUnderItsSession
<1>1. FiledInv => FiledUnderItsSession
  BY DEF FiledInv
<1> QED BY <1>1, TypeInit, TypeStep, FiledInit, FiledStep, PTL DEF Spec

-----------------------------------------------------------------------------
(* Every line is in one place, and in one only. *)

\* The lines of every sequence of the state are numbers of lines taken.
LEMMA LinesAreTaken ==
  ASSUME TypeOK
  PROVE  /\ Content(held) \subseteq 1 .. taken /\ Content(buffer) \subseteq 1 .. taken
         /\ \A f \in Flushers : Content(batch[f]) \subseteq 1 .. taken
         /\ \A s \in Sessions : Content(file[s]) \subseteq 1 .. taken
BY ContentIsIn DEF TypeOK

\* What a flush writes, whether all of its batch or the beginning of it.
Writes(f, part) ==
  /\ part \in Seq(1 .. taken)
  /\ Distinct(batch[f]) => Distinct(part)
  /\ Content(part) \subseteq Content(batch[f])
  /\ file' = [file EXCEPT ![path[f]] = @ \o part]
  /\ gone' = gone \cup (Content(batch[f]) \ Content(part))

LEMMA AFlushWrites ==
  ASSUME TypeOK, NoLineTwice, NEW f \in Flushers, FlushWrites(f) \/ FlushFails(f)
  PROVE  \E part \in Seq(1 .. taken) : Writes(f, part)
<1>1. batch[f] \in Seq(1 .. taken) /\ Len(batch[f]) \in Nat /\ DOMAIN batch[f] = 1 .. Len(batch[f])
  BY LenProperties DEF TypeOK
<1>2. Distinct(batch[f])
  BY DEF NoLineTwice
<1>3. CASE FlushWrites(f)
  <2>1. gone' = gone \cup (Content(batch[f]) \ Content(batch[f]))
    BY <1>3 DEF FlushWrites, history
  <2> QED BY <1>1, <1>3, <2>1 DEF FlushWrites, Writes
<1>4. CASE FlushFails(f)
  <2>1. PICK k \in 0 .. Len(batch[f]) - 1 :
          /\ file' = [file EXCEPT ![path[f]] = @ \o SubSeq(batch[f], 1, k)]
          /\ gone' = gone \cup {batch[f][i] : i \in k + 1 .. Len(batch[f])}
    BY <1>4 DEF FlushFails
  <2> DEFINE part == SubSeq(batch[f], 1, k)
             rest == {batch[f][i] : i \in k + 1 .. Len(batch[f])}
  <2>2. k \in 0 .. Len(batch[f])
    BY <1>1
  <2>3. /\ part \in Seq(1 .. taken) /\ Distinct(part)
        /\ Content(batch[f]) = Content(part) \cup rest
    BY <1>1, <1>2, <2>2, Prefix
  <2>4. Content(part) \cap rest = {}
    <3>1. Len(part) = k /\ DOMAIN part = 1 .. k /\ \A i \in 1 .. k : part[i] = batch[f][i]
      <4>1. \A i \in 1 .. k : batch[f][i] \in 1 .. taken
        <5>1. \A i \in 1 .. k : i \in 1 .. Len(batch[f])
          BY <1>1, <2>2
        <5> QED BY <1>1, <5>1, ElementOfSeq
      <4>2. Len(part) = k /\ \A i \in 1 .. k : part[i] = batch[f][i]
        BY <2>2, <4>1, SubSeqProperties
      <4> QED BY <2>3, <4>2, LenProperties
    <3>2. \A i \in 1 .. k, j \in k + 1 .. Len(batch[f]) : batch[f][i] # batch[f][j]
      BY <1>1, <1>2, <2>2 DEF Distinct
    <3> HIDE DEF part
    <3> QED BY <3>1, <3>2 DEF Content
  <2>5. gone' = gone \cup (Content(batch[f]) \ Content(part))
    BY <2>1, <2>3, <2>4
  <2> QED BY <2>1, <2>3, <2>5 DEF Writes
<1> QED BY <1>3, <1>4

LEMMA TwiceInit == Init => NoLineTwice
<1> SUFFICES ASSUME Init PROVE NoLineTwice
  OBVIOUS
<1>1. /\ held = <<>> /\ buffer = <<>>
      /\ \A f \in Flushers : batch[f] = <<>>
      /\ \A s \in Sessions : file[s] = <<>>
  BY DEF Init
<1> QED BY <1>1, ContentNone DEF NoLineTwice, Apart

LEMMA ReadsOnce ==
  ASSUME TypeOK, NoLineTwice, RecordReads
  PROVE  NoLineTwice'
<1>1. UNCHANGED <<buffer, batch, file>> /\ taken \in Nat
  BY DEF TypeOK, RecordReads, flushVars
<1>2. Content(held') \subseteq {taken + 1}
  BY ContentNone, ContentOne DEF RecordReads
<1>3. taken + 1 \notin 1 .. taken
  BY <1>1
<1> QED BY <1>1, <1>2, <1>3, LinesAreTaken DEF NoLineTwice, Apart

LEMMA AppendsOnce ==
  ASSUME TypeOK, NoLineTwice, RecordAppends
  PROVE  NoLineTwice'
<1>1. UNCHANGED <<batch, file>> /\ held' = <<>> /\ buffer' = buffer \o held
  BY DEF RecordAppends, flushVars
<1>2. Distinct(held)
  BY LenProperties DEF TypeOK, Distinct
<1>3. Content(buffer') = Content(buffer) \cup Content(held) /\ Content(held') = {}
  BY <1>1, ContentOfConcat, ContentNone DEF TypeOK
<1>4. Distinct(buffer')
  <2>1. Distinct(buffer) /\ Apart(buffer, held)
    BY DEF NoLineTwice, Apart
  <2> QED BY <1>1, <1>2, <2>1, DistinctConcat DEF TypeOK
<1> QED BY <1>1, <1>3, <1>4 DEF NoLineTwice, Apart

LEMMA TakesOnce ==
  ASSUME TypeOK, NoLineTwice, NEW f \in Flushers, FlushTakes(f)
  PROVE  NoLineTwice'
<1>1. UNCHANGED <<held, file>> /\ Content(buffer') = {} /\ Distinct(buffer')
  BY ContentNone DEF FlushTakes
<1>2. /\ \A g \in Flushers \ {f} : batch'[g] = batch[g]
      /\ Content(batch'[f]) \subseteq Content(buffer)
      /\ Distinct(batch'[f])
  <2>1. CASE buffer = <<>>
    BY <2>1, ContentNone DEF TypeOK, FlushTakes, Returns
  <2>2. CASE buffer # <<>>
    BY <2>2 DEF TypeOK, FlushTakes, NoLineTwice
  <2> QED BY <2>1, <2>2
<1> QED BY <1>1, <1>2 DEF NoLineTwice, Apart

LEMMA WritesOnce ==
  ASSUME TypeOK, NoLineTwice, NEW f \in Flushers, FlushWrites(f) \/ FlushFails(f)
  PROVE  NoLineTwice'
<1>1. UNCHANGED <<held, buffer>> /\ path[f] \in Sessions
  BY DEF TypeOK, FlushWrites, FlushFails, lineVars
<1>2. /\ \A g \in Flushers \ {f} : batch'[g] = batch[g]
      /\ batch'[f] = <<>>
  BY DEF TypeOK, FlushWrites, FlushFails, Returns
<1>3. PICK part \in Seq(1 .. taken) : Writes(f, part)
  BY AFlushWrites
<1>4. /\ \A s \in Sessions \ {path[f]} : file'[s] = file[s]
      /\ file'[path[f]] = file[path[f]] \o part
      /\ Content(part) \subseteq Content(batch[f]) /\ Distinct(part)
  BY <1>1, <1>3 DEF Writes, TypeOK, NoLineTwice
<1>5. Content(file'[path[f]]) = Content(file[path[f]]) \cup Content(part)
  BY <1>1, <1>4, ContentOfConcat DEF TypeOK
<1>6. Distinct(file'[path[f]])
  <2>1. Distinct(file[path[f]]) /\ Apart(file[path[f]], part)
    BY <1>1, <1>4 DEF NoLineTwice, Apart
  <2> QED BY <1>1, <1>4, <2>1, DistinctConcat DEF TypeOK
<1>7. \A g \in Flushers : Distinct(batch'[g]) /\ Apart(batch'[g], buffer') /\ Apart(batch'[g], held')
  BY <1>1, <1>2, ContentNone DEF NoLineTwice, Apart
<1>8. \A g \in Flushers : \A h \in Flushers \ {g} : Apart(batch'[g], batch'[h])
  BY <1>2, ContentNone DEF NoLineTwice, Apart
<1>9. \A s \in Sessions : Distinct(file'[s]) /\ Apart(file'[s], buffer') /\ Apart(file'[s], held')
  BY <1>1, <1>4, <1>5, <1>6 DEF NoLineTwice, Apart
<1>10. \A s \in Sessions, g \in Flushers : Apart(file'[s], batch'[g])
  <2> SUFFICES ASSUME NEW s \in Sessions, NEW g \in Flushers
               PROVE  Apart(file'[s], batch'[g])
    OBVIOUS
  <2>1. CASE g = f
    BY <1>2, <2>1, ContentNone DEF Apart
  <2>2. CASE g # f
    <3>1. Apart(file[s], batch[g]) /\ Apart(batch[f], batch[g]) /\ batch'[g] = batch[g]
      BY <1>2, <2>2 DEF NoLineTwice
    <3>2. Content(file'[s]) \subseteq Content(file[s]) \cup Content(batch[f])
      BY <1>4, <1>5
    <3> QED BY <3>1, <3>2 DEF Apart
  <2> QED BY <2>1, <2>2
<1>11. \A s \in Sessions : \A t \in Sessions \ {s} : Apart(file'[s], file'[t])
  BY <1>1, <1>4, <1>5 DEF NoLineTwice, Apart
<1> QED BY <1>1, <1>7, <1>8, <1>9, <1>10, <1>11 DEF NoLineTwice

LEMMA TwiceStep == TypeOK /\ NoLineTwice /\ [Next]_vars => NoLineTwice'
<1> SUFFICES ASSUME TypeOK, NoLineTwice, [Next]_vars PROVE NoLineTwice'
  OBVIOUS
<1>1. CASE UNCHANGED <<held, buffer, batch, file>>
  BY <1>1 DEF NoLineTwice
<1>2. CASE RecordReads \/ RecordAppends
  BY <1>2, ReadsOnce, AppendsOnce
<1>3. CASE Restart
  <2>1. /\ held' = <<>> /\ buffer' = <<>> /\ file' = file
        /\ \A f \in Flushers : batch'[f] = <<>>
    BY <1>3 DEF Restart
  <2> QED BY <2>1, ContentNone DEF NoLineTwice, Apart
<1>4. ASSUME NEW f \in Flushers, Flush(f)
      PROVE  NoLineTwice'
  <2>1. CASE FlushChooses(f)
    BY <1>1, <2>1 DEF FlushChooses, lineVars
  <2> QED BY <1>4, <2>1, TakesOnce, WritesOnce DEF Flush
<1>5. CASE FeedMoves \/ Publish
  BY <1>1, <1>5 DEF FeedMoves, Publish, lineVars, flushVars
<1>6. CASE Apply \/ Reset
  BY <1>1, <1>6, ApplyIsSetState DEF SetState, lineVars, flushVars
<1>7. CASE UNCHANGED vars
  BY <1>1, <1>7 DEF vars, lineVars, flushVars
<1> QED BY <1>2, <1>3, <1>4, <1>5, <1>6, <1>7 DEF Next

\* Where a line may be, one place at a time.
Placed(n) ==
  \/ n \in gone \/ n \in Content(held) \/ n \in Content(buffer)
  \/ \E f \in Flushers : n \in Content(batch[f])
  \/ \E s \in Sessions : n \in Content(file[s])

\* The places hold nothing but lines taken, so it remains to say that each line
\* taken has a place.
LEMMA PlacedIsEnough == TypeOK => (NoLineVanishes <=> \A n \in 1 .. taken : Placed(n))
<1> SUFFICES ASSUME TypeOK PROVE NoLineVanishes <=> \A n \in 1 .. taken : Placed(n)
  OBVIOUS
<1> DEFINE B == UNION {Content(batch[f]) : f \in Flushers}
           D == UNION {Content(file[s]) : s \in Sessions}
           P == gone \cup Content(held) \cup Content(buffer) \cup B \cup D
<1>1. \A n : n \in B <=> \E f \in Flushers : n \in Content(batch[f])
  OBVIOUS
<1>2. \A n : n \in D <=> \E s \in Sessions : n \in Content(file[s])
  OBVIOUS
<1>3. B \subseteq 1 .. taken
  BY LinesAreTaken DEF TypeOK
<1>4. D \subseteq 1 .. taken
  BY LinesAreTaken DEF TypeOK
<1>5. NoLineVanishes <=> 1 .. taken = P
  BY DEF NoLineVanishes
<1> HIDE DEF B, D
<1>6. P \subseteq 1 .. taken
  BY <1>3, <1>4, LinesAreTaken DEF TypeOK
<1>7. \A n : n \in P <=> Placed(n)
  BY <1>1, <1>2 DEF Placed
<1> HIDE DEF P
<1> QED BY <1>5, <1>6, <1>7

LEMMA ReadsPlaced ==
  ASSUME TypeOK, RecordReads, \A n \in 1 .. taken : Placed(n)
  PROVE  \A n \in 1 .. taken' : Placed(n)'
<1>1. UNCHANGED <<buffer, batch, file>> /\ taken \in Nat /\ taken' = taken + 1 /\ held = <<>>
  BY DEF TypeOK, RecordReads, flushVars
<1>2. Content(held) = {} /\ gone \subseteq gone'
  BY <1>1, ContentNone DEF RecordReads
<1>3. taken + 1 \in gone' \/ taken + 1 \in Content(held')
  BY ContentOne DEF RecordReads
<1> SUFFICES ASSUME NEW n \in 1 .. taken' PROVE Placed(n)'
  OBVIOUS
<1>4. CASE n \in 1 .. taken
  <2>1. Placed(n)
    BY <1>4
  <2>2. n \in gone \/ n \in Content(buffer) \/ (\E f \in Flushers : n \in Content(batch[f]))
          \/ (\E s \in Sessions : n \in Content(file[s]))
    BY <1>2, <2>1 DEF Placed
  <2>3. Content(buffer') = Content(buffer)
    BY <1>1
  <2> QED BY <1>1, <1>2, <2>2, <2>3 DEF Placed
<1>5. CASE n = taken + 1
  BY <1>3, <1>5 DEF Placed
<1> QED BY <1>1, <1>4, <1>5

LEMMA AppendsPlaced ==
  ASSUME TypeOK, RecordAppends, NEW n, Placed(n)
  PROVE  Placed(n)'
<1>1. UNCHANGED <<gone, batch, file>>
  BY DEF RecordAppends, flushVars, history
<1>2. Content(buffer') = Content(buffer) \cup Content(held)
  BY ContentOfConcat DEF TypeOK, RecordAppends
<1> QED BY <1>1, <1>2 DEF Placed

LEMMA TakesPlaced ==
  ASSUME TypeOK, NEW f \in Flushers, FlushTakes(f), NEW n, Placed(n)
  PROVE  Placed(n)'
<1>1. UNCHANGED <<gone, held, file>> /\ batch[f] = <<>>
  BY DEF TypeOK, FlushTakes
<1>2. \A g \in Flushers \ {f} : batch'[g] = batch[g]
  BY DEF TypeOK, FlushTakes, Returns
<1>3. buffer # <<>> => batch'[f] = buffer
  BY DEF TypeOK, FlushTakes
<1>4. n \in Content(buffer) => n \in Content(batch'[f])
  BY <1>3, ContentNone
<1>5. \A g \in Flushers : n \in Content(batch[g]) => n \in Content(batch'[g])
  BY <1>1, <1>2, ContentNone
<1> QED BY <1>1, <1>4, <1>5 DEF Placed

LEMMA WritesPlaced ==
  ASSUME TypeOK, NoLineTwice, NEW f \in Flushers, FlushWrites(f) \/ FlushFails(f),
         NEW n, Placed(n)
  PROVE  Placed(n)'
<1>1. UNCHANGED <<held, buffer>> /\ path[f] \in Sessions
  BY DEF TypeOK, FlushWrites, FlushFails, lineVars
<1>2. \A g \in Flushers \ {f} : batch'[g] = batch[g]
  BY DEF TypeOK, FlushWrites, FlushFails, Returns
<1>3. PICK part \in Seq(1 .. taken) : Writes(f, part)
  BY AFlushWrites
<1>4. /\ \A s \in Sessions \ {path[f]} : file'[s] = file[s]
      /\ file'[path[f]] = file[path[f]] \o part
      /\ gone' = gone \cup (Content(batch[f]) \ Content(part))
  BY <1>1, <1>3 DEF Writes, TypeOK
<1>5. Content(file'[path[f]]) = Content(file[path[f]]) \cup Content(part)
  BY <1>1, <1>4, ContentOfConcat DEF TypeOK
<1>6. \A s \in Sessions : n \in Content(file[s]) => n \in Content(file'[s])
  BY <1>4, <1>5
<1>7. n \in Content(batch[f]) => n \in gone' \/ n \in Content(file'[path[f]])
  BY <1>4, <1>5
<1> QED BY <1>1, <1>2, <1>4, <1>6, <1>7 DEF Placed

LEMMA RestartPlaced ==
  ASSUME TypeOK, Restart, \A n \in 1 .. taken : Placed(n)
  PROVE  \A n \in 1 .. taken' : Placed(n)'
<1>1. /\ gone' = gone \cup Waiting \cup UNION {Content(batch[f]) : f \in Flushers}
      /\ taken' = Len(sent) /\ file' = file
  BY DEF Restart
<1>2. taken \in 0 .. Len(sent) /\ Len(sent) \in Nat
  BY LenProperties DEF TypeOK
<1>3. ASSUME NEW n \in 1 .. taken' PROVE Placed(n)'
  <2>1. CASE n \in taken + 1 .. Len(sent)
    BY <1>1, <2>1 DEF Placed, Waiting
  <2>2. CASE n \in 1 .. taken
    BY <1>1, <2>2 DEF Placed, Waiting
  <2> QED BY <1>1, <1>2, <1>3, <2>1, <2>2
<1> QED BY <1>3

LEMMA VanishesStep == TypeOK /\ NoLineTwice /\ NoLineVanishes /\ [Next]_vars => NoLineVanishes'
<1> SUFFICES ASSUME TypeOK, NoLineTwice, NoLineVanishes, [Next]_vars PROVE NoLineVanishes'
  OBVIOUS
<1>1. \A n \in 1 .. taken : Placed(n)
  BY PlacedIsEnough
<1>2. TypeOK' /\ (NoLineVanishes <=> \A n \in 1 .. taken : Placed(n))'
  BY TypeStep, PlacedIsEnough, PTL
<1>3. SUFFICES \A n \in 1 .. taken' : Placed(n)'
  BY <1>2
<1>4. CASE UNCHANGED <<gone, taken, held, buffer, batch, file>>
  BY <1>1, <1>4 DEF Placed
<1>5. CASE RecordReads \/ Restart
  BY <1>1, <1>5, ReadsPlaced, RestartPlaced
<1>6. CASE RecordAppends
  BY <1>1, <1>6, AppendsPlaced DEF RecordAppends
<1>7. ASSUME NEW f \in Flushers, Flush(f)
      PROVE  \A n \in 1 .. taken' : Placed(n)'
  <2>1. CASE FlushChooses(f)
    BY <1>4, <2>1 DEF FlushChooses, lineVars
  <2>2. CASE FlushTakes(f)
    BY <1>1, <2>2, TakesPlaced DEF FlushTakes
  <2>3. CASE FlushWrites(f) \/ FlushFails(f)
    BY <1>1, <2>3, WritesPlaced DEF FlushWrites, FlushFails, lineVars
  <2> QED BY <1>7, <2>1, <2>2, <2>3 DEF Flush
<1>8. CASE FeedMoves \/ Publish
  BY <1>4, <1>8 DEF FeedMoves, Publish, lineVars, flushVars, history
<1>9. CASE Apply \/ Reset
  BY <1>4, <1>9, ApplyIsSetState DEF SetState, lineVars, flushVars
<1>10. CASE UNCHANGED vars
  BY <1>4, <1>10 DEF vars, lineVars, flushVars, history
<1> QED BY <1>5, <1>6, <1>7, <1>8, <1>9, <1>10 DEF Next

LEMMA VanishesInit == Init => NoLineVanishes
<1> SUFFICES ASSUME Init PROVE NoLineVanishes
  OBVIOUS
<1>1. TypeOK /\ taken = 0
  BY TypeInit DEF Init
<1>2. \A n \in 1 .. taken : Placed(n)
  BY <1>1
<1> QED BY <1>1, <1>2, PlacedIsEnough

\* Every message that run() has taken is in exactly one place: in one file and
\* there once, on its way to one, or gone for a reason.
THEOREM EachLineIsOnce == Spec => []EachLineOnce
<1>1. Init => TypeOK /\ NoLineTwice /\ NoLineVanishes
  BY TypeInit, TwiceInit, VanishesInit
<1>2. TypeOK /\ NoLineTwice /\ NoLineVanishes /\ [Next]_vars => (TypeOK /\ NoLineTwice /\ NoLineVanishes)'
  BY TypeStep, TwiceStep, VanishesStep
<1>3. NoLineTwice /\ NoLineVanishes => EachLineOnce
  BY DEF EachLineOnce
<1> QED BY <1>1, <1>2, <1>3, PTL DEF Spec

\* A flush that writes makes one file grow by lines that are in none.
LEMMA WritesGrow ==
  ASSUME TypeOK, NoLineTwice, NEW f \in Flushers, FlushWrites(f) \/ FlushFails(f)
  PROVE  J!Next \/ UNCHANGED file
<1> DEFINE p == path[f]
<1>1. p \in Sessions
  BY DEF TypeOK, FlushWrites, FlushFails
<1>2. PICK part \in Seq(1 .. taken) : Writes(f, part)
  BY AFlushWrites
<1>3. /\ \A s \in Sessions \ {p} : file'[s] = file[s]
      /\ file'[p] = file[p] \o part
      /\ file' = [file EXCEPT ![p] = @ \o part] /\ file \in [Sessions -> Seq(1 .. taken)]
      /\ Content(part) \subseteq Content(batch[f]) /\ Distinct(part)
  BY <1>1, <1>2 DEF Writes, TypeOK, NoLineTwice
<1> DEFINE m == Len(file[p])
           n == Len(part)
<1>4. /\ m \in Nat /\ n \in Nat /\ Len(file'[p]) = m + n
      /\ DOMAIN part = 1 .. n
      /\ \A i \in 1 .. m + n : file'[p][i] = IF i <= m THEN file[p][i] ELSE part[i - m]
  BY <1>1, <1>3, LenProperties, ConcatProperties
<1>5. CASE n = 0
  <2>1. part = <<>> /\ file[p] \o part = file[p]
    BY <1>1, <1>3, <1>5, EmptySeq, ConcatEmptySeq
  <2> QED BY <1>1, <1>3, <2>1
<1>6. CASE n > 0
  <2> HIDE DEF m, n
  <2>1. \A i \in m + 1 .. m + n : i - m \in 1 .. n /\ file'[p][i] = part[i - m]
    BY <1>4
  <2>2. \A t \in Sessions : \A x \in Content(part) : x \notin Content(file[t])
    BY <1>3 DEF NoLineTwice, Apart
  <2>3. ASSUME NEW i \in m + 1 .. m + n
        PROVE  /\ \A t \in Sessions : file'[p][i] \notin J!Lines(t)
               /\ \A j \in i + 1 .. m + n : file'[p][i] # file'[p][j]
    <3>1. file'[p][i] \in Content(part)
      BY <1>4, <2>1 DEF Content
    <3>2. ASSUME NEW j \in i + 1 .. m + n PROVE file'[p][i] # file'[p][j]
      <4>1. j \in m + 1 .. m + n /\ i - m # j - m
        BY <1>4
      <4>2. /\ j - m \in 1 .. n /\ i - m \in 1 .. n
            /\ file'[p][j] = part[j - m] /\ file'[p][i] = part[i - m]
        BY <2>1, <4>1
      <4> QED BY <1>3, <1>4, <4>1, <4>2 DEF Distinct
    <3> QED BY <2>2, <3>1, <3>2 DEF J!Lines, Content
  <2>4. \A i \in 1 .. m : file'[p][i] = file[p][i]
    BY <1>4
  <2>5. m + n > m
    BY <1>4, <1>6
  <2>6. J!Grow(p)
    BY <1>3, <1>4, <2>3, <2>4, <2>5 DEF J!Grow, m
  <2> QED BY <1>1, <2>6 DEF J!Next
<1> QED BY <1>4, <1>5, <1>6

LEMMA JournalStep == TypeOK /\ NoLineTwice /\ [Next]_vars => [J!Next]_file
<1> SUFFICES ASSUME TypeOK, NoLineTwice, [Next]_vars PROVE J!Next \/ UNCHANGED file
  OBVIOUS
<1>1. ASSUME NEW f \in Flushers, Flush(f) PROVE J!Next \/ UNCHANGED file
  BY <1>1, WritesGrow DEF Flush, FlushChooses, FlushTakes
<1>2. CASE Apply \/ Reset
  BY <1>2, ApplyIsSetState DEF SetState
<1>3. CASE FeedMoves \/ Publish \/ RecordReads \/ RecordAppends \/ Restart
  BY <1>3 DEF FeedMoves, Publish, RecordReads, RecordAppends, Restart
<1>4. CASE UNCHANGED vars
  BY <1>4 DEF vars
<1> QED BY <1>1, <1>2, <1>3, <1>4 DEF Next

\* The recorder implements its journals: whoever flushes when, and whatever
\* fails, a file only grows, by lines that no file has.
THEOREM RecorderKeepsJournals == Spec => ImplementsJournal
<1>1. Init => J!Init
  BY DEF Init, J!Init
<1>2. Init => TypeOK /\ NoLineTwice
  BY TypeInit, TwiceInit
<1>3. TypeOK /\ NoLineTwice /\ [Next]_vars => (TypeOK /\ NoLineTwice)'
  BY TypeStep, TwiceStep
<1> QED BY <1>1, <1>2, <1>3, JournalStep, PTL DEF Spec, ImplementsJournal, J!Spec
-----------------------------------------------------------------------------
(* The recordings have the order of the stream. *)

\* Of two lines of s in the wrong order the greater, which comes first, is in B.
InOrder(s, B) == \A i, j \in DOMAIN s : i < j /\ s[i] > s[j] => s[i] \in B

\* The same of a line of the set X and one of Y that may be written behind it.
Before(X, Y, B) == \A n \in X, m \in Y : n > m => n \in B

\* The buffer and the batches are in order, and only the batches may pass one
\* another on the way to a file: one that was taken while another was held is
\* behind it.
OrderInv ==
  /\ InOrder(buffer, {}) /\ Before(Content(buffer), Content(held), {})
  /\ \A f \in Flushers :
       /\ InOrder(batch[f], {}) /\ Before(Content(batch[f]), Content(buffer) \cup Content(held), {})
       /\ \A g \in Flushers \ {f} : Before(Content(batch[f]), Content(batch[g]), behind)
  /\ \A s \in Sessions :
       /\ InOrder(file[s], behind) /\ Before(Content(file[s]), Content(buffer) \cup Content(held), {})
       /\ \A f \in Flushers : Before(Content(file[s]), Content(batch[f]), behind)

LEMMA OrderNone == ASSUME NEW B PROVE InOrder(<<>>, B)
BY DEF InOrder

LEMMA OrderConcat ==
  ASSUME NEW k \in Nat, NEW s \in Seq(1 .. k), NEW t \in Seq(1 .. k), NEW B,
         InOrder(s, B), InOrder(t, B), Before(Content(s), Content(t), B)
  PROVE  InOrder(s \o t, B)
<1> DEFINE m == Len(s)
           n == Len(t)
<1>1. /\ m \in Nat /\ n \in Nat
      /\ DOMAIN s = 1 .. m /\ DOMAIN t = 1 .. n /\ DOMAIN (s \o t) = 1 .. m + n
  BY LenProperties, ConcatProperties
<1>2. \A i \in 1 .. m + n : (s \o t)[i] = IF i <= m THEN s[i] ELSE t[i - m]
  BY <1>1, ConcatProperties
<1>3. \A i \in 1 .. m, j \in 1 .. n : s[i] > t[j] => s[i] \in B
  BY <1>1 DEF Before, Content
<1> SUFFICES ASSUME NEW i \in 1 .. m + n, NEW j \in 1 .. m + n,
                    i < j, (s \o t)[i] > (s \o t)[j]
             PROVE  (s \o t)[i] \in B
  BY <1>1 DEF InOrder
<1> HIDE DEF m, n
<1>4. CASE j <= m
  <2>1. i \in 1 .. m /\ j \in 1 .. m /\ (s \o t)[i] = s[i] /\ (s \o t)[j] = s[j]
    BY <1>1, <1>2, <1>4
  <2> QED BY <1>1, <2>1 DEF InOrder
<1>5. CASE ~(i <= m)
  <2>1. ~(j <= m) /\ i - m \in 1 .. n /\ j - m \in 1 .. n /\ i - m < j - m
    BY <1>1, <1>5
  <2>2. (s \o t)[i] = t[i - m] /\ (s \o t)[j] = t[j - m]
    BY <1>2, <1>5, <2>1
  <2> QED BY <1>1, <2>1, <2>2 DEF InOrder
<1>6. CASE i <= m /\ ~(j <= m)
  <2>1. /\ i \in 1 .. m /\ j - m \in 1 .. n
        /\ (s \o t)[i] = s[i] /\ (s \o t)[j] = t[j - m]
    BY <1>1, <1>2, <1>6
  <2> QED BY <1>3, <2>1
<1> QED BY <1>4, <1>5, <1>6

\* A flush writes lines of its batch, in their order.
LEMMA AFlushWritesInOrder ==
  ASSUME TypeOK, OrderInv, NEW f \in Flushers, FlushWrites(f) \/ FlushFails(f)
  PROVE  \E part \in Seq(1 .. taken) :
           /\ file' = [file EXCEPT ![path[f]] = @ \o part]
           /\ Content(part) \subseteq Content(batch[f])
           /\ InOrder(part, {})
<1>1. batch[f] \in Seq(1 .. taken) /\ Len(batch[f]) \in Nat /\ DOMAIN batch[f] = 1 .. Len(batch[f])
  BY LenProperties DEF TypeOK
<1>2. InOrder(batch[f], {})
  BY DEF OrderInv
<1>3. CASE FlushWrites(f)
  BY <1>1, <1>2, <1>3 DEF FlushWrites
<1>4. CASE FlushFails(f)
  <2>1. PICK k \in 0 .. Len(batch[f]) - 1 :
          file' = [file EXCEPT ![path[f]] = @ \o SubSeq(batch[f], 1, k)]
    BY <1>4 DEF FlushFails
  <2> DEFINE part == SubSeq(batch[f], 1, k)
  <2>2. k \in 0 .. Len(batch[f]) /\ k \in Nat
    BY <1>1
  <2>3. part \in Seq(1 .. taken) /\ Content(part) \subseteq Content(batch[f])
    BY <1>1, <2>2, Prefix
  <2>4. DOMAIN part = 1 .. k /\ \A i \in 1 .. k : i \in 1 .. Len(batch[f]) /\ part[i] = batch[f][i]
    <3>1. \A i \in 1 .. k : i \in 1 .. Len(batch[f])
      BY <1>1, <2>2
    <3>2. \A i \in 1 .. k : batch[f][i] \in 1 .. taken
      BY <1>1, <3>1, ElementOfSeq
    <3>3. Len(part) = k /\ \A i \in 1 .. k : part[i] = batch[f][i]
      BY <2>2, <3>2, SubSeqProperties
    <3> QED BY <2>3, <3>1, <3>3, LenProperties
  <2>5. InOrder(part, {})
    <3> HIDE DEF part
    <3> QED BY <1>1, <1>2, <2>4 DEF InOrder
  <2> QED BY <2>1, <2>3, <2>5
<1> QED BY <1>3, <1>4

LEMMA OrderInit == Init => OrderInv
<1> SUFFICES ASSUME Init PROVE OrderInv
  OBVIOUS
<1>1. /\ held = <<>> /\ buffer = <<>>
      /\ \A f \in Flushers : batch[f] = <<>>
      /\ \A s \in Sessions : file[s] = <<>>
  BY DEF Init
<1> QED BY <1>1, ContentNone, OrderNone DEF OrderInv, Before

\* A line that is read comes behind all that were.
LEMMA ReadsInOrder ==
  ASSUME TypeOK, OrderInv, RecordReads
  PROVE  OrderInv'
<1>1. UNCHANGED <<buffer, batch, file, behind>> /\ taken \in Nat
  BY DEF TypeOK, RecordReads, flushVars
<1>2. Content(held') \subseteq {taken + 1}
  BY ContentNone, ContentOne DEF RecordReads
<1>3. ASSUME NEW X, X \subseteq 1 .. taken PROVE Before(X, Content(held'), {})
  BY <1>1, <1>2, <1>3 DEF Before
<1>4. Before(Content(buffer'), Content(held'), {})
  BY <1>1, <1>3, LinesAreTaken
<1>5. \A f \in Flushers : Before(Content(batch'[f]), Content(buffer') \cup Content(held'), {})
  <2>1. \A f \in Flushers : Before(Content(batch[f]), Content(held'), {})
    BY <1>3, LinesAreTaken
  <2>2. \A f \in Flushers : Before(Content(batch[f]), Content(buffer), {})
    BY DEF OrderInv, Before
  <2> QED BY <1>1, <2>1, <2>2 DEF Before
<1>6. \A s \in Sessions : Before(Content(file'[s]), Content(buffer') \cup Content(held'), {})
  <2>1. \A s \in Sessions : Before(Content(file[s]), Content(held'), {})
    BY <1>3, LinesAreTaken
  <2>2. \A s \in Sessions : Before(Content(file[s]), Content(buffer), {})
    BY DEF OrderInv, Before
  <2> QED BY <1>1, <2>1, <2>2 DEF Before
<1> QED BY <1>1, <1>4, <1>5, <1>6 DEF OrderInv

LEMMA AppendsInOrder ==
  ASSUME TypeOK, OrderInv, RecordAppends
  PROVE  OrderInv'
<1>1. UNCHANGED <<batch, file, behind>> /\ held' = <<>> /\ buffer' = buffer \o held
  BY DEF RecordAppends, flushVars, history
<1>2. InOrder(held, {})
  <2>1. DOMAIN held \subseteq 1 .. 1
    BY LenProperties DEF TypeOK
  <2> QED BY <2>1 DEF InOrder
<1>3. Content(buffer') = Content(buffer) \cup Content(held) /\ Content(held') = {}
  BY <1>1, ContentOfConcat, ContentNone DEF TypeOK
<1>4. InOrder(buffer', {})
  <2>1. InOrder(buffer, {}) /\ Before(Content(buffer), Content(held), {}) /\ taken \in Nat
    BY DEF OrderInv, TypeOK
  <2>2. held \in Seq(1 .. taken) /\ buffer \in Seq(1 .. taken)
    BY DEF TypeOK
  <2> QED BY <1>1, <1>2, <2>1, <2>2, OrderConcat
<1>5. Before(Content(buffer'), Content(held'), {})
  BY <1>3 DEF Before
<1> QED BY <1>1, <1>3, <1>4, <1>5 DEF OrderInv

\* A batch that is taken comes behind all that are held, and says so.
LEMMA TakesInOrder ==
  ASSUME TypeOK, OrderInv, NEW f \in Flushers, FlushTakes(f)
  PROVE  OrderInv'
<1>1. /\ UNCHANGED <<held, file>> /\ buffer' = <<>>
      /\ Content(buffer') = {} /\ InOrder(buffer', {}) /\ behind \subseteq behind'
  BY ContentNone, OrderNone DEF FlushTakes
<1>2. /\ \A g \in Flushers \ {f} : batch'[g] = batch[g]
      /\ batch'[f] = buffer
  BY DEF TypeOK, FlushTakes, Returns
<1>3. ASSUME NEW g \in Flushers \ {f}
      PROVE  /\ Before(Content(buffer), Content(batch[g]), behind')
             /\ Before(Content(batch[g]), Content(buffer), behind')
  <2>1. CASE batch[g] = <<>>
    BY <2>1, ContentNone DEF Before
  <2>2. CASE batch[g] # <<>>
    <3>1. Content(buffer) \subseteq behind'
      BY <2>2 DEF FlushTakes
    <3>2. Before(Content(batch[g]), Content(buffer), {})
      BY DEF OrderInv, Before
    <3> QED BY <3>1, <3>2 DEF Before
  <2> QED BY <2>1, <2>2
<1>4. \A g \in Flushers : \A h \in Flushers \ {g} : Before(Content(batch'[g]), Content(batch'[h]), behind')
  <2> SUFFICES ASSUME NEW g \in Flushers, NEW h \in Flushers \ {g}
               PROVE  Before(Content(batch'[g]), Content(batch'[h]), behind')
    OBVIOUS
  <2>1. CASE g # f /\ h # f
    BY <1>1, <1>2, <2>1 DEF OrderInv, Before
  <2> QED BY <1>2, <1>3, <2>1
<1>5. \A g \in Flushers : /\ InOrder(batch'[g], {})
                          /\ Before(Content(batch'[g]), Content(buffer') \cup Content(held'), {})
  BY <1>1, <1>2 DEF OrderInv, Before
<1>6. \A s \in Sessions : /\ InOrder(file'[s], behind')
                          /\ Before(Content(file'[s]), Content(buffer') \cup Content(held'), {})
  BY <1>1 DEF OrderInv, InOrder, Before
<1>7. \A s \in Sessions, g \in Flushers : Before(Content(file'[s]), Content(batch'[g]), behind')
  BY <1>1, <1>2 DEF OrderInv, Before
<1>8. Before(Content(buffer'), Content(held'), {})
  BY <1>1 DEF Before
<1> QED BY <1>1, <1>4, <1>5, <1>6, <1>7, <1>8 DEF OrderInv

LEMMA WritesInOrder ==
  ASSUME TypeOK, OrderInv, NEW f \in Flushers, FlushWrites(f) \/ FlushFails(f)
  PROVE  OrderInv'
<1>1. UNCHANGED <<held, buffer, behind>> /\ path[f] \in Sessions
  BY DEF TypeOK, FlushWrites, FlushFails, lineVars, history
<1>2. /\ \A g \in Flushers \ {f} : batch'[g] = batch[g]
      /\ batch'[f] = <<>>
  BY DEF TypeOK, FlushWrites, FlushFails, Returns
<1>3. PICK part \in Seq(1 .. taken) :
        /\ file' = [file EXCEPT ![path[f]] = @ \o part]
        /\ Content(part) \subseteq Content(batch[f])
        /\ InOrder(part, {})
  BY AFlushWritesInOrder
<1>4. /\ \A s \in Sessions \ {path[f]} : file'[s] = file[s]
      /\ file'[path[f]] = file[path[f]] \o part
      /\ file[path[f]] \in Seq(1 .. taken) /\ taken \in Nat
  BY <1>1, <1>3 DEF TypeOK
<1>5. Content(file'[path[f]]) = Content(file[path[f]]) \cup Content(part)
  BY <1>4, ContentOfConcat
<1>6. InOrder(file'[path[f]], behind)
  <2>1. InOrder(file[path[f]], behind) /\ Before(Content(file[path[f]]), Content(part), behind)
    BY <1>1, <1>3 DEF OrderInv, Before
  <2>2. InOrder(part, behind)
    BY <1>3 DEF InOrder
  <2> QED BY <1>4, <2>1, <2>2, OrderConcat
<1>7. \A s \in Sessions : Content(file'[s]) \subseteq Content(file[s]) \cup Content(batch[f])
  BY <1>3, <1>4, <1>5
<1>8. \A s \in Sessions : InOrder(file'[s], behind')
  BY <1>1, <1>4, <1>6 DEF OrderInv
<1>9. \A s \in Sessions : Before(Content(file'[s]), Content(buffer') \cup Content(held'), {})
  BY <1>1, <1>7 DEF OrderInv, Before
<1>10. \A s \in Sessions, g \in Flushers : Before(Content(file'[s]), Content(batch'[g]), behind')
  <2> SUFFICES ASSUME NEW s \in Sessions, NEW g \in Flushers
               PROVE  Before(Content(file'[s]), Content(batch'[g]), behind')
    OBVIOUS
  <2>1. CASE g = f
    BY <1>2, <2>1, ContentNone DEF Before
  <2>2. CASE g # f
    <3>1. /\ Before(Content(file[s]), Content(batch[g]), behind)
          /\ Before(Content(batch[f]), Content(batch[g]), behind)
      BY <2>2 DEF OrderInv
    <3> QED BY <1>1, <1>2, <1>7, <2>2, <3>1 DEF Before
  <2> QED BY <2>1, <2>2
<1>11. \A g \in Flushers :
         /\ InOrder(batch'[g], {})
         /\ Before(Content(batch'[g]), Content(buffer') \cup Content(held'), {})
  BY <1>1, <1>2, ContentNone, OrderNone DEF OrderInv, Before
<1>12. \A g \in Flushers : \A h \in Flushers \ {g} : Before(Content(batch'[g]), Content(batch'[h]), behind')
  BY <1>1, <1>2, ContentNone DEF OrderInv, Before
<1> QED BY <1>1, <1>8, <1>9, <1>10, <1>11, <1>12 DEF OrderInv

LEMMA RestartInOrder ==
  ASSUME OrderInv, Restart
  PROVE  OrderInv'
<1>1. /\ held' = <<>> /\ buffer' = <<>> /\ UNCHANGED <<file, behind>>
      /\ \A f \in Flushers : batch'[f] = <<>>
  BY DEF Restart
<1>2. \A X, B : Before(X, {}, B) /\ Before({}, X, B)
  BY DEF Before
<1>3. \A s \in Sessions : InOrder(file'[s], behind')
  BY <1>1 DEF OrderInv
<1> QED BY <1>1, <1>2, <1>3, ContentNone, OrderNone DEF OrderInv

LEMMA OrderStep == TypeOK /\ OrderInv /\ [Next]_vars => OrderInv'
<1> SUFFICES ASSUME TypeOK, OrderInv, [Next]_vars PROVE OrderInv'
  OBVIOUS
<1>1. CASE UNCHANGED <<held, buffer, batch, file, behind>>
  BY <1>1 DEF OrderInv
<1>2. CASE RecordReads \/ RecordAppends
  BY <1>2, ReadsInOrder, AppendsInOrder
<1>3. ASSUME NEW f \in Flushers, Flush(f) PROVE OrderInv'
  <2>1. CASE FlushChooses(f)
    BY <1>1, <2>1 DEF FlushChooses, lineVars
  <2> QED BY <1>3, <2>1, TakesInOrder, WritesInOrder DEF Flush
<1>4. CASE FeedMoves \/ Publish
  BY <1>1, <1>4 DEF FeedMoves, Publish, lineVars, flushVars, history
<1>5. CASE Apply \/ Reset
  BY <1>1, <1>5, ApplyIsSetState DEF SetState, lineVars, flushVars
<1>6. CASE UNCHANGED vars
  BY <1>1, <1>6 DEF vars, lineVars, flushVars, history
<1> QED BY <1>2, <1>3, <1>4, <1>5, <1>6, RestartInOrder DEF Next

\* A recording has its lines in the order of the stream, but for batches that
\* were held at a time: the mutex gives the buffer to one flush after another,
\* and only what flush does after it has given the mutex back may be reordered.
THEOREM RecordingsAreInOrder == Spec => []OrderUnlessRaced
<1>1. OrderInv => OrderUnlessRaced
  BY DEF OrderInv, OrderUnlessRaced, InOrder
<1> QED BY <1>1, TypeInit, TypeStep, OrderInit, OrderStep, PTL DEF Spec
=============================================================================
