--------------------------- MODULE LapHistoryProofs ---------------------------
(***************************************************************************)
(* Theorems about the lap history, for any number of drivers, positions,   *)
(* laps, sessions and updates in the queue.                                *)
(***************************************************************************)
EXTENDS LapHistory, SequenceTheorems, TLAPS

(* Lemmas about sectors and laps. *)

\* A number is three times its quotient and a rest.
LEMMA ByThree ==
  ASSUME NEW n \in Nat
  PROVE  n \div 3 \in Nat /\ n % 3 \in 0 .. 2 /\ n = 3 * (n \div 3) + (n % 3)
OBVIOUS

\* The sectors of a lap.
LEMMA SectorInLap ==
  ASSUME NEW n \in Nat, n > 0
  PROVE  /\ SectorOf(n) \in 1 .. 3 /\ LapOf(n) \in Nat /\ LapOf(n) > 0
         /\ n = 3 * (LapOf(n) - 1) + SectorOf(n)
<1>1. /\ (n - 1) \div 3 \in Nat /\ (n - 1) % 3 \in 0 .. 2
      /\ n - 1 = 3 * ((n - 1) \div 3) + ((n - 1) % 3)
  BY ByThree
<1>2. /\ (n + 2) \div 3 \in Nat /\ (n + 2) % 3 \in 0 .. 2
      /\ n + 2 = 3 * ((n + 2) \div 3) + ((n + 2) % 3)
  BY ByThree
<1> QED BY <1>1, <1>2 DEF SectorOf, LapOf

\* Those that can be.
LEMMA SectorBounded ==
  ASSUME NEW n \in 1 .. 3 * MaxLaps
  PROVE  SectorOf(n) \in 1 .. 3 /\ LapOf(n) \in 1 .. MaxLaps
<1>1. n \in Nat /\ n > 0 /\ MaxLaps \in Nat
  BY LapHistoryAssumption DEF LapHistoryAssumption
<1> QED BY <1>1, SectorInLap

\* A sector that is not the first follows one of its own lap, and a third one
\* ends it.
LEMMA SectorAfter ==
  ASSUME NEW n \in Nat
  PROVE  /\ SectorOf(n + 1) # 1 => /\ n > 0
                                   /\ LapOf(n + 1) = LapOf(n)
                                   /\ SectorOf(n + 1) = SectorOf(n) + 1
         /\ SectorOf(n + 1) = 3 => LapOf(n + 1) = (n + 1) \div 3
         /\ (n + 1) \div 3 = IF SectorOf(n + 1) = 3 THEN n \div 3 + 1 ELSE n \div 3
<1>1. n \div 3 \in Nat /\ n % 3 \in 0 .. 2 /\ n = 3 * (n \div 3) + (n % 3)
  BY ByThree
<1>2. /\ (n + 1) \div 3 \in Nat /\ (n + 1) % 3 \in 0 .. 2
      /\ n + 1 = 3 * ((n + 1) \div 3) + ((n + 1) % 3)
  BY ByThree
<1>3. SectorOf(n + 1) \in 1 .. 3 /\ LapOf(n + 1) \in Nat /\ n + 1 = 3 * (LapOf(n + 1) - 1) + SectorOf(n + 1)
  BY SectorInLap
<1>4. ASSUME SectorOf(n + 1) # 1
      PROVE  n > 0 /\ LapOf(n + 1) = LapOf(n) /\ SectorOf(n + 1) = SectorOf(n) + 1
  <2>1. n > 0
    BY <1>3, <1>4
  <2>2. SectorOf(n) \in 1 .. 3 /\ LapOf(n) \in Nat /\ n = 3 * (LapOf(n) - 1) + SectorOf(n)
    BY <2>1, SectorInLap
  <2> QED BY <1>3, <1>4, <2>1, <2>2
<1>5. SectorOf(n + 1) = 3 => LapOf(n + 1) = (n + 1) \div 3
  BY <1>2, <1>3
<1>6. (n + 1) \div 3 = IF SectorOf(n + 1) = 3 THEN n \div 3 + 1 ELSE n \div 3
  BY <1>1, <1>2, <1>3
<1> QED BY <1>4, <1>5, <1>6

\* The first sector of a lap.
LEMMA FirstSector ==
  ASSUME NEW b \in Nat
  PROVE  SectorOf(3 * b + 1) = 1 /\ LapOf(3 * b + 1) = b + 1 /\ (3 * b + 1) \div 3 = b
<1>1. 3 * b + 1 \in Nat /\ 3 * b + 1 > 0
  OBVIOUS
<1>2. /\ SectorOf(3 * b + 1) \in 1 .. 3 /\ LapOf(3 * b + 1) \in Nat
      /\ 3 * b + 1 = 3 * (LapOf(3 * b + 1) - 1) + SectorOf(3 * b + 1)
  BY <1>1, SectorInLap
<1>3. /\ (3 * b + 1) \div 3 \in Nat /\ (3 * b + 1) % 3 \in 0 .. 2
      /\ 3 * b + 1 = 3 * ((3 * b + 1) \div 3) + ((3 * b + 1) % 3)
  BY <1>1, ByThree
<1> QED BY <1>2, <1>3

\* Laps begun cover the sectors driven.
LEMMA LapsCover ==
  ASSUME NEW n \in Nat
  PROVE  /\ LapOf(n) \in Nat /\ n <= 3 * LapOf(n)
         /\ \A k \in Nat : k <= n => LapOf(k) <= LapOf(n)
         /\ n \in 0 .. 3 * MaxLaps => LapOf(n) \in 0 .. MaxLaps
<1>1. ASSUME NEW k \in Nat
      PROVE  LapOf(k) \in Nat /\ k <= 3 * LapOf(k) /\ 3 * LapOf(k) <= k + 2
  <2>1. k + 2 \in Nat
    OBVIOUS
  <2>2. (k + 2) \div 3 \in Nat /\ (k + 2) % 3 \in 0 .. 2 /\ k + 2 = 3 * ((k + 2) \div 3) + ((k + 2) % 3)
    BY <2>1, ByThree
  <2> QED BY <2>2 DEF LapOf
<1> DEFINE l == LapOf(n)
<1>2. l \in Nat /\ n <= 3 * l /\ 3 * l <= n + 2
  BY <1>1
<1>3. ASSUME NEW k \in Nat, k <= n PROVE LapOf(k) <= l
  <2> DEFINE j == LapOf(k)
  <2>1. j \in Nat /\ 3 * j <= k + 2
    BY <1>1
  <2> HIDE DEF j, l
  <2>2. j <= l
    BY <1>2, <1>3, <2>1
  <2> QED BY <2>2 DEF j
<1> HIDE DEF l
<1>4. n \in 0 .. 3 * MaxLaps => l \in 0 .. MaxLaps
  BY <1>2, LapHistoryAssumption DEF LapHistoryAssumption
<1> QED BY <1>2, <1>3, <1>4 DEF l

\* The line of a driver after n sectors, updated by the next one of the lap or
\* the first one of another, is the line after that.
LEMMA MergedIsNext ==
  ASSUME NEW n \in Nat, NEW k \in Nat, k > 0, k = n + 1 \/ SectorOf(k) = 1
  PROVE  Merged(SectorsAt(n), k) = SectorsAt(k)
<1> DEFINE s == SectorOf(k)
           L == LapOf(k)
<1>1. s \in 1 .. 3 /\ (s # 1 => n > 0 /\ L = LapOf(n) /\ s = SectorOf(n) + 1)
  BY SectorInLap, SectorAfter
<1>2. SectorsAt(n) = [i \in 1 .. 3 |-> IF n > 0 /\ i <= SectorOf(n) THEN LapOf(n) ELSE 0]
  BY DEF SectorsAt
<1>3. Len(SectorsAt(n)) = 3 /\ \A i \in 1 .. 3 :
        SectorsAt(n)[i] = IF n > 0 /\ i <= SectorOf(n) THEN LapOf(n) ELSE 0
  BY <1>2
<1>4. Merged(SectorsAt(n), k) =
        [i \in 1 .. 3 |-> IF i = s THEN L ELSE IF s = 1 \/ i > 3 THEN 0 ELSE SectorsAt(n)[i]]
  <2>1. (IF Len(SectorsAt(n)) > (IF s = 1 THEN 3 ELSE s) THEN Len(SectorsAt(n)) ELSE (IF s = 1 THEN 3 ELSE s)) = 3
    BY <1>1, <1>3
  <2> QED BY <1>3, <2>1 DEF Merged
<1>5. \A i \in 1 .. 3 :
        (IF i = s THEN L ELSE IF s = 1 \/ i > 3 THEN 0 ELSE SectorsAt(n)[i])
          = (IF k > 0 /\ i <= s THEN L ELSE 0)
  <2> SUFFICES ASSUME NEW i \in 1 .. 3
               PROVE  (IF i = s THEN L ELSE IF s = 1 \/ i > 3 THEN 0 ELSE SectorsAt(n)[i])
                        = (IF i <= s THEN L ELSE 0)
    OBVIOUS
  <2>1. CASE s = 1
    BY <2>1
  <2>2. CASE s # 1
    <3>1. SectorOf(n) \in 1 .. 3
      BY <1>1, <2>2, SectorInLap
    <3> QED BY <1>1, <1>3, <2>2, <3>1
  <2> QED BY <2>1, <2>2
<1>6. SectorsAt(k) = [i \in 1 .. 3 |-> IF k > 0 /\ i <= s THEN L ELSE 0]
  BY DEF SectorsAt
<1> QED BY <1>4, <1>5, <1>6

-----------------------------------------------------------------------------
(* Type correctness. *)

\* The kinds of update.
LEMMA UpdateKinds ==
  ASSUME NEW m \in Updates
  PROVE  /\ OfSectors(m) => /\ ~OfLine(m) /\ ~OfSession(m)
                            /\ m.driver \in Drivers /\ m.sectors \in 1 .. 3 * MaxLaps
         /\ OfLine(m) => /\ ~OfSectors(m) /\ ~OfSession(m)
                         /\ m.driver \in Drivers /\ m.line \in Positions
         /\ OfSession(m) => ~OfSectors(m) /\ ~OfLine(m) /\ m.info \in 1 .. MaxSessions
         /\ OfSectors(m) \/ OfLine(m) \/ OfSession(m)
<1>1. CASE m \in [driver : Drivers, sectors : 1 .. 3 * MaxLaps]
  BY <1>1 DEF OfSectors, OfLine, OfSession
<1>2. CASE m \in [driver : Drivers, line : Positions]
  BY <1>2 DEF OfSectors, OfLine, OfSession
<1>3. CASE m \in [info : 1 .. MaxSessions]
  BY <1>3 DEF OfSectors, OfLine, OfSession
<1> QED BY <1>1, <1>2, <1>3 DEF Updates

\* A line of three sectors.
LEMMA SectorsAtTyped ==
  ASSUME NEW n \in 0 .. 3 * MaxLaps
  PROVE  SectorsAt(n) \in Sectors /\ Len(SectorsAt(n)) = 3
<1>1. \A i \in 1 .. 3 : (IF n > 0 /\ i <= SectorOf(n) THEN LapOf(n) ELSE 0) \in 0 .. MaxLaps
  <2>1. CASE n = 0
    BY <2>1, LapHistoryAssumption DEF LapHistoryAssumption
  <2>2. CASE n \in 1 .. 3 * MaxLaps
    BY <2>2, SectorBounded, LapHistoryAssumption DEF LapHistoryAssumption
  <2> QED BY <2>1, <2>2
<1> QED BY <1>1 DEF SectorsAt, Sectors

\* A line stays one of at most three sectors when it is updated.
LEMMA MergedTyped ==
  ASSUME NEW s \in Sectors, NEW n \in 1 .. 3 * MaxLaps
  PROVE  Merged(s, n) \in Sectors
<1> DEFINE size == IF SectorOf(n) = 1 THEN 3 ELSE SectorOf(n)
           len  == IF Len(s) > size THEN Len(s) ELSE size
<1>1. SectorOf(n) \in 1 .. 3 /\ LapOf(n) \in 0 .. MaxLaps /\ 0 \in 0 .. MaxLaps
  BY SectorBounded, LapHistoryAssumption DEF LapHistoryAssumption
<1>2. len \in 1 .. 3 /\ Len(s) \in Nat
  <2>1. Len(s) \in Nat
    BY LenProperties DEF Sectors
  <2>2. size \in 1 .. 3
    BY <1>1
  <2> DEFINE k == Len(s)
  <2>3. k \in 0 .. 3
    BY DEF Sectors
  <2> HIDE DEF size, k
  <2>4. (IF k > size THEN k ELSE size) \in 1 .. 3
    BY <2>2, <2>3
  <2> QED BY <2>1, <2>4 DEF k
<1>3. \A i \in 1 .. len : (IF i = SectorOf(n) THEN LapOf(n)
                           ELSE IF SectorOf(n) = 1 \/ i > Len(s) THEN 0
                           ELSE s[i]) \in 0 .. MaxLaps
  <2> SUFFICES ASSUME NEW i \in 1 .. len, i <= Len(s) PROVE s[i] \in 0 .. MaxLaps
    BY <1>1, <1>2
  <2>1. i \in 1 .. Len(s)
    BY <1>2
  <2> QED BY <2>1, ElementOfSeq DEF Sectors
<1>4. Merged(s, n) = [i \in 1 .. len |-> IF i = SectorOf(n) THEN LapOf(n)
                                         ELSE IF SectorOf(n) = 1 \/ i > Len(s) THEN 0
                                         ELSE s[i]]
  BY DEF Merged
<1> HIDE DEF len
<1> QED BY <1>2, <1>3, <1>4 DEF Sectors

LEMMA TypeInit == Init => TypeOK
<1> SUFFICES ASSUME Init PROVE TypeOK
  OBVIOUS
<1> USE LapHistoryAssumption DEF LapHistoryAssumption, Init
<1>1. /\ session \in 1 .. MaxSessions
      /\ progress \in [Drivers -> 0 .. 3 * MaxLaps]
      /\ begun \in [Drivers -> 0 .. MaxLaps] /\ kept \in [Drivers -> Nat]
      /\ line \in [Drivers -> Positions]
  BY DEF NoneKept
<1>2. queue \in Seq(Updates) /\ Len(queue) \in 0 .. MaxQueue
  BY EmptySeq
<1>3. gs \in States
  BY EmptySeq DEF EmptyState, NoLines, NoLaps, NoStart, States, Sectors
<1>4. \A d \in Drivers : DOMAIN gs.laps[d] = {}
  BY EmptySeq DEF EmptyState, NoLaps
<1> QED BY <1>1, <1>2, <1>3, <1>4 DEF TypeOK

\* What a state must be like that replaces the one there is.
GoodState(s) ==
  /\ s \in States \cup {Nil}
  /\ s # Nil => \A d \in Drivers : \A i \in DOMAIN s.laps[d] : s.laps[d][i].num = i

\* The state after an update.
LEMMA UpdateTyped ==
  ASSUME TypeOK, gs # Nil, queue # <<>>, NEW m, m = Head(queue)
  PROVE  /\ OfSectors(m) => /\ CompletedLap(m) \in Laps
                           /\ LinesAfter(m) \in [Drivers -> Sectors]
                           /\ LapsAfter(m) \in [Drivers -> Seq(Laps)]
                           /\ GoodState([gs EXCEPT !.lines = LinesAfter(m), !.laps = LapsAfter(m)])
         /\ OfLine(m) => /\ StartAfter(m) \in [Drivers -> Positions \cup {0}]
                         /\ GoodState([gs EXCEPT !.start = StartAfter(m)])
         /\ OfSession(m) => GoodState(WithInfo(m))
<1>1. m \in Updates /\ gs \in States
  BY HeadTailProperties DEF TypeOK
<1>2. OfSectors(m) \/ OfLine(m) => m.driver \in Drivers
  BY <1>1, UpdateKinds
<1>3. ASSUME OfSectors(m)
      PROVE  /\ CompletedLap(m) \in Laps
             /\ LinesAfter(m) \in [Drivers -> Sectors]
             /\ LapsAfter(m) \in [Drivers -> Seq(Laps)]
             /\ GoodState([gs EXCEPT !.lines = LinesAfter(m), !.laps = LapsAfter(m)])
  <2> DEFINE d == m.driver
             new == [gs EXCEPT !.lines = LinesAfter(m), !.laps = LapsAfter(m)]
  <2>1. UpdatedLine(m) \in Sectors
    BY <1>1, <1>2, <1>3, UpdateKinds, MergedTyped DEF UpdatedLine, TypeOK, States
  <2>2. /\ LinesAfter(m) \in [Drivers -> Sectors]
        /\ \A e \in Drivers : LinesAfter(m)[e] = IF e = d THEN UpdatedLine(m) ELSE gs.lines[e]
    BY <1>1, <1>2, <1>3, <2>1 DEF LinesAfter, States
  <2>3. gs.laps[d] \in Seq(Laps) /\ Len(gs.laps[d]) \in Nat
    BY <1>1, <1>2, <1>3 DEF States
  <2>4. CompletedLap(m) \in Laps /\ CompletedLap(m).num = Len(gs.laps[d]) + 1
    <3>1. <<>> \in Sectors
      BY EmptySeq DEF Sectors
    <3> QED BY <2>1, <2>3, <3>1 DEF CompletedLap, Laps
  <2>5. /\ Append(gs.laps[d], CompletedLap(m)) \in Seq(Laps)
        /\ \A i \in DOMAIN Append(gs.laps[d], CompletedLap(m)) :
             Append(gs.laps[d], CompletedLap(m))[i].num = i
    <3> DEFINE new_ == Append(gs.laps[d], CompletedLap(m))
    <3>1. /\ new_ \in Seq(Laps) /\ Len(new_) = Len(gs.laps[d]) + 1
          /\ \A i \in 1 .. Len(gs.laps[d]) : new_[i] = gs.laps[d][i]
          /\ new_[Len(gs.laps[d]) + 1] = CompletedLap(m)
      BY <2>3, <2>4, AppendProperties
    <3>2. DOMAIN new_ = 1 .. Len(gs.laps[d]) + 1 /\ DOMAIN gs.laps[d] = 1 .. Len(gs.laps[d])
      BY <2>3, <3>1, LenProperties
    <3>3. \A i \in 1 .. Len(gs.laps[d]) : gs.laps[d][i].num = i
      BY <1>2, <1>3, <3>2 DEF TypeOK
    <3> HIDE DEF new_
    <3>4. \A i \in 1 .. Len(gs.laps[d]) + 1 : new_[i].num = i
      <4> SUFFICES ASSUME NEW i \in 1 .. Len(gs.laps[d]) + 1 PROVE new_[i].num = i
        OBVIOUS
      <4>1. CASE i \in 1 .. Len(gs.laps[d])
        BY <3>1, <3>3, <4>1
      <4>2. CASE i = Len(gs.laps[d]) + 1
        BY <2>4, <3>1, <4>2
      <4> QED BY <2>3, <4>1, <4>2
    <3> QED BY <3>1, <3>2, <3>4 DEF new_
  <2>6. /\ LapsAfter(m) \in [Drivers -> Seq(Laps)]
        /\ \A e \in Drivers : LapsAfter(m)[e] = gs.laps[e] \/ (e = d /\ LapsAfter(m)[e] = Append(gs.laps[d], CompletedLap(m)))
    BY <1>1, <1>2, <1>3, <2>5 DEF LapsAfter, States
  <2>7. /\ new.key = gs.key /\ new.start = gs.start
        /\ new.lines = LinesAfter(m) /\ new.laps = LapsAfter(m)
        /\ new \in States
    BY <1>1, <2>2, <2>6 DEF States
  <2> HIDE DEF new
  <2>8. \A e \in Drivers : \A i \in DOMAIN new.laps[e] : new.laps[e][i].num = i
    BY <2>5, <2>6, <2>7 DEF TypeOK
  <2>9. GoodState(new)
    BY <2>7, <2>8 DEF GoodState
  <2> QED BY <2>2, <2>4, <2>6, <2>9 DEF new
<1>4. ASSUME OfLine(m)
      PROVE  /\ StartAfter(m) \in [Drivers -> Positions \cup {0}]
             /\ GoodState([gs EXCEPT !.start = StartAfter(m)])
  <2> DEFINE new == [gs EXCEPT !.start = StartAfter(m)]
  <2>1. StartAfter(m) \in [Drivers -> Positions \cup {0}]
    BY <1>1, <1>2, <1>4, UpdateKinds DEF StartAfter, States
  <2>2. new \in States /\ new.lines = gs.lines /\ new.laps = gs.laps
    BY <1>1, <2>1 DEF States
  <2> HIDE DEF new
  <2>3. GoodState(new)
    BY <2>2 DEF GoodState, TypeOK
  <2> QED BY <2>1, <2>3 DEF new
<1>5. ASSUME OfSession(m) PROVE GoodState(WithInfo(m))
  <2>1. m.info \in 0 .. MaxSessions
    BY <1>1, <1>5, UpdateKinds, LapHistoryAssumption DEF LapHistoryAssumption
  <2>2. WithInfo(m) \in States /\ WithInfo(m).laps = gs.laps
    BY <1>1, <2>1 DEF WithInfo, States
  <2> QED BY <2>2 DEF GoodState, TypeOK
<1> QED BY <1>3, <1>4, <1>5

\* The snapshot in a reply is a state, and one without laps.
LEMMA ReplyTyped ==
  ASSUME TypeOK, NEW key \in {session, 0}
  PROVE  [key |-> key, lines |-> [d \in Drivers |-> FeedLine(d)], laps |-> NoLaps, start |-> line] \in States
<1>1. key \in 0 .. MaxSessions
  BY LapHistoryAssumption DEF TypeOK, LapHistoryAssumption
<1>2. [d \in Drivers |-> FeedLine(d)] \in [Drivers -> Sectors]
  BY SectorsAtTyped DEF FeedLine, TypeOK
<1>3. NoLaps \in [Drivers -> Seq(Laps)]
  BY EmptySeq DEF NoLaps
<1> QED BY <1>1, <1>2, <1>3 DEF States, TypeOK

\* Queueing an update, if the feed is connected.
LEMMA SendsTyped ==
  ASSUME TypeOK, NEW m \in Updates, Sends(m)
  PROVE  queue' \in Seq(Updates) /\ Len(queue') \in 0 .. MaxQueue
<1>1. Len(queue) \in Nat /\ Len(queue) < MaxQueue
  BY LenProperties DEF TypeOK, Sends
<1>2. CASE connected
  BY <1>1, <1>2, AppendProperties, LapHistoryAssumption DEF TypeOK, Sends, LapHistoryAssumption
<1>3. CASE ~connected
  BY <1>3 DEF TypeOK, Sends
<1> QED BY <1>2, <1>3

\* The next sector of a driver, and its lap.
LEMMA NextSectorTyped ==
  ASSUME TypeOK, NEW d \in Drivers
  PROVE  /\ progress[d] \in Nat /\ begun[d] \in Nat
         /\ NextSector(d) \in Nat /\ NextSector(d) > progress[d] /\ NextSector(d) > 3 * begun[d]
         /\ NextSector(d) = progress[d] + 1 \/ SectorOf(NextSector(d)) = 1
         /\ LapOf(NextSector(d)) > begun[d]
<1>1. progress[d] \in Nat /\ begun[d] \in Nat
  BY LapHistoryAssumption DEF TypeOK, LapHistoryAssumption
<1>2. NextSector(d) = IF progress[d] > 3 * begun[d] THEN progress[d] + 1 ELSE 3 * begun[d] + 1
  BY DEF NextSector
<1>3. /\ NextSector(d) \in Nat /\ NextSector(d) > progress[d] /\ NextSector(d) > 3 * begun[d]
  BY <1>1, <1>2
<1>4. NextSector(d) = progress[d] + 1 \/ SectorOf(NextSector(d)) = 1
  BY <1>1, <1>2, FirstSector
<1>5. LapOf(NextSector(d)) > begun[d]
  BY <1>1, <1>3, LapsCover
<1> QED BY <1>1, <1>3, <1>4, <1>5

LEMMA TypeStep == TypeOK /\ [Next]_vars => TypeOK'
<1> SUFFICES ASSUME TypeOK, [Next]_vars PROVE TypeOK'
  OBVIOUS
<1> USE LapHistoryAssumption DEF LapHistoryAssumption
<1>0. GoodState(gs)
  BY DEF TypeOK, GoodState
<1>1. ASSUME NEW d \in Drivers, CompleteSector(d) PROVE TypeOK'
  <2>1. progress' \in [Drivers -> 0 .. 3 * MaxLaps] /\ progress'[d] \in 1 .. 3 * MaxLaps
    <3>1. NextSector(d) \in 1 .. 3 * MaxLaps
      BY <1>1, NextSectorTyped DEF CompleteSector
    <3> QED BY <1>1, <3>1 DEF CompleteSector, TypeOK
  <2>2. [driver |-> d, sectors |-> progress'[d]] \in Updates
    BY <2>1 DEF Updates
  <2>3. queue' \in Seq(Updates) /\ Len(queue') \in 0 .. MaxQueue
    BY <1>1, <2>2, SendsTyped DEF CompleteSector
  <2> QED BY <1>1, <2>1, <2>3 DEF CompleteSector, TypeOK
<1>2. ASSUME NEW d \in Drivers, NEW p \in Positions, MoveTo(d, p) PROVE TypeOK'
  <2>1. [driver |-> d, line |-> p] \in Updates
    BY DEF Updates
  <2>2. queue' \in Seq(Updates) /\ Len(queue') \in 0 .. MaxQueue
    BY <1>2, <2>1, SendsTyped DEF MoveTo
  <2> QED BY <1>2, <2>2 DEF MoveTo, TypeOK
<1>3. CASE NextSession
  <2>1. session' \in 1 .. MaxSessions
    BY <1>3 DEF NextSession, TypeOK
  <2>2. begun' \in [Drivers -> 0 .. MaxLaps]
    <3>1. ASSUME NEW d \in Drivers PROVE LapOf(progress[d]) \in 0 .. MaxLaps
      <4>1. progress[d] \in 0 .. 3 * MaxLaps
        BY DEF TypeOK
      <4>2. progress[d] \in Nat
        BY <4>1, LapHistoryAssumption
      <4> QED BY <4>1, <4>2, LapsCover
    <3> QED BY <1>3, <3>1 DEF NextSession
  <2>3. [info |-> session'] \in Updates
    BY <2>1 DEF Updates
  <2>4. queue' \in Seq(Updates) /\ Len(queue') \in 0 .. MaxQueue
    BY <1>3, <2>3, SendsTyped DEF NextSession
  <2> QED BY <1>3, <2>1, <2>2, <2>4 DEF NextSession, TypeOK
<1>4. CASE Subscribe
  <2>1. reply' \in States
    BY <1>4, ReplyTyped DEF Subscribe
  <2>2. overtaken' \in BOOLEAN
    BY <1>4 DEF Subscribe
  <2> QED BY <1>4, <2>1, <2>2 DEF Subscribe, TypeOK
<1>5. CASE Disconnect
  BY <1>5 DEF Disconnect, TypeOK
<1>6. CASE HandleUpdate
  <2>1. queue' \in Seq(Updates) /\ Len(queue') \in 0 .. MaxQueue
    BY <1>6, HeadTailProperties DEF HandleUpdate, TypeOK
  <2>2. GoodState(gs')
    BY <1>0, <1>6, UpdateTyped DEF HandleUpdate
  <2>3. overtaken' \in BOOLEAN /\ missed' \in BOOLEAN
    BY <1>6 DEF HandleUpdate, TypeOK
  <2>4. kept' \in [Drivers -> Nat]
    <3>1. gs # Nil => \A d \in Drivers : Len(gs.laps[d]) \in Nat
      BY LenProperties DEF TypeOK, States
    <3>2. kept' = kept \/ (gs # Nil /\ kept' = [d \in Drivers |-> Len(gs.laps[d])])
      BY <1>6 DEF HandleUpdate
    <3> QED BY <3>1, <3>2 DEF TypeOK
  <2> QED BY <1>6, <2>1, <2>2, <2>3, <2>4 DEF HandleUpdate, feedVars, TypeOK, GoodState
<1>7. CASE HandleReply
  <2>1. reply \in States
    BY <1>7 DEF HandleReply, TypeOK
  <2>2. CarriedLaps \in [Drivers -> Seq(Laps)]
    BY EmptySeq DEF CarriedLaps, SameSession, NoLaps, TypeOK, States
  <2>3. CarriedStart \in [Drivers -> Positions \cup {0}]
    BY <2>1 DEF CarriedStart, SameSession, TypeOK, States
  <2>4. gs' \in States /\ gs'.laps = CarriedLaps /\ gs'.lines = reply.lines
    BY <1>7, <2>1, <2>2, <2>3 DEF HandleReply, States
  <2>5. \A d \in Drivers : \A i \in DOMAIN CarriedLaps[d] : CarriedLaps[d][i].num = i
    BY EmptySeq, LenProperties DEF CarriedLaps, SameSession, NoLaps, TypeOK
  <2>6. kept' \in [Drivers -> Nat]
    BY <1>7 DEF HandleReply, NoneKept, TypeOK
  <2> QED BY <1>7, <2>4, <2>5, <2>6 DEF HandleReply, feedVars, TypeOK
<1>8. CASE ReplyUnparsable
  BY <1>8 DEF ReplyUnparsable, NoneKept, feedVars, TypeOK
<1>9. CASE BrowserConnects
  <2>1. GoodState(EmptyState)
    BY EmptySeq DEF EmptyState, NoLines, NoLaps, NoStart, States, Sectors, GoodState
  <2> QED BY <1>9, <2>1 DEF BrowserConnects, feedVars, TypeOK, GoodState
<1>10. CASE UNCHANGED vars
  BY <1>10 DEF vars, TypeOK
<1> QED BY <1>1, <1>2, <1>3, <1>4, <1>5, <1>6, <1>7, <1>8, <1>9, <1>10 DEF Next

\* The feed's and the relay's data keep their types, and each driver's laps are
\* numbered 1, 2, 3, ..., through every update, reconnection and session.
THEOREM TypeCorrect == Spec => []TypeOK
<1> QED BY TypeInit, TypeStep, PTL DEF Spec

-----------------------------------------------------------------------------
(* What waits in the queue.  A sequence of numbers, 0 for an update that is *)
(* about something else, is in order if it holds lo + 1, ..., hi.           *)

InOrder(s, lo, hi) ==
  /\ lo <= hi
  /\ \A i \in DOMAIN s : s[i] # 0 => s[i] \in lo + 1 .. hi
  /\ \A i, j \in DOMAIN s : i < j /\ s[i] # 0 /\ s[j] # 0 => s[i] < s[j]
  /\ \A k \in lo + 1 .. hi : \E i \in DOMAIN s : s[i] = k

LEMMA InOrderEmpty ==
  ASSUME NEW lo \in Nat, NEW hi \in Nat
  PROVE  InOrder(<<>>, lo, hi) <=> lo = hi
<1>1. DOMAIN <<>> = {}
  BY EmptySeq
<1>2. InOrder(<<>>, lo, hi) => lo = hi
  <2> SUFFICES ASSUME InOrder(<<>>, lo, hi), lo < hi PROVE FALSE
    BY DEF InOrder
  <2>1. hi \in lo + 1 .. hi
    OBVIOUS
  <2> QED BY <1>1, <2>1 DEF InOrder
<1>3. lo = hi => InOrder(<<>>, lo, hi)
  BY <1>1 DEF InOrder
<1> QED BY <1>2, <1>3

LEMMA InOrderAppend ==
  ASSUME NEW s \in Seq(Nat), NEW lo \in Nat, NEW hi \in Nat, InOrder(s, lo, hi)
  PROVE  InOrder(Append(s, 0), lo, hi) /\ InOrder(Append(s, hi + 1), lo, hi + 1)
<1>1. ASSUME NEW e \in {0, hi + 1}, NEW top \in {hi, hi + 1}, e = 0 <=> top = hi
      PROVE  InOrder(Append(s, e), lo, top)
  <2> DEFINE t == Append(s, e)
             n == Len(s)
  <2>1. /\ n \in Nat /\ DOMAIN s = 1 .. n
        /\ t \in Seq(Nat) /\ Len(t) = n + 1
        /\ \A i \in 1 .. n : t[i] = s[i]
        /\ t[n + 1] = e
    BY AppendProperties, LenProperties
  <2>2. DOMAIN t = 1 .. n + 1
    BY <2>1, LenProperties
  <2>3. \A i \in 1 .. n : t[i] \in Nat
    BY <2>1, ElementOfSeq
  <2> HIDE DEF t, n
  <2>4. \A i \in 1 .. n + 1 : i \in 1 .. n \/ i = n + 1
    BY <2>1
  <2>5. lo <= top /\ lo \in Nat /\ top \in Nat
    BY DEF InOrder
  <2>6. \A i \in 1 .. n : t[i] # 0 => t[i] \in lo + 1 .. hi
    BY <2>1 DEF InOrder
  <2>7. ASSUME NEW i \in DOMAIN t, t[i] # 0 PROVE t[i] \in lo + 1 .. top
    <3>1. CASE i \in 1 .. n
      BY <1>1, <2>5, <2>6, <2>7, <3>1
    <3>2. CASE i = n + 1
      BY <1>1, <2>1, <2>5, <2>7, <3>2 DEF InOrder
    <3> QED BY <2>2, <2>4, <3>1, <3>2
  <2>8. \A i, j \in DOMAIN t : i < j /\ t[i] # 0 /\ t[j] # 0 => t[i] < t[j]
    <3> SUFFICES ASSUME NEW i \in 1 .. n + 1, NEW j \in 1 .. n + 1, i < j, t[i] # 0, t[j] # 0
                 PROVE  t[i] < t[j]
      BY <2>2
    <3>1. i \in 1 .. n
      BY <2>1
    <3>2. CASE j \in 1 .. n
      BY <2>1, <3>1, <3>2 DEF InOrder
    <3>3. CASE j = n + 1
      BY <1>1, <2>1, <2>6, <3>1, <3>3
    <3> QED BY <2>4, <3>2, <3>3
  <2>9. ASSUME NEW k \in lo + 1 .. top PROVE \E i \in DOMAIN t : t[i] = k
    <3>1. CASE k \in lo + 1 .. hi
      <4>1. PICK i \in 1 .. n : s[i] = k
        BY <2>1, <3>1 DEF InOrder
      <4>2. i \in 1 .. n + 1
        BY <2>1
      <4> QED BY <2>1, <2>2, <4>1, <4>2
    <3>2. CASE k = hi + 1 /\ top = hi + 1
      BY <1>1, <2>1, <2>2, <3>2
    <3> QED BY <3>1, <3>2
  <2>10. InOrder(t, lo, top)
    BY <2>5, <2>7, <2>8, <2>9 DEF InOrder
  <2> QED BY <2>10 DEF t
<1> QED BY <1>1

LEMMA InOrderTail ==
  ASSUME NEW s \in Seq(Nat), NEW lo \in Nat, NEW hi \in Nat, InOrder(s, lo, hi), s # <<>>
  PROVE  /\ Head(s) = 0 => InOrder(Tail(s), lo, hi)
         /\ Head(s) # 0 => Head(s) = lo + 1 /\ InOrder(Tail(s), lo + 1, hi)
<1> DEFINE t == Tail(s)
           n == Len(t)
<1>1. /\ t \in Seq(Nat) /\ n \in Nat /\ Len(s) = n + 1
      /\ DOMAIN t = 1 .. n /\ DOMAIN s = 1 .. n + 1
      /\ \A i \in 1 .. n : t[i] = s[i + 1]
      /\ Head(s) = s[1]
  <2>1. t \in Seq(Nat) /\ Len(t) = Len(s) - 1 /\ \A i \in 1 .. Len(t) : t[i] = s[i + 1]
    BY HeadTailProperties
  <2>2. Len(s) \in Nat /\ DOMAIN s = 1 .. Len(s) /\ Len(t) \in Nat /\ DOMAIN t = 1 .. Len(t)
    BY <2>1, LenProperties
  <2> QED BY <2>1, <2>2
<1>2. \A i \in 1 .. n + 1 : s[i] \in Nat
  BY <1>1, ElementOfSeq
<1> HIDE DEF t, n
<1>3. /\ \A i \in 1 .. n + 1 : s[i] # 0 => s[i] \in lo + 1 .. hi
      /\ \A i, j \in 1 .. n + 1 : i < j /\ s[i] # 0 /\ s[j] # 0 => s[i] < s[j]
      /\ \A k \in lo + 1 .. hi : \E i \in 1 .. n + 1 : s[i] = k
  BY <1>1 DEF InOrder
<1>4. \A i \in 1 .. n : i + 1 \in 1 .. n + 1
  BY <1>1
<1>5. \A i, j \in 1 .. n : i < j /\ t[i] # 0 /\ t[j] # 0 => t[i] < t[j]
  BY <1>1, <1>3, <1>4
<1>6. ASSUME NEW k \in lo + 1 .. hi, k # s[1] PROVE \E i \in 1 .. n : t[i] = k
  <2>1. PICK i \in 1 .. n + 1 : s[i] = k
    BY <1>3
  <2>2. i - 1 \in 1 .. n /\ (i - 1) + 1 = i
    BY <1>1, <1>6, <2>1
  <2> QED BY <1>1, <2>1, <2>2
<1>7. ASSUME s[1] = 0 PROVE InOrder(t, lo, hi)
  <2>1. \A k \in lo + 1 .. hi : k # s[1]
    BY <1>7
  <2>2. \A i \in DOMAIN t : t[i] # 0 => t[i] \in lo + 1 .. hi
    BY <1>1, <1>3, <1>4
  <2> QED BY <1>1, <1>5, <1>6, <2>1, <2>2 DEF InOrder
<1>8. ASSUME s[1] # 0 PROVE s[1] = lo + 1 /\ InOrder(t, lo + 1, hi)
  <2>1. 1 \in 1 .. n + 1 /\ s[1] \in lo + 1 .. hi /\ \A i \in 1 .. n : 1 < i + 1
    BY <1>1, <1>3, <1>8
  <2>2. \A i \in 1 .. n : t[i] # 0 => s[1] < t[i]
    BY <1>1, <1>3, <1>4, <1>8, <2>1
  <2>3. s[1] = lo + 1
    <3> SUFFICES ASSUME s[1] # lo + 1 PROVE FALSE
      OBVIOUS
    <3>1. lo + 1 \in lo + 1 .. hi
      BY <2>1
    <3>2. PICK i \in 1 .. n : t[i] = lo + 1
      BY <1>6, <3>1
    <3> QED BY <2>1, <2>2, <3>2
  <2>4. \A i \in 1 .. n : t[i] # 0 => t[i] \in (lo + 1) + 1 .. hi
    BY <1>1, <1>3, <1>4, <2>2, <2>3
  <2>5. \A k \in (lo + 1) + 1 .. hi : k \in lo + 1 .. hi /\ k # s[1]
    BY <2>3
  <2>6. lo + 1 <= hi
    BY <2>1
  <2>7. \A k \in (lo + 1) + 1 .. hi : \E i \in 1 .. n : t[i] = k
    BY <1>6, <2>5
  <2> QED BY <1>1, <1>5, <2>3, <2>4, <2>6, <2>7 DEF InOrder
<1> QED BY <1>1, <1>7, <1>8 DEF t

\* The lap of the session that an update ends for driver d, with b laps begun
\* before the session.
LapNum(m, d, b) ==
  IF OfSectors(m) /\ m.driver = d /\ SectorOf(m.sectors) = 3 /\ LapOf(m.sectors) > b[d]
  THEN LapOf(m.sectors) - b[d] ELSE 0

\* Those of the updates in a queue.
LapNums(q, d, b) == [i \in 1 .. Len(q) |-> LapNum(q[i], d, b)]

LEMMA LapNumTyped ==
  ASSUME NEW m \in Updates, NEW d \in Drivers, NEW b \in [Drivers -> Nat]
  PROVE  LapNum(m, d, b) \in Nat
<1>1. CASE OfSectors(m) /\ m.driver = d /\ LapOf(m.sectors) > b[d]
  <2>1. LapOf(m.sectors) \in Nat
    BY <1>1, UpdateKinds, SectorBounded
  <2>2. LapOf(m.sectors) - b[d] \in Nat
    BY <1>1, <2>1
  <2> QED BY <2>2 DEF LapNum
<1>2. CASE ~(OfSectors(m) /\ m.driver = d /\ LapOf(m.sectors) > b[d])
  BY <1>2 DEF LapNum
<1> QED BY <1>1, <1>2

LEMMA NumsTyped ==
  ASSUME NEW q \in Seq(Updates), NEW d \in Drivers, NEW b \in [Drivers -> Nat]
  PROVE  LapNums(q, d, b) \in Seq(Nat) /\ Len(LapNums(q, d, b)) = Len(q)
<1> DEFINE n == Len(q)
<1>1. n \in Nat /\ \A i \in 1 .. n : q[i] \in Updates
  BY LenProperties, ElementOfSeq
<1>2. \A i \in 1 .. n : LapNum(q[i], d, b) \in Nat
  BY <1>1, LapNumTyped
<1>3. LapNums(q, d, b) = [i \in 1 .. n |-> LapNum(q[i], d, b)]
  BY DEF LapNums
<1> HIDE DEF n
<1>4. LapNums(q, d, b) \in Seq(Nat) /\ Len(LapNums(q, d, b)) = n
  BY <1>1, <1>2, <1>3
<1> QED BY <1>4 DEF n

LEMMA NumsEmpty ==
  ASSUME NEW d \in Drivers, NEW b \in [Drivers -> Nat]
  PROVE  LapNums(<<>>, d, b) = <<>>
<1>1. <<>> \in Seq(Updates) /\ Len(<<>>) = 0
  BY EmptySeq
<1>2. LapNums(<<>>, d, b) \in Seq(Nat) /\ Len(LapNums(<<>>, d, b)) = 0
  BY <1>1, NumsTyped
<1> QED BY <1>2, EmptySeq

LEMMA NumsAppend ==
  ASSUME NEW q \in Seq(Updates), NEW m \in Updates, NEW d \in Drivers, NEW b \in [Drivers -> Nat]
  PROVE  LapNums(Append(q, m), d, b) = Append(LapNums(q, d, b), LapNum(m, d, b))
<1> DEFINE n == Len(q)
           s == LapNums(q, d, b)
           t == LapNums(Append(q, m), d, b)
           e == LapNum(m, d, b)
<1>1. /\ n \in Nat /\ Append(q, m) \in Seq(Updates) /\ Len(Append(q, m)) = n + 1
      /\ \A i \in 1 .. n : Append(q, m)[i] = q[i]
      /\ Append(q, m)[n + 1] = m
  BY AppendProperties, LenProperties
<1>2. e \in Nat /\ s \in Seq(Nat) /\ Len(s) = n
  BY LapNumTyped, NumsTyped
<1>3. t \in Seq(Nat) /\ Len(t) = n + 1
  BY <1>1, NumsTyped
<1>4. /\ \A i \in 1 .. n : s[i] = LapNum(q[i], d, b)
      /\ \A i \in 1 .. n + 1 : t[i] = LapNum(Append(q, m)[i], d, b)
  BY <1>1 DEF LapNums
<1>5. /\ \A i \in 1 .. n : t[i] = s[i]
      /\ t[n + 1] = e
  BY <1>1, <1>4
<1> HIDE DEF n, s, t, e
<1>6. /\ Append(s, e) \in Seq(Nat) /\ Len(Append(s, e)) = n + 1
      /\ \A i \in 1 .. n : Append(s, e)[i] = s[i]
      /\ Append(s, e)[n + 1] = e
  BY <1>2, AppendProperties
<1>7. \A i \in 1 .. n + 1 : i \in 1 .. n \/ i = n + 1
  BY <1>1
<1>8. \A i \in 1 .. n + 1 : t[i] = Append(s, e)[i]
  BY <1>5, <1>6, <1>7
<1>9. t = Append(s, e)
  BY <1>3, <1>6, <1>8, SeqEqual
<1> QED BY <1>9 DEF s, t, e

LEMMA NumsTail ==
  ASSUME NEW q \in Seq(Updates), q # <<>>, NEW d \in Drivers, NEW b \in [Drivers -> Nat]
  PROVE  /\ LapNums(q, d, b) # <<>>
         /\ Head(LapNums(q, d, b)) = LapNum(Head(q), d, b)
         /\ Tail(LapNums(q, d, b)) = LapNums(Tail(q), d, b)
<1> DEFINE n == Len(Tail(q))
           s == LapNums(q, d, b)
           t == LapNums(Tail(q), d, b)
<1>1. /\ Tail(q) \in Seq(Updates) /\ Len(q) = n + 1 /\ n \in Nat
      /\ \A i \in 1 .. n : Tail(q)[i] = q[i + 1]
      /\ Head(q) = q[1]
  BY HeadTailProperties, LenProperties
<1>2. /\ s \in Seq(Nat) /\ Len(s) = n + 1
      /\ t \in Seq(Nat) /\ Len(t) = n
  BY <1>1, NumsTyped
<1>3. /\ \A i \in 1 .. n + 1 : s[i] = LapNum(q[i], d, b)
      /\ \A i \in 1 .. n : t[i] = LapNum(Tail(q)[i], d, b)
  BY <1>1 DEF LapNums
<1>4. 1 \in 1 .. n + 1 /\ \A i \in 1 .. n : i + 1 \in 1 .. n + 1
  BY <1>1
<1>5. s[1] = LapNum(Head(q), d, b) /\ \A i \in 1 .. n : t[i] = s[i + 1]
  BY <1>1, <1>3, <1>4
<1> HIDE DEF n, s, t
<1>6. s # <<>>
  BY <1>1, <1>2, EmptySeq
<1>7. /\ Tail(s) \in Seq(Nat) /\ Len(Tail(s)) = n
      /\ \A i \in 1 .. n : Tail(s)[i] = s[i + 1]
      /\ Head(s) = s[1]
  BY <1>1, <1>2, <1>6, HeadTailProperties
<1>8. \A i \in 1 .. n : Tail(s)[i] = t[i]
  BY <1>5, <1>7
<1>9. Tail(s) = t
  BY <1>2, <1>7, <1>8, SeqEqual
<1> QED BY <1>5, <1>6, <1>7, <1>9 DEF s, t

-----------------------------------------------------------------------------
(* What a queue of updates makes of the lines.                              *)

\* The feed in the first s sessions.
View(s) == [key : 1 .. s, prog : [Drivers -> 0 .. 3 * MaxLaps]]

\* Lines that show the feed as it is in v.
Shows(lines, v) == \A d \in Drivers : lines[d] = SectorsAt(v.prog[d])

\* An update m takes the feed from v to w; s is the session now, and b the laps
\* begun before it: the sectors of later laps are those that follow its start.
Follows(v, m, w, s, b) ==
  /\ OfSectors(m) => /\ w.key = v.key
                     /\ w.prog = [v.prog EXCEPT ![m.driver] = m.sectors]
                     /\ m.sectors = v.prog[m.driver] + 1 \/ SectorOf(m.sectors) = 1
                     /\ LapOf(m.sectors) > b[m.driver] <=> v.key = s
  /\ OfLine(m) => w.key = v.key /\ w.prog = v.prog
  /\ OfSession(m) => w.key = m.info /\ w.prog = v.prog

\* Each update of a queue takes the feed from one view of v to the next.
Chain(v, q, s, b) == \A i \in 1 .. Len(q) : Follows(v[i - 1], q[i], v[i], s, b)

\* The feed as it was before each update of the queue, and as it is now: the
\* queue brings the lines to where the feed is, with p sectors done.
Replays(v, lines, q, s, b, p) ==
  /\ v \in [0 .. Len(q) -> View(s)]
  /\ Shows(lines, v[0])
  /\ v[Len(q)].key = s /\ v[Len(q)].prog = p
  /\ Chain(v, q, s, b)

\* Nothing has to be replayed to the lines that the feed shows.
LEMMA ReplaysNothing ==
  ASSUME NEW s \in Nat, s > 0, NEW b \in [Drivers -> Nat],
         NEW p \in [Drivers -> 0 .. 3 * MaxLaps], NEW lines, Shows(lines, [key |-> s, prog |-> p])
  PROVE  \E v : Replays(v, lines, <<>>, s, b, p) /\ v[0].key = s
<1> DEFINE w == [key |-> s, prog |-> p]
           v == [i \in 0 .. 0 |-> w]
<1>1. w \in View(s) /\ w.key = s /\ w.prog = p
  BY DEF View
<1>2. Len(<<>>) = 0
  OBVIOUS
<1> HIDE DEF w
<1>3. v \in [0 .. 0 -> View(s)] /\ v[0] = w
  BY <1>1
<1> HIDE DEF v
<1>4. Replays(v, lines, <<>>, s, b, p)
  BY <1>1, <1>2, <1>3 DEF Replays, Chain, Shows
<1> QED BY <1>1, <1>3, <1>4

\* One update more; the session may have changed with it.
LEMMA ReplaysAppend ==
  ASSUME NEW q \in Seq(Updates), NEW m \in Updates, NEW lines, NEW v,
         NEW s \in Nat, NEW b, NEW p, Replays(v, lines, q, s, b, p),
         NEW ss \in Nat, s <= ss, NEW bb, NEW pp, NEW w \in View(ss), w.key = ss, w.prog = pp,
         Follows(v[Len(q)], m, w, ss, bb), Chain(v, q, ss, bb)
  PROVE  \E u : Replays(u, lines, Append(q, m), ss, bb, pp) /\ u[0] = v[0]
<1> DEFINE n == Len(q)
           t == Append(q, m)
           u == [i \in 0 .. n + 1 |-> IF i <= n THEN v[i] ELSE w]
<1>1. /\ n \in Nat /\ Len(t) = n + 1
      /\ \A i \in 1 .. n : t[i] = q[i]
      /\ t[n + 1] = m
  BY AppendProperties, LenProperties
<1>2. /\ v \in [0 .. n -> View(s)]
      /\ Shows(lines, v[0])
      /\ \A i \in 1 .. n : Follows(v[i - 1], q[i], v[i], ss, bb)
      /\ Follows(v[n], m, w, ss, bb)
  BY DEF Replays, Chain
<1>3. \A x \in View(s) : x \in View(ss)
  BY DEF View
<1> HIDE DEF n, t
<1>4. \A i \in 0 .. n + 1 : i \in 0 .. n \/ (i = n + 1 /\ ~(i <= n))
  BY <1>1
<1>5. /\ u \in [0 .. n + 1 -> View(ss)]
      /\ \A i \in 0 .. n : u[i] = v[i]
      /\ u[n + 1] = w
  BY <1>1, <1>2, <1>3, <1>4
<1> HIDE DEF u
<1>6. \A i \in 1 .. n + 1 : Follows(u[i - 1], t[i], u[i], ss, bb)
  <2> SUFFICES ASSUME NEW i \in 1 .. n + 1 PROVE Follows(u[i - 1], t[i], u[i], ss, bb)
    OBVIOUS
  <2>1. CASE i \in 1 .. n
    <3>1. u[i] = v[i] /\ u[i - 1] = v[i - 1] /\ t[i] = q[i]
      BY <1>1, <1>5, <2>1
    <3> QED BY <1>2, <2>1, <3>1
  <2>2. CASE i = n + 1
    <3>1. u[i] = w /\ u[i - 1] = v[n] /\ t[i] = m
      BY <1>1, <1>5, <2>2
    <3> QED BY <1>2, <3>1
  <2> QED BY <1>1, <2>1, <2>2
<1>7. u[0] = v[0]
  BY <1>1, <1>5
<1>8. Replays(u, lines, t, ss, bb, pp)
  BY <1>1, <1>2, <1>5, <1>6, <1>7 DEF Replays, Chain
<1> QED BY <1>7, <1>8 DEF t

\* The first update of the queue.
LEMMA ReplaysHead ==
  ASSUME NEW q \in Seq(Updates), q # <<>>, NEW lines, NEW v,
         NEW s \in Nat, NEW b, NEW p, Replays(v, lines, q, s, b, p)
  PROVE  /\ v[0] \in View(s) /\ v[1] \in View(s) /\ Shows(lines, v[0])
         /\ Follows(v[0], Head(q), v[1], s, b)
<1> DEFINE n == Len(Tail(q))
<1>1. n \in Nat /\ Len(q) = n + 1 /\ Head(q) = q[1]
  BY HeadTailProperties, LenProperties
<1>2. /\ v \in [0 .. n + 1 -> View(s)]
      /\ \A i \in 1 .. n + 1 : Follows(v[i - 1], q[i], v[i], s, b)
      /\ Shows(lines, v[0])
  BY <1>1 DEF Replays, Chain
<1> HIDE DEF n
<1>3. 0 \in 0 .. n + 1 /\ 1 \in 0 .. n + 1 /\ 1 \in 1 .. n + 1 /\ 1 - 1 = 0
  BY <1>1
<1>4. Follows(v[1 - 1], q[1], v[1], s, b)
  BY <1>2, <1>3
<1> QED BY <1>1, <1>2, <1>3, <1>4

\* The feed is as in w at place i of v.
At(v, i, w) == v[i] = w

\* The others follow it.
LEMMA ReplaysTail ==
  ASSUME NEW q \in Seq(Updates), q # <<>>, NEW lines, NEW v,
         NEW s \in Nat, NEW b, NEW p, Replays(v, lines, q, s, b, p),
         NEW new, NEW w, At(v, 1, w), Shows(new, w)
  PROVE  \E u : Replays(u, new, Tail(q), s, b, p) /\ At(u, 0, w)
<1> DEFINE n == Len(Tail(q))
           t == Tail(q)
           u == [i \in 0 .. n |-> v[i + 1]]
<1>1. n \in Nat /\ Len(q) = n + 1 /\ \A i \in 1 .. n : t[i] = q[i + 1]
  BY HeadTailProperties, LenProperties
<1>2. /\ v \in [0 .. n + 1 -> View(s)]
      /\ v[n + 1].key = s /\ v[n + 1].prog = p
      /\ \A i \in 1 .. n + 1 : Follows(v[i - 1], q[i], v[i], s, b)
  BY <1>1 DEF Replays, Chain
<1>3. Len(t) = n
  OBVIOUS
<1> HIDE DEF n, t
<1>4. \A i \in 0 .. n : i + 1 \in 0 .. n + 1
  BY <1>1
<1>5. u \in [0 .. n -> View(s)] /\ u[0] = v[1] /\ \A i \in 0 .. n : u[i] = v[i + 1]
  BY <1>1, <1>2, <1>4
<1> HIDE DEF u
<1>6. \A i \in 1 .. n : Follows(u[i - 1], t[i], u[i], s, b)
  <2> SUFFICES ASSUME NEW i \in 1 .. n PROVE Follows(u[i - 1], t[i], u[i], s, b)
    OBVIOUS
  <2>1. i + 1 \in 1 .. n + 1 /\ (i + 1) - 1 = i /\ i \in 0 .. n /\ i - 1 \in 0 .. n /\ (i - 1) + 1 = i
    BY <1>1
  <2>2. Follows(v[(i + 1) - 1], q[i + 1], v[i + 1], s, b)
    BY <1>2, <2>1
  <2>3. u[i] = v[i + 1] /\ u[i - 1] = v[i] /\ t[i] = q[i + 1]
    BY <1>1, <1>5, <2>1
  <2> QED BY <2>1, <2>2, <2>3
<1>7. u[n].key = s /\ u[n].prog = p
  BY <1>1, <1>2, <1>5
<1>8. At(u, 0, w) /\ Shows(new, u[0])
  BY <1>5 DEF At
<1>9. Replays(u, new, t, s, b, p)
  BY <1>3, <1>5, <1>6, <1>7, <1>8 DEF Replays, Chain
<1> QED BY <1>8, <1>9 DEF t

\* An update applied to the lines of v gives those of w.
LEMMA LinesFollow ==
  ASSUME NEW m \in Updates, NEW s, NEW b, NEW v \in View(s), NEW w, Follows(v, m, w, s, b),
         NEW lines \in [Drivers -> Sectors], Shows(lines, v)
  PROVE  /\ OfSectors(m) => Shows([lines EXCEPT ![m.driver] = Merged(lines[m.driver], m.sectors)], w)
         /\ ~OfSectors(m) => Shows(lines, w)
<1>1. ASSUME OfSectors(m), NEW d \in Drivers
      PROVE  [lines EXCEPT ![m.driver] = Merged(lines[m.driver], m.sectors)][d] = SectorsAt(w.prog[d])
  <2>1. m.driver \in Drivers /\ m.sectors \in Nat /\ m.sectors > 0
    BY <1>1, UpdateKinds, LapHistoryAssumption DEF LapHistoryAssumption
  <2>2. v.prog \in [Drivers -> 0 .. 3 * MaxLaps] /\ v.prog[m.driver] \in Nat
    BY <2>1, LapHistoryAssumption DEF View, LapHistoryAssumption
  <2>3. /\ w.prog = [v.prog EXCEPT ![m.driver] = m.sectors]
        /\ m.sectors = v.prog[m.driver] + 1 \/ SectorOf(m.sectors) = 1
    BY <1>1 DEF Follows
  <2>4. Merged(SectorsAt(v.prog[m.driver]), m.sectors) = SectorsAt(m.sectors)
    BY <2>1, <2>2, <2>3, MergedIsNext
  <2>5. CASE d = m.driver
    BY <2>1, <2>2, <2>3, <2>4, <2>5 DEF Shows
  <2>6. CASE d # m.driver
    BY <2>1, <2>2, <2>3, <2>6 DEF Shows
  <2> QED BY <2>5, <2>6
<1>2. ASSUME ~OfSectors(m), NEW d \in Drivers PROVE lines[d] = SectorsAt(w.prog[d])
  <2>1. w.prog = v.prog
    BY <1>2, UpdateKinds DEF Follows
  <2> QED BY <2>1 DEF Shows
<1> QED BY <1>1, <1>2 DEF Shows

\* The laps of the session that the history has.
Saved(d) == IF gs # Nil /\ gs.key = session THEN Len(gs.laps[d]) - kept[d] ELSE 0

\* The laps completed with n sectors done, and b laps begun before the session.
LEMMA EndedNext ==
  ASSUME NEW n \in Nat, NEW b \in Nat, NEW k, k = (IF n > 3 * b THEN n + 1 ELSE 3 * b + 1),
         NEW x, x = (IF n > 3 * b THEN n \div 3 - b ELSE 0),
         NEW y, y = (IF k > 3 * b THEN k \div 3 - b ELSE 0)
  PROVE  /\ x \in Nat /\ y = IF SectorOf(k) = 3 THEN x + 1 ELSE x
         /\ SectorOf(k) = 3 => LapOf(k) > b /\ LapOf(k) - b = x + 1
<1>1. n \div 3 \in Nat /\ n % 3 \in 0 .. 2 /\ n = 3 * (n \div 3) + (n % 3)
  BY ByThree
<1>2. CASE n > 3 * b
  <2>1. x = n \div 3 - b /\ x \in Nat
    BY <1>1, <1>2
  <2>2. k = n + 1 /\ y = k \div 3 - b
    BY <1>2
  <2>3. /\ SectorOf(n + 1) = 3 => LapOf(n + 1) = (n + 1) \div 3
        /\ (n + 1) \div 3 = IF SectorOf(n + 1) = 3 THEN n \div 3 + 1 ELSE n \div 3
    BY SectorAfter
  <2>4. CASE SectorOf(n + 1) = 3
    <3>1. k \div 3 = n \div 3 + 1 /\ LapOf(k) = n \div 3 + 1
      BY <2>2, <2>3, <2>4
    <3> QED BY <1>1, <2>1, <2>2, <2>4, <3>1
  <2>5. CASE SectorOf(n + 1) # 3
    BY <1>1, <2>1, <2>2, <2>3, <2>5
  <2> QED BY <2>4, <2>5
<1>3. CASE ~(n > 3 * b)
  BY <1>3, FirstSector
<1> QED BY <1>2, <1>3

LEMMA EndedTyped ==
  ASSUME TypeOK, NEW d \in Drivers
  PROVE  Ended(d) \in Nat
<1>1. progress[d] \in Nat /\ begun[d] \in Nat
  BY LapHistoryAssumption DEF TypeOK, LapHistoryAssumption
<1> QED BY <1>1, EndedNext DEF Ended

\* A queue that ends no lap.
LEMMA InOrderNone ==
  ASSUME NEW s \in Seq(Nat), \A i \in 1 .. Len(s) : s[i] = 0
  PROVE  InOrder(s, 0, 0)
<1>1. DOMAIN s = 1 .. Len(s)
  BY LenProperties
<1> QED BY <1>1 DEF InOrder

-----------------------------------------------------------------------------
(* The inductive invariant. *)

\* States, replies and updates are of this session or an earlier one.
SessionInv ==
  /\ gs # Nil => gs.key \in 0 .. session
  /\ reply # NoReply => reply.key \in 0 .. session
  /\ \A i \in 1 .. Len(queue) :
       /\ OfSession(queue[i]) => queue[i].info \in 1 .. session
       /\ OfSectors(queue[i]) => queue[i].sectors <= progress[queue[i].driver]

\* What was kept is part of the history.
KeptInv ==
  /\ gs = Nil => kept = NoneKept
  /\ gs # Nil => \A d \in Drivers : kept[d] <= Len(gs.laps[d])

\* The state, once sound, is one that the queue completes; so is a snapshot
\* that no update has overtaken.
SoundInv ==
  sound => /\ connected /\ reply = NoReply /\ gs # Nil
           /\ \E v : /\ Replays(v, gs.lines, queue, session, begun, progress)
                     /\ gs.key \in {v[0].key, 0}
                     /\ (missed \/ v[0].key # session \/ gs.key = session)

SnapshotInv ==
  connected /\ reply # NoReply /\ ~overtaken =>
    \E v : /\ Replays(v, reply.lines, queue, session, begun, progress)
           /\ reply.key \in {v[0].key, 0}

\* When a snapshot of an earlier session is waiting, no lap of this one is saved.
StaleInv ==
  ~missed /\ reply # NoReply /\ reply.key \notin {session, 0} => \A d \in Drivers : Saved(d) = 0

\* If no lap was missed, the queue brings those the history lacks ...
LapsInv ==
  ~missed => \A d \in Drivers : InOrder(LapNums(queue, d, begun), Saved(d), Ended(d))

\* ... and the others are the session's, in order.
WholeInv ==
  ~missed => \A d \in Drivers : \A i \in 1 .. Saved(d) :
    gs.laps[d][kept[d] + i].sectors = Whole(begun[d] + i)

IInv ==
  /\ TypeOK /\ SessionInv /\ KeptInv
  /\ SoundInv /\ SnapshotInv /\ StaleInv /\ LapsInv /\ WholeInv

LEMMA SavedTyped ==
  ASSUME TypeOK, KeptInv, NEW d \in Drivers
  PROVE  Saved(d) \in Nat
<1>1. CASE gs # Nil /\ gs.key = session
  <2>1. Len(gs.laps[d]) \in Nat /\ kept[d] \in Nat /\ kept[d] <= Len(gs.laps[d])
    BY <1>1, LenProperties DEF TypeOK, States, KeptInv
  <2> QED BY <1>1, <2>1 DEF Saved
<1>2. CASE ~(gs # Nil /\ gs.key = session)
  BY <1>2 DEF Saved
<1> QED BY <1>1, <1>2

LEMMA EmptyTyped == EmptyState \in States /\ EmptyState # Nil
<1>1. EmptyState \in States
  BY EmptySeq, LapHistoryAssumption
  DEF EmptyState, NoLines, NoLaps, NoStart, States, Sectors, LapHistoryAssumption
<1> QED BY <1>1, NilAssumption

LEMMA IInvInit == Init => IInv
<1> SUFFICES ASSUME Init PROVE IInv
  OBVIOUS
<1>1. queue = <<>> /\ Len(queue) = 0 /\ gs = EmptyState /\ gs # Nil /\ reply = NoReply /\ ~sound
  BY EmptyTyped DEF Init
<1>2. SessionInv /\ SoundInv /\ SnapshotInv /\ StaleInv
  BY <1>1 DEF Init, SessionInv, SoundInv, SnapshotInv, StaleInv, EmptyState
<1>3. KeptInv
  BY <1>1, EmptySeq DEF Init, KeptInv, NoneKept, EmptyState, NoLaps
<1>4. \A d \in Drivers : Saved(d) = 0 /\ Ended(d) = 0
  BY <1>1 DEF Init, Saved, Ended, EmptyState
<1>5. LapsInv
  <2> SUFFICES ASSUME NEW d \in Drivers
               PROVE  InOrder(LapNums(queue, d, begun), Saved(d), Ended(d))
    BY DEF LapsInv
  <2>1. begun \in [Drivers -> Nat]
    BY DEF Init
  <2>2. LapNums(queue, d, begun) = <<>>
    BY <1>1, <2>1, NumsEmpty
  <2> QED BY <1>4, <2>2, InOrderEmpty
<1>6. WholeInv
  BY <1>4 DEF WholeInv
<1> QED BY TypeInit, <1>2, <1>3, <1>5, <1>6 DEF IInv

\* The parts of the invariant, and the types that the steps need of it.
LEMMA Parts ==
  ASSUME IInv
  PROVE  /\ TypeOK /\ KeptInv
         /\ session \in Nat /\ session > 0
         /\ progress \in [Drivers -> 0 .. 3 * MaxLaps] /\ begun \in [Drivers -> Nat]
         /\ queue \in Seq(Updates) /\ missed \in BOOLEAN
         /\ \A d \in Drivers : Saved(d) \in Nat /\ Ended(d) \in Nat
<1>1. TypeOK /\ KeptInv
  BY DEF IInv
<1>2. session \in Nat /\ session > 0 /\ begun \in [Drivers -> Nat]
  BY <1>1, LapHistoryAssumption DEF TypeOK, LapHistoryAssumption
<1> QED BY <1>1, <1>2, SavedTyped, EndedTyped DEF TypeOK

\* Where the state, the session and what was kept stay, so do the saved laps.
LEMMA SavedStays ==
  ASSUME UNCHANGED <<session, begun, gs, kept>>
  PROVE  /\ \A d \in Drivers : Saved(d)' = Saved(d)
         /\ KeptInv => KeptInv'
         /\ WholeInv /\ (missed => missed') => WholeInv'
<1>1. \A d \in Drivers : Saved(d)' = Saved(d)
  BY DEF Saved
<1>2. KeptInv => KeptInv'
  BY DEF KeptInv, NoneKept
<1> QED BY <1>1, <1>2 DEF WholeInv

\* An update of the feed that the relay, if it is connected, receives.
LEMMA FeedStep ==
  ASSUME IInv, TypeOK', NEW m \in Updates, Sends(m),
         UNCHANGED <<session, begun, connected, reply, gs, overtaken, sound, kept>>, missed => missed',
         \A v \in View(session) : v.key = session /\ v.prog = progress =>
           \E w \in View(session) : /\ w.key = session /\ w.prog = progress'
                                    /\ Follows(v, m, w, session, begun),
         \A d \in Drivers : /\ progress[d] <= progress'[d]
                            /\ OfSectors(m) => m.sectors <= progress'[m.driver],
         OfSession(m) => m.info \in 1 .. session
  PROVE  SessionInv' /\ KeptInv' /\ SoundInv' /\ SnapshotInv' /\ StaleInv' /\ WholeInv'
<1>1. /\ queue \in Seq(Updates) /\ session \in Nat
      /\ queue' = IF connected THEN Append(queue, m) ELSE queue
  BY Parts DEF Sends
<1>2. KeptInv' /\ WholeInv' /\ \A d \in Drivers : Saved(d)' = Saved(d)
  BY SavedStays DEF IInv
<1>3. StaleInv'
  BY <1>2 DEF IInv, StaleInv
<1>4. ASSUME NEW lines, NEW v, connected, Replays(v, lines, queue, session, begun, progress)
      PROVE  \E u : Replays(u, lines, queue', session, begun, progress') /\ u[0] = v[0]
  <2>1. v[Len(queue)] \in View(session) /\ v[Len(queue)].key = session /\ v[Len(queue)].prog = progress
    BY <1>1, <1>4, LenProperties DEF Replays
  <2>2. PICK w \in View(session) : /\ w.key = session /\ w.prog = progress'
                                   /\ Follows(v[Len(queue)], m, w, session, begun)
    BY <2>1
  <2>3. Chain(v, queue, session, begun)
    BY <1>4 DEF Replays
  <2>4. session <= session
    BY <1>1
  <2>5. PICK p : p = progress'
    OBVIOUS
  <2>6. \E u : Replays(u, lines, Append(queue, m), session, begun, p) /\ u[0] = v[0]
    BY <1>1, <1>4, <2>2, <2>3, <2>4, <2>5, ReplaysAppend
  <2> QED BY <1>1, <1>4, <2>5, <2>6
<1>5. SoundInv'
  <2> SUFFICES ASSUME sound PROVE SoundInv'
    BY DEF SoundInv
  <2>1. connected /\ reply = NoReply /\ gs # Nil
    BY DEF IInv, SoundInv
  <2>2. PICK v : /\ Replays(v, gs.lines, queue, session, begun, progress)
                 /\ gs.key \in {v[0].key, 0}
                 /\ (missed \/ v[0].key # session \/ gs.key = session)
    BY DEF IInv, SoundInv
  <2>3. PICK u : Replays(u, gs.lines, queue', session, begun, progress') /\ u[0] = v[0]
    BY <1>4, <2>1, <2>2
  <2> QED BY <2>1, <2>2, <2>3 DEF SoundInv
<1>6. SnapshotInv'
  <2> SUFFICES ASSUME connected, reply # NoReply, ~overtaken PROVE SnapshotInv'
    BY DEF SnapshotInv
  <2>1. PICK v : /\ Replays(v, reply.lines, queue, session, begun, progress)
                 /\ reply.key \in {v[0].key, 0}
    BY DEF IInv, SnapshotInv
  <2>2. PICK u : Replays(u, reply.lines, queue', session, begun, progress') /\ u[0] = v[0]
    BY <1>4, <2>1
  <2> QED BY <2>1, <2>2 DEF SnapshotInv
<1>7. SessionInv'
  <2> SUFFICES ASSUME NEW i \in 1 .. Len(queue')
               PROVE  /\ OfSession(queue'[i]) => queue'[i].info \in 1 .. session
                      /\ OfSectors(queue'[i]) => queue'[i].sectors <= progress'[queue'[i].driver]
    BY DEF IInv, SessionInv
  <2>1. CASE i \in 1 .. Len(queue) /\ queue'[i] = queue[i]
    <3>1. queue[i] \in Updates
      BY <1>1, <2>1, ElementOfSeq
    <3>2. OfSectors(queue[i]) => /\ queue[i].driver \in Drivers /\ queue[i].sectors \in Nat
                                 /\ queue[i].sectors <= progress[queue[i].driver]
                                 /\ progress[queue[i].driver] <= progress'[queue[i].driver]
      BY <2>1, <3>1, UpdateKinds, LapHistoryAssumption DEF IInv, SessionInv, LapHistoryAssumption
    <3>3. OfSectors(queue[i]) => progress[queue[i].driver] \in Nat /\ progress'[queue[i].driver] \in Nat
      BY <3>2, LapHistoryAssumption DEF IInv, TypeOK, LapHistoryAssumption
    <3> QED BY <2>1, <3>2, <3>3 DEF IInv, SessionInv
  <2>2. CASE queue'[i] = m
    BY <2>2, UpdateKinds
  <2>3. (i \in 1 .. Len(queue) /\ queue'[i] = queue[i]) \/ queue'[i] = m
    BY <1>1, AppendProperties, LenProperties
  <2> QED BY <2>1, <2>2, <2>3
<1> QED BY <1>2, <1>3, <1>5, <1>6, <1>7

\* The feed's own steps.
LEMMA SectorStep ==
  ASSUME IInv, TypeOK', NEW d \in Drivers, CompleteSector(d)
  PROVE  IInv'
<1> DEFINE k == NextSector(d)
           m == [driver |-> d, sectors |-> progress'[d]]
<1>1. /\ progress \in [Drivers -> 0 .. 3 * MaxLaps] /\ begun \in [Drivers -> Nat] /\ queue \in Seq(Updates)
      /\ progress' = [progress EXCEPT ![d] = k] /\ progress'[d] = k
      /\ TypeOK /\ missed \in BOOLEAN /\ session \in Nat
  BY Parts DEF CompleteSector
<1>2. /\ progress[d] \in Nat /\ begun[d] \in Nat /\ k \in Nat /\ k > progress[d]
      /\ k = progress[d] + 1 \/ SectorOf(k) = 1
      /\ LapOf(k) > begun[d]
      /\ k = IF progress[d] > 3 * begun[d] THEN progress[d] + 1 ELSE 3 * begun[d] + 1
  BY <1>1, NextSectorTyped DEF NextSector
<1> HIDE DEF k
<1>3. k \in 1 .. 3 * MaxLaps
  BY <1>1, <1>2 DEF TypeOK
<1>4. m \in Updates /\ OfSectors(m) /\ m.driver = d /\ m.sectors = k
  BY <1>1, <1>3 DEF Updates, OfSectors
<1>5. ~OfLine(m) /\ ~OfSession(m)
  BY <1>4, UpdateKinds
<1>6. Sends(m) /\ (missed => missed')
      /\ UNCHANGED <<session, begun, connected, reply, gs, overtaken, sound, kept>>
  BY <1>1 DEF CompleteSector
<1> HIDE DEF m
<1>7. ASSUME NEW v \in View(session), v.key = session, v.prog = progress
      PROVE  \E w \in View(session) : /\ w.key = session /\ w.prog = progress'
                                      /\ Follows(v, m, w, session, begun)
  <2> DEFINE w == [key |-> session, prog |-> progress']
  <2>1. w \in View(session) /\ w.key = session /\ w.prog = progress'
    BY <1>7 DEF View, TypeOK
  <2> HIDE DEF w
  <2>2. Follows(v, m, w, session, begun)
    BY <1>1, <1>2, <1>4, <1>5, <1>7, <2>1 DEF Follows
  <2> QED BY <2>1, <2>2
<1>8. \A e \in Drivers : progress[e] <= progress'[e]
  <2> SUFFICES ASSUME NEW e \in Drivers PROVE progress[e] <= progress'[e]
    OBVIOUS
  <2>1. progress[e] \in Nat
    BY <1>1, LapHistoryAssumption DEF LapHistoryAssumption
  <2> QED BY <1>1, <1>2, <2>1
<1>9. m.sectors <= progress'[m.driver]
  BY <1>1, <1>2, <1>4
<1>10. SessionInv' /\ KeptInv' /\ SoundInv' /\ SnapshotInv' /\ StaleInv' /\ WholeInv'
  BY <1>4, <1>5, <1>6, <1>7, <1>8, <1>9, FeedStep
<1>11. LapsInv'
  <2> SUFFICES ASSUME ~missed', NEW e \in Drivers
               PROVE  InOrder(LapNums(queue', e, begun), Saved(e), Ended(e)')
    BY <1>6, SavedStays DEF LapsInv
  <2>1. ~missed /\ (connected \/ SectorOf(k) # 3)
    BY <1>1 DEF CompleteSector
  <2>2. InOrder(LapNums(queue, e, begun), Saved(e), Ended(e))
    BY <2>1 DEF IInv, LapsInv
  <2>3. LapNums(queue, e, begun) \in Seq(Nat) /\ Saved(e) \in Nat /\ Ended(e) \in Nat
    BY <1>1, NumsTyped, Parts
  <2>4. LapNums(Append(queue, m), e, begun) = Append(LapNums(queue, e, begun), LapNum(m, e, begun))
    BY <1>1, <1>4, NumsAppend
  <2>5. /\ InOrder(Append(LapNums(queue, e, begun), 0), Saved(e), Ended(e))
        /\ InOrder(Append(LapNums(queue, e, begun), Ended(e) + 1), Saved(e), Ended(e) + 1)
    BY <2>2, <2>3, InOrderAppend
  <2>6. queue' = IF connected THEN Append(queue, m) ELSE queue
    BY <1>6 DEF Sends
  <2>7. CASE e = d
    <3>1. /\ Ended(d) = (IF progress[d] > 3 * begun[d] THEN progress[d] \div 3 - begun[d] ELSE 0)
          /\ Ended(d)' = (IF k > 3 * begun[d] THEN k \div 3 - begun[d] ELSE 0)
      BY <1>1, <1>6 DEF Ended
    <3>2. /\ Ended(d)' = IF SectorOf(k) = 3 THEN Ended(d) + 1 ELSE Ended(d)
          /\ SectorOf(k) = 3 => LapOf(k) - begun[d] = Ended(d) + 1
      BY <1>2, <3>1, EndedNext
    <3>3. LapNum(m, d, begun) = IF SectorOf(k) = 3 THEN Ended(d) + 1 ELSE 0
      BY <1>2, <1>4, <3>2 DEF LapNum
    <3>4. CASE SectorOf(k) = 3
      BY <2>1, <2>4, <2>5, <2>6, <2>7, <3>2, <3>3, <3>4
    <3>5. CASE SectorOf(k) # 3
      BY <2>2, <2>4, <2>5, <2>6, <2>7, <3>2, <3>3, <3>5
    <3> QED BY <3>4, <3>5
  <2>8. CASE e # d
    <3>1. Ended(e)' = Ended(e)
      BY <1>1, <1>6, <2>8 DEF Ended
    <3>2. LapNum(m, e, begun) = 0
      BY <1>4, <2>8 DEF LapNum
    <3> QED BY <2>2, <2>4, <2>5, <2>6, <3>1, <3>2
  <2> QED BY <2>7, <2>8
<1> QED BY <1>10, <1>11 DEF IInv

LEMMA MoveStep ==
  ASSUME IInv, TypeOK', NEW d \in Drivers, NEW x \in Positions, MoveTo(d, x)
  PROVE  IInv'
<1> DEFINE m == [driver |-> d, line |-> x]
<1>1. /\ progress \in [Drivers -> 0 .. 3 * MaxLaps] /\ begun \in [Drivers -> Nat] /\ queue \in Seq(Updates)
      /\ session \in Nat
  BY Parts
<1>2. m \in Updates /\ OfLine(m)
  BY DEF Updates, OfLine
<1>3. ~OfSectors(m) /\ ~OfSession(m)
  BY <1>2, UpdateKinds
<1>4. /\ Sends(m)
      /\ UNCHANGED <<session, progress, begun, connected, reply, gs, overtaken, sound, missed, kept>>
  BY DEF MoveTo
<1> HIDE DEF m
<1>5. \A v \in View(session) : v.key = session /\ v.prog = progress =>
        \E w \in View(session) : /\ w.key = session /\ w.prog = progress'
                                 /\ Follows(v, m, w, session, begun)
  BY <1>3, <1>4 DEF Follows
<1>6. \A e \in Drivers : progress[e] <= progress'[e]
  BY <1>1, <1>4, LapHistoryAssumption DEF LapHistoryAssumption
<1>7. SessionInv' /\ KeptInv' /\ SoundInv' /\ SnapshotInv' /\ StaleInv' /\ WholeInv'
  BY <1>2, <1>3, <1>4, <1>5, <1>6, FeedStep
<1>8. LapsInv'
  <2> SUFFICES ASSUME ~missed, NEW e \in Drivers
               PROVE  InOrder(LapNums(queue', e, begun), Saved(e), Ended(e))
    BY <1>4, SavedStays DEF LapsInv, Ended
  <2>1. InOrder(LapNums(queue, e, begun), Saved(e), Ended(e))
    BY DEF IInv, LapsInv
  <2>2. LapNums(queue, e, begun) \in Seq(Nat) /\ Saved(e) \in Nat /\ Ended(e) \in Nat
    BY <1>1, NumsTyped, Parts
  <2>3. LapNums(Append(queue, m), e, begun) = Append(LapNums(queue, e, begun), 0)
    BY <1>1, <1>2, <1>3, NumsAppend DEF LapNum
  <2>4. InOrder(Append(LapNums(queue, e, begun), 0), Saved(e), Ended(e))
    BY <2>1, <2>2, InOrderAppend
  <2> QED BY <1>4, <2>1, <2>3, <2>4 DEF Sends
<1> QED BY <1>7, <1>8 DEF IInv

\* The feed goes on to the next session.  Nothing that waits in the queue is of
\* a lap of that one.
LEMMA SessionStep ==
  ASSUME IInv, TypeOK', NextSession
  PROVE  IInv'
<1> DEFINE m == [info |-> session']
<1>1. /\ progress \in [Drivers -> 0 .. 3 * MaxLaps] /\ queue \in Seq(Updates)
      /\ session \in Nat /\ session > 0 /\ session' = session + 1 /\ session' \in Nat
      /\ session' \in 1 .. MaxSessions
      /\ begun' = [d \in Drivers |-> LapOf(progress[d])] /\ begun' \in [Drivers -> Nat]
      /\ UNCHANGED <<progress, connected, reply, gs, overtaken, sound, kept>> /\ ~missed'
  <2>1. begun' \in [Drivers -> Nat]
    BY LapHistoryAssumption DEF TypeOK, LapHistoryAssumption
  <2> QED BY <2>1, Parts DEF NextSession, TypeOK
<1>2. m \in Updates /\ OfSession(m) /\ m.info = session'
  BY <1>1 DEF Updates, OfSession
<1>3. ~OfSectors(m) /\ ~OfLine(m)
  BY <1>2, UpdateKinds
<1>4. /\ Len(queue) < MaxQueue
      /\ queue' = IF connected THEN Append(queue, m) ELSE queue
  BY DEF NextSession, Sends
<1> HIDE DEF m
<1>5. \A i \in 1 .. Len(queue) : OfSectors(queue[i]) =>
        /\ queue[i].driver \in Drivers /\ queue[i].sectors \in Nat
        /\ queue[i].sectors <= progress[queue[i].driver]
        /\ LapOf(queue[i].sectors) \in Nat
        /\ LapOf(queue[i].sectors) <= begun'[queue[i].driver]
  <2> SUFFICES ASSUME NEW i \in 1 .. Len(queue), OfSectors(queue[i])
               PROVE  /\ queue[i].driver \in Drivers /\ queue[i].sectors \in Nat
                      /\ queue[i].sectors <= progress[queue[i].driver]
                      /\ LapOf(queue[i].sectors) \in Nat
                      /\ LapOf(queue[i].sectors) <= begun'[queue[i].driver]
    OBVIOUS
  <2>1. queue[i] \in Updates
    BY <1>1, ElementOfSeq
  <2>2. /\ queue[i].driver \in Drivers /\ queue[i].sectors \in Nat
        /\ queue[i].sectors <= progress[queue[i].driver]
    BY <2>1, UpdateKinds, LapHistoryAssumption DEF IInv, SessionInv, LapHistoryAssumption
  <2>3. progress[queue[i].driver] \in Nat
    BY <1>1, <2>2, LapHistoryAssumption DEF LapHistoryAssumption
  <2> QED BY <1>1, <2>2, <2>3, LapsCover
<1>6. SessionInv'
  <2>1. /\ gs # Nil => gs.key \in 0 .. session'
        /\ reply # NoReply => reply.key \in 0 .. session'
    BY <1>1 DEF IInv, SessionInv
  <2>2. ASSUME NEW i \in 1 .. Len(queue')
        PROVE  /\ OfSession(queue'[i]) => queue'[i].info \in 1 .. session'
               /\ OfSectors(queue'[i]) => queue'[i].sectors <= progress[queue'[i].driver]
    <3>1. (i \in 1 .. Len(queue) /\ queue'[i] = queue[i]) \/ queue'[i] = m
      BY <1>1, <1>2, <1>4, <2>2, AppendProperties, LenProperties
    <3>2. CASE i \in 1 .. Len(queue) /\ queue'[i] = queue[i]
      BY <1>1, <3>2 DEF IInv, SessionInv
    <3>3. CASE queue'[i] = m
      BY <1>1, <1>2, <1>3, <3>3
    <3> QED BY <3>1, <3>2, <3>3
  <2> QED BY <1>1, <2>1, <2>2 DEF SessionInv
<1>7. gs # Nil => gs.key # session'
  BY <1>1 DEF IInv, SessionInv
<1>8. \A d \in Drivers : Saved(d)' = 0 /\ Ended(d)' = 0
  <2> SUFFICES ASSUME NEW d \in Drivers PROVE Saved(d)' = 0 /\ Ended(d)' = 0
    OBVIOUS
  <2>1. Saved(d)' = 0
    BY <1>1, <1>7 DEF Saved
  <2>2. progress[d] \in Nat
    BY <1>1, LapHistoryAssumption DEF LapHistoryAssumption
  <2>3. begun'[d] \in Nat /\ progress[d] <= 3 * begun'[d]
    BY <1>1, <2>2, LapsCover
  <2>4. ~(progress[d] > 3 * begun'[d])
    BY <2>2, <2>3
  <2> QED BY <1>1, <2>1, <2>4 DEF Ended
<1>9. KeptInv' /\ StaleInv' /\ WholeInv'
  BY <1>1, <1>8 DEF IInv, KeptInv, NoneKept, StaleInv, WholeInv
<1>10. ASSUME NEW lines, NEW v, connected, Replays(v, lines, queue, session, begun, progress)
       PROVE  \E u : Replays(u, lines, queue', session', begun', progress') /\ u[0] = v[0]
  <2> DEFINE w == [key |-> session', prog |-> progress]
  <2>1. w \in View(session') /\ w.key = session' /\ w.prog = progress
    BY <1>1 DEF View
  <2> HIDE DEF w
  <2>2. v \in [0 .. Len(queue) -> View(session)] /\ v[Len(queue)].prog = progress /\ Len(queue) \in Nat
    BY <1>1, <1>10, LenProperties DEF Replays
  <2>3. Follows(v[Len(queue)], m, w, session', begun')
    BY <1>2, <1>3, <2>1, <2>2 DEF Follows
  <2>4. Chain(v, queue, session', begun')
    <3> SUFFICES ASSUME NEW i \in 1 .. Len(queue)
                 PROVE  Follows(v[i - 1], queue[i], v[i], session', begun')
      BY DEF Chain
    <3>1. Follows(v[i - 1], queue[i], v[i], session, begun)
      BY <1>10 DEF Replays, Chain
    <3>2. v[i - 1] \in View(session)
      <4>1. i - 1 \in 0 .. Len(queue)
        BY <2>2
      <4> QED BY <2>2, <4>1
    <3>3. v[i - 1].key # session'
      BY <1>1, <3>2 DEF View
    <3>4. OfSectors(queue[i]) => ~(LapOf(queue[i].sectors) > begun'[queue[i].driver])
      BY <1>1, <1>5
    <3> QED BY <3>1, <3>3, <3>4 DEF Follows
  <2>5. PICK s, b : s = session' /\ b = begun'
    OBVIOUS
  <2>6. /\ w \in View(s) /\ w.key = s /\ s \in Nat /\ session <= s
        /\ Follows(v[Len(queue)], m, w, s, b) /\ Chain(v, queue, s, b)
    BY <1>1, <2>1, <2>3, <2>4, <2>5
  <2>7. \E u : Replays(u, lines, Append(queue, m), s, b, progress) /\ u[0] = v[0]
    BY <1>1, <1>2, <1>10, <2>1, <2>6, ReplaysAppend
  <2> QED BY <1>1, <1>4, <1>10, <2>5, <2>7
<1>11. SoundInv'
  <2> SUFFICES ASSUME sound PROVE SoundInv'
    BY <1>1 DEF SoundInv
  <2>1. connected /\ reply = NoReply /\ gs # Nil
    BY DEF IInv, SoundInv
  <2>2. PICK v : Replays(v, gs.lines, queue, session, begun, progress) /\ gs.key \in {v[0].key, 0}
    BY DEF IInv, SoundInv
  <2>3. PICK u : Replays(u, gs.lines, queue', session', begun', progress') /\ u[0] = v[0]
    BY <1>10, <2>1, <2>2
  <2>4. v[0].key # session'
    <3>1. 0 \in 0 .. Len(queue)
      BY <1>1, LenProperties
    <3>2. v[0] \in View(session)
      BY <2>2, <3>1 DEF Replays
    <3> QED BY <1>1, <3>2 DEF View
  <2> QED BY <1>1, <2>1, <2>2, <2>3, <2>4 DEF SoundInv
<1>12. SnapshotInv'
  <2> SUFFICES ASSUME connected, reply # NoReply, ~overtaken PROVE SnapshotInv'
    BY <1>1 DEF SnapshotInv
  <2>1. PICK v : Replays(v, reply.lines, queue, session, begun, progress) /\ reply.key \in {v[0].key, 0}
    BY DEF IInv, SnapshotInv
  <2>2. PICK u : Replays(u, reply.lines, queue', session', begun', progress') /\ u[0] = v[0]
    BY <1>10, <2>1
  <2> QED BY <1>1, <2>1, <2>2 DEF SnapshotInv
<1>13. LapsInv'
  <2> SUFFICES ASSUME NEW d \in Drivers
               PROVE  InOrder(LapNums(queue', d, begun'), 0, 0)
    BY <1>8 DEF LapsInv
  <2> DEFINE s == LapNums(queue, d, begun')
  <2>1. s \in Seq(Nat) /\ Len(s) = Len(queue)
    BY <1>1, NumsTyped
  <2>2. \A i \in 1 .. Len(s) : s[i] = 0
    <3>1. \A i \in 1 .. Len(queue) : LapNum(queue[i], d, begun') = 0
      BY <1>1, <1>5 DEF LapNum
    <3> QED BY <2>1, <3>1 DEF LapNums
  <2>3. InOrder(s, 0, 0)
    <3> HIDE DEF s
    <3> QED BY <2>1, <2>2, InOrderNone
  <2>4. LapNums(Append(queue, m), d, begun') = Append(s, 0)
    BY <1>1, <1>2, <1>3, NumsAppend DEF LapNum
  <2> HIDE DEF s
  <2>5. InOrder(Append(s, 0), 0, 0)
    BY <2>1, <2>3, InOrderAppend
  <2> QED BY <1>4, <2>3, <2>4, <2>5 DEF s
<1> QED BY <1>6, <1>9, <1>11, <1>12, <1>13 DEF IInv

\* The relay subscribes.
LEMMA SubscribeStep ==
  ASSUME IInv, TypeOK', Subscribe
  PROVE  IInv'
<1>1. PICK key \in {session, 0} :
        reply' = [key |-> key, lines |-> [d \in Drivers |-> FeedLine(d)], laps |-> NoLaps, start |-> line]
  BY DEF Subscribe
<1>2. /\ UNCHANGED <<session, progress, begun, queue, gs, sound, missed, kept>>
      /\ ~connected /\ overtaken' = (queue # <<>>)
      /\ session \in Nat /\ session > 0 /\ progress \in [Drivers -> 0 .. 3 * MaxLaps]
      /\ begun \in [Drivers -> Nat]
  BY Parts DEF Subscribe
<1>3. ~sound
  BY <1>2 DEF IInv, SoundInv
<1>4. SessionInv' /\ KeptInv' /\ StaleInv' /\ WholeInv'
  <2>1. SessionInv'
    BY <1>1, <1>2 DEF IInv, SessionInv
  <2>2. StaleInv'
    BY <1>1, <1>2 DEF StaleInv
  <2>3. KeptInv' /\ WholeInv'
    BY <1>2, SavedStays DEF IInv
  <2> QED BY <2>1, <2>2, <2>3
<1>5. SoundInv'
  BY <1>2, <1>3 DEF SoundInv
<1>6. LapsInv'
  BY <1>2 DEF IInv, LapsInv, Saved, Ended
<1>7. SnapshotInv'
  <2> SUFFICES ASSUME queue = <<>> PROVE SnapshotInv'
    BY <1>2 DEF SnapshotInv
  <2>1. PICK lines : lines = reply'.lines
    OBVIOUS
  <2>2. \A d \in Drivers : lines[d] = SectorsAt(progress[d])
    BY <1>1, <2>1 DEF FeedLine
  <2>3. PICK v : Replays(v, lines, <<>>, session, begun, progress) /\ v[0].key = session
    <3>1. /\ session \in Nat /\ session > 0 /\ begun \in [Drivers -> Nat]
          /\ progress \in [Drivers -> 0 .. 3 * MaxLaps]
      BY <1>2
    <3>2. Shows(lines, [key |-> session, prog |-> progress])
      BY <2>2 DEF Shows
    <3>3. \E v : Replays(v, lines, <<>>, session, begun, progress) /\ v[0].key = session
      BY <3>1, <3>2, ReplaysNothing
    <3> QED BY <3>3
  <2>4. Replays(v, reply'.lines, queue', session', begun', progress')
    BY <1>2, <2>1, <2>3
  <2> QED BY <1>1, <1>2, <2>3, <2>4 DEF SnapshotInv
<1> QED BY <1>4, <1>5, <1>6, <1>7 DEF IInv

\* The state after an update of each kind.
LEMMA StateAfter ==
  ASSUME TypeOK, HandleUpdate, gs # Nil, NEW m, m = Head(queue)
  PROVE  /\ m \in Updates /\ gs \in States /\ gs' \in States /\ gs' # Nil
         /\ OfSectors(m) => /\ gs'.key = gs.key /\ gs'.lines = LinesAfter(m)
                            /\ gs'.laps = LapsAfter(m) /\ gs'.start = gs.start /\ kept' = kept
         /\ OfLine(m) => /\ gs'.key = gs.key /\ gs'.lines = gs.lines
                         /\ gs'.laps = gs.laps /\ gs'.start = StartAfter(m) /\ kept' = kept
         /\ OfSession(m) => /\ gs'.key = m.info /\ gs'.lines = gs.lines
                            /\ gs'.laps = gs.laps /\ gs'.start = gs.start
                            /\ kept' = IF gs.key = m.info THEN kept ELSE [d \in Drivers |-> Len(gs.laps[d])]
<1>1. m \in Updates /\ gs \in States /\ queue # <<>>
  BY HeadTailProperties DEF HandleUpdate, TypeOK
<1>2. CASE OfSectors(m)
  <2>1. gs' = [gs EXCEPT !.lines = LinesAfter(m), !.laps = LapsAfter(m)] /\ kept' = kept
    BY <1>1, <1>2, UpdateKinds DEF HandleUpdate
  <2>2. LinesAfter(m) \in [Drivers -> Sectors] /\ LapsAfter(m) \in [Drivers -> Seq(Laps)]
    BY <1>1, <1>2, UpdateTyped
  <2> QED BY <1>1, <1>2, <2>1, <2>2, UpdateKinds, NilAssumption DEF States
<1>3. CASE OfLine(m)
  <2>1. gs' = [gs EXCEPT !.start = StartAfter(m)] /\ kept' = kept
    BY <1>1, <1>3, UpdateKinds DEF HandleUpdate
  <2>2. StartAfter(m) \in [Drivers -> Positions \cup {0}]
    BY <1>1, <1>3, UpdateTyped
  <2> QED BY <1>1, <1>3, <2>1, <2>2, UpdateKinds, NilAssumption DEF States
<1>4. CASE OfSession(m)
  <2>1. /\ gs' = [gs EXCEPT !.key = m.info]
        /\ kept' = IF gs.key = m.info THEN kept ELSE [d \in Drivers |-> Len(gs.laps[d])]
    BY <1>1, <1>4, UpdateKinds DEF HandleUpdate, WithInfo
  <2>2. m.info \in 0 .. MaxSessions
    BY <1>1, <1>4, UpdateKinds, LapHistoryAssumption DEF LapHistoryAssumption
  <2> QED BY <1>1, <1>4, <2>1, <2>2, UpdateKinds, NilAssumption DEF States
<1> QED BY <1>1, <1>2, <1>3, <1>4, UpdateKinds

\* A third sector saves a lap with the lap's own three times, if the line is
\* the one that it follows.
LEMMA LapSaved ==
  ASSUME TypeOK, HandleUpdate, gs # Nil, NEW m, m = Head(queue), OfSectors(m), SectorOf(m.sectors) = 3,
         NEW n \in 0 .. 3 * MaxLaps, gs.lines[m.driver] = SectorsAt(n), m.sectors = n + 1
  PROVE  /\ gs'.laps[m.driver] = Append(gs.laps[m.driver], CompletedLap(m))
         /\ CompletedLap(m) \in Laps
         /\ CompletedLap(m).sectors = Whole(LapOf(m.sectors))
<1> DEFINE d == m.driver
<1>1. /\ m \in Updates /\ d \in Drivers /\ m.sectors \in 1 .. 3 * MaxLaps
      /\ gs \in States /\ gs'.laps = LapsAfter(m)
  BY StateAfter, UpdateKinds
<1>2. n \in Nat /\ n + 1 > 0
  BY LapHistoryAssumption DEF LapHistoryAssumption
<1>3. gs.laps \in [Drivers -> Seq(Laps)]
  BY <1>1 DEF States
<1>4. Len(gs.lines[d]) = 3 /\ gs.lines[d] # <<>>
  <2>1. Len(SectorsAt(n)) = 3
    BY SectorsAtTyped
  <2>2. Len(<<>>) # 3
    OBVIOUS
  <2>3. SectorsAt(n) # <<>>
    BY <2>1, <2>2, Zenon
  <2> QED BY <2>1, <2>3
<1>5. CompletedLap(m).sectors = SectorsAt(n + 1)
  <2>1. Merged(SectorsAt(n), n + 1) = SectorsAt(n + 1)
    BY <1>2, MergedIsNext
  <2> QED BY <1>4, <2>1 DEF CompletedLap, UpdatedLine
<1>6. SectorsAt(n + 1) = Whole(LapOf(n + 1))
  BY <1>2 DEF SectorsAt, Whole
<1>7. CompletedLap(m) \in Laps
  <2>1. queue # <<>>
    BY DEF HandleUpdate
  <2> QED BY <2>1, UpdateTyped
<1>8. gs'.laps[d] = Append(gs.laps[d], CompletedLap(m))
  BY <1>1, <1>3, <1>4 DEF LapsAfter, SavesLap
<1> QED BY <1>5, <1>6, <1>7, <1>8

\* What a sound state is when the next update is handled.
LEMMA SoundBefore ==
  ASSUME IInv, HandleUpdate, sound, NEW m, m = Head(queue)
  PROVE  \E v : /\ Replays(v, gs.lines, queue, session, begun, progress)
                /\ v[0] \in View(session) /\ v[1] \in View(session)
                /\ Shows(gs.lines, v[0])
                /\ Follows(v[0], m, v[1], session, begun)
                /\ gs.key \in {v[0].key, 0}
                /\ (missed \/ v[0].key # session \/ gs.key = session)
<1>1. PICK v : /\ Replays(v, gs.lines, queue, session, begun, progress)
               /\ gs.key \in {v[0].key, 0}
               /\ (missed \/ v[0].key # session \/ gs.key = session)
  BY DEF IInv, SoundInv
<1>2. queue \in Seq(Updates) /\ queue # <<>> /\ session \in Nat
  BY Parts DEF HandleUpdate
<1>3. /\ v[0] \in View(session) /\ v[1] \in View(session) /\ Shows(gs.lines, v[0])
      /\ Follows(v[0], m, v[1], session, begun)
  BY <1>1, <1>2, ReplaysHead
<1> QED BY <1>1, <1>3

\* In a sound state every third sector saves its lap.
LEMMA SavedInSound ==
  ASSUME IInv, HandleUpdate, sound, NEW m, m = Head(queue), OfSectors(m), SectorOf(m.sectors) = 3
  PROVE  /\ gs # Nil /\ m.driver \in Drivers
         /\ gs'.laps[m.driver] = Append(gs.laps[m.driver], CompletedLap(m))
         /\ CompletedLap(m) \in Laps
         /\ CompletedLap(m).sectors = Whole(LapOf(m.sectors))
         /\ LapOf(m.sectors) > begun[m.driver] /\ ~missed => gs.key = session
         /\ ~(LapOf(m.sectors) > begun[m.driver]) => gs.key # session
<1>1. gs # Nil /\ TypeOK /\ session \in Nat /\ session > 0
  BY Parts DEF IInv, SoundInv
<1>2. m \in Updates /\ m.driver \in Drivers /\ m.sectors \in 1 .. 3 * MaxLaps
  BY <1>1, StateAfter, UpdateKinds
<1>3. PICK v : /\ v[0] \in View(session)
               /\ Shows(gs.lines, v[0])
               /\ Follows(v[0], m, v[1], session, begun)
               /\ gs.key \in {v[0].key, 0}
               /\ (missed \/ v[0].key # session \/ gs.key = session)
  BY SoundBefore
<1>4. PICK n : n = v[0].prog[m.driver]
  OBVIOUS
<1>5. n \in 0 .. 3 * MaxLaps /\ gs.lines[m.driver] = SectorsAt(n)
  BY <1>2, <1>3, <1>4 DEF View, Shows
<1>6. m.sectors = n + 1
  BY <1>3, <1>4 DEF Follows
<1>7. (LapOf(m.sectors) > begun[m.driver]) <=> (v[0].key = session)
  BY <1>3 DEF Follows
<1>8. /\ gs'.laps[m.driver] = Append(gs.laps[m.driver], CompletedLap(m))
      /\ CompletedLap(m) \in Laps
      /\ CompletedLap(m).sectors = Whole(LapOf(m.sectors))
  BY <1>1, <1>5, <1>6, LapSaved
<1>9. LapOf(m.sectors) > begun[m.driver] /\ ~missed => gs.key = session
  BY <1>3, <1>7
<1>10. ~(LapOf(m.sectors) > begun[m.driver]) => gs.key # session
  BY <1>1, <1>3, <1>7
<1> QED BY <1>1, <1>2, <1>8, <1>9, <1>10

\* The laps of driver e after an update, if no lap was missed.
LEMMA SavedAfter ==
  ASSUME IInv, TypeOK', KeptInv', HandleUpdate, ~missed', NEW m, m = Head(queue), NEW e \in Drivers
  PROVE  \/ /\ LapNum(m, e, begun) = 0 /\ Saved(e)' = Saved(e)
            /\ Saved(e) # 0 => gs'.laps[e] = gs.laps[e] /\ kept'[e] = kept[e]
         \/ /\ LapNum(m, e, begun) = LapOf(m.sectors) - begun[e] /\ LapNum(m, e, begun) # 0
            /\ Saved(e)' = Saved(e) + 1 /\ gs # Nil /\ gs.key = session
            /\ reply = NoReply /\ kept'[e] = kept[e]
            /\ gs'.laps[e] = Append(gs.laps[e], CompletedLap(m)) /\ CompletedLap(m) \in Laps
            /\ CompletedLap(m).sectors = Whole(LapOf(m.sectors))
<1>1. /\ queue \in Seq(Updates) /\ queue # <<>> /\ m \in Updates /\ session \in Nat /\ TypeOK /\ KeptInv
      /\ session' = session /\ begun[e] \in Nat /\ ~missed
  BY Parts, HeadTailProperties DEF HandleUpdate, feedVars
<1>2. CASE gs = Nil
  <2>1. gs' = Nil
    BY <1>2 DEF HandleUpdate
  <2>2. Saved(e) = 0 /\ Saved(e)' = 0
    BY <1>2, <2>1 DEF Saved
  <2>3. ~sound
    BY <1>2 DEF IInv, SoundInv
  <2>4. LapNum(m, e, begun) = 0
    BY <1>1, <2>3, UpdateKinds DEF HandleUpdate, LapNum
  <2> QED BY <2>2, <2>4
<1>3. CASE gs # Nil /\ OfSectors(m) /\ m.driver = e /\ SectorOf(m.sectors) = 3
  <2>1. sound /\ reply = NoReply
    BY <1>1, <1>3, UpdateKinds DEF HandleUpdate
  <2>2. /\ gs'.laps[e] = Append(gs.laps[e], CompletedLap(m)) /\ CompletedLap(m) \in Laps
        /\ CompletedLap(m).sectors = Whole(LapOf(m.sectors))
        /\ LapOf(m.sectors) > begun[e] => gs.key = session
        /\ ~(LapOf(m.sectors) > begun[e]) => gs.key # session
    BY <1>1, <1>3, <2>1, SavedInSound
  <2>3. gs \in States /\ gs' # Nil /\ gs'.key = gs.key /\ kept' = kept
    BY <1>1, <1>3, StateAfter
  <2>4. LapOf(m.sectors) \in Nat
    BY <1>1, <1>3, UpdateKinds, SectorBounded
  <2>5. CASE LapOf(m.sectors) > begun[e]
    <3>1. LapNum(m, e, begun) = LapOf(m.sectors) - begun[e] /\ LapNum(m, e, begun) # 0
      BY <1>1, <1>3, <2>4, <2>5 DEF LapNum
    <3>2. gs.laps[e] \in Seq(Laps)
      BY <2>3 DEF States
    <3>3. Len(gs'.laps[e]) = Len(gs.laps[e]) + 1 /\ Len(gs.laps[e]) \in Nat
      BY <2>2, <3>2, AppendProperties, LenProperties
    <3>4. Saved(e) = Len(gs.laps[e]) - kept[e] /\ Saved(e)' = Len(gs'.laps[e]) - kept[e]
      BY <1>1, <1>3, <2>2, <2>3, <2>5 DEF Saved
    <3>5. kept[e] \in Nat
      BY <1>1 DEF TypeOK
    <3>6. Saved(e)' = Saved(e) + 1
      BY <3>3, <3>4, <3>5
    <3> QED BY <1>3, <2>1, <2>2, <2>3, <2>5, <3>1, <3>6
  <2>6. CASE ~(LapOf(m.sectors) > begun[e])
    <3>1. LapNum(m, e, begun) = 0
      BY <2>6, <1>3 DEF LapNum
    <3>2. Saved(e) = 0 /\ Saved(e)' = 0
      BY <1>1, <2>2, <2>3, <2>6 DEF Saved
    <3> QED BY <3>1, <3>2
  <2> QED BY <2>5, <2>6
<1>4. CASE gs # Nil /\ ~(OfSectors(m) /\ m.driver = e /\ SectorOf(m.sectors) = 3) /\ ~OfSession(m)
  <2>1. LapNum(m, e, begun) = 0
    BY <1>4 DEF LapNum
  <2>2. /\ gs \in States /\ gs' # Nil /\ gs'.key = gs.key /\ kept' = kept
        /\ gs'.laps = IF OfSectors(m) THEN LapsAfter(m) ELSE gs.laps
    BY <1>1, <1>4, StateAfter, UpdateKinds
  <2>3. gs'.laps[e] = gs.laps[e]
    BY <1>4, <2>2 DEF LapsAfter, SavesLap, States
  <2>4. Saved(e)' = Saved(e)
    BY <1>1, <1>4, <2>2, <2>3 DEF Saved
  <2> QED BY <2>1, <2>2, <2>3, <2>4
<1>5. CASE gs # Nil /\ OfSession(m)
  <2>1. LapNum(m, e, begun) = 0
    BY <1>1, <1>5, UpdateKinds DEF LapNum
  <2>2. /\ gs' # Nil /\ gs'.key = m.info /\ gs'.laps = gs.laps
        /\ kept' = IF gs.key = m.info THEN kept ELSE [d \in Drivers |-> Len(gs.laps[d])]
    BY <1>1, <1>5, StateAfter
  <2>3. CASE gs.key = m.info
    BY <1>1, <1>5, <2>1, <2>2, <2>3 DEF Saved
  <2>4. CASE gs.key # m.info
    <3>1. gs.key # session
      BY <1>1, <1>5, <2>4, UpdateKinds DEF HandleUpdate
    <3>2. Saved(e) = 0
      BY <3>1 DEF Saved
    <3>3. gs \in States
      BY <1>1, <1>5, StateAfter
    <3>4. Len(gs.laps[e]) \in Nat /\ Len(gs'.laps[e]) - kept'[e] = 0
      BY <2>2, <2>4, <3>3, LenProperties DEF States
    <3>5. Saved(e)' = 0
      BY <1>1, <3>4 DEF Saved
    <3> QED BY <2>1, <3>2, <3>5
  <2> QED BY <2>3, <2>4
<1> QED BY <1>2, <1>3, <1>4, <1>5

\* The relay handles an update.
LEMMA UpdateStep ==
  ASSUME IInv, TypeOK', HandleUpdate
  PROVE  IInv'
<1>1. PICK m : m = Head(queue)
  OBVIOUS
<1>2. /\ queue \in Seq(Updates) /\ queue # <<>> /\ queue' = Tail(queue) /\ m \in Updates
      /\ UNCHANGED <<session, progress, begun, connected, reply, sound>>
      /\ TypeOK /\ KeptInv /\ overtaken' = (overtaken \/ reply # NoReply)
      /\ session \in Nat /\ session > 0 /\ begun \in [Drivers -> Nat]
      /\ missed \in BOOLEAN /\ (missed => missed')
  BY <1>1, Parts, HeadTailProperties DEF HandleUpdate, feedVars
<1>3. /\ \A i \in 1 .. Len(Tail(queue)) : i + 1 \in 1 .. Len(queue) /\ Tail(queue)[i] = queue[i + 1]
      /\ 1 \in 1 .. Len(queue) /\ m = queue[1]
  <2>1. /\ Len(Tail(queue)) = Len(queue) - 1 /\ Len(queue) \in Nat /\ Len(queue) > 0
        /\ \A i \in 1 .. Len(Tail(queue)) : Tail(queue)[i] = queue[i + 1]
        /\ m = queue[1]
    BY <1>1, <1>2, HeadTailProperties, LenProperties
  <2> QED BY <2>1
<1>4. SessionInv'
  <2>1. OfSession(m) => m.info \in 1 .. session
    BY <1>3 DEF IInv, SessionInv
  <2>2. gs' # Nil => gs'.key \in 0 .. session
    <3>1. CASE gs = Nil
      BY <3>1 DEF HandleUpdate
    <3>2. CASE gs # Nil
      <4>1. gs'.key = gs.key \/ (OfSession(m) /\ gs'.key = m.info)
        BY <1>1, <1>2, <3>2, StateAfter, UpdateKinds
      <4> QED BY <1>2, <2>1, <3>2, <4>1 DEF IInv, SessionInv
    <3> QED BY <3>1, <3>2
  <2>3. \A i \in 1 .. Len(Tail(queue)) :
          /\ OfSession(Tail(queue)[i]) => Tail(queue)[i].info \in 1 .. session
          /\ OfSectors(Tail(queue)[i]) => Tail(queue)[i].sectors <= progress[Tail(queue)[i].driver]
    BY <1>3 DEF IInv, SessionInv
  <2> QED BY <1>2, <2>2, <2>3 DEF IInv, SessionInv
<1>5. KeptInv'
  <2>1. CASE gs = Nil
    BY <1>2, <2>1 DEF HandleUpdate, KeptInv
  <2>2. CASE gs # Nil
    <3> SUFFICES ASSUME NEW e \in Drivers PROVE kept'[e] <= Len(gs'.laps[e])
      BY <1>1, <1>2, <2>2, StateAfter DEF KeptInv
    <3>1. gs \in States /\ kept[e] \in Nat /\ kept[e] <= Len(gs.laps[e])
      BY <1>2, <2>2 DEF TypeOK, KeptInv
    <3>2. gs.laps[e] \in Seq(Laps) /\ Len(gs.laps[e]) \in Nat
      BY <3>1, LenProperties DEF States
    <3>3. CASE OfSectors(m)
      <4>1. kept' = kept /\ gs'.laps = LapsAfter(m) /\ CompletedLap(m) \in Laps
        BY <1>1, <1>2, <2>2, <3>3, StateAfter, UpdateTyped
      <4>2. gs'.laps[e] = gs.laps[e] \/ gs'.laps[e] = Append(gs.laps[e], CompletedLap(m))
        BY <3>1, <4>1 DEF LapsAfter, States
      <4>3. Len(gs'.laps[e]) = Len(gs.laps[e]) \/ Len(gs'.laps[e]) = Len(gs.laps[e]) + 1
        BY <3>2, <4>1, <4>2, AppendProperties
      <4> QED BY <3>1, <3>2, <4>1, <4>3
    <3>4. CASE OfLine(m)
      BY <1>1, <1>2, <2>2, <3>1, <3>4, StateAfter
    <3>5. CASE OfSession(m)
      <4>1. /\ gs'.laps = gs.laps
            /\ kept' = IF gs.key = m.info THEN kept ELSE [d \in Drivers |-> Len(gs.laps[d])]
        BY <1>1, <1>2, <2>2, <3>5, StateAfter
      <4> QED BY <3>1, <3>2, <4>1
    <3> QED BY <1>2, <3>3, <3>4, <3>5, UpdateKinds
  <2> QED BY <2>1, <2>2
<1>6. SoundInv'
  <2> SUFFICES ASSUME sound PROVE SoundInv'
    BY <1>2 DEF SoundInv
  <2>1. connected /\ reply = NoReply /\ gs # Nil
    BY DEF IInv, SoundInv
  <2>2. PICK v : /\ Replays(v, gs.lines, queue, session, begun, progress)
                 /\ v[0] \in View(session) /\ v[1] \in View(session)
                 /\ Shows(gs.lines, v[0])
                 /\ Follows(v[0], m, v[1], session, begun)
                 /\ gs.key \in {v[0].key, 0}
                 /\ (missed \/ v[0].key # session \/ gs.key = session)
    BY <1>1, SoundBefore
  <2>4. gs \in States /\ gs.lines \in [Drivers -> Sectors]
    BY <1>2, <2>1 DEF TypeOK, States
  <2>5. /\ OfSectors(m) => Shows([gs.lines EXCEPT ![m.driver] = Merged(gs.lines[m.driver], m.sectors)], v[1])
        /\ ~OfSectors(m) => Shows(gs.lines, v[1])
    BY <1>2, <2>2, <2>4, LinesFollow
  <2>6. gs'.lines = IF OfSectors(m) THEN LinesAfter(m) ELSE gs.lines
    BY <1>1, <1>2, <2>1, StateAfter, UpdateKinds
  <2>7. Shows(gs'.lines, v[1])
    BY <2>5, <2>6 DEF LinesAfter, UpdatedLine
  <2>8. \E u : Replays(u, gs'.lines, Tail(queue), session, begun, progress) /\ At(u, 0, v[1])
    <3>1. PICK new, w : new = gs'.lines /\ w = v[1]
      OBVIOUS
    <3>2. At(v, 1, w) /\ Shows(new, w)
      BY <2>7, <3>1 DEF At
    <3>3. \E u : Replays(u, new, Tail(queue), session, begun, progress) /\ At(u, 0, w)
      BY <1>2, <2>2, <3>2, ReplaysTail
    <3> QED BY <3>1, <3>3
  <2>9. gs' # Nil /\ gs'.key \in {v[1].key, 0} /\ (missed' \/ v[1].key # session \/ gs'.key = session)
    <3>1. CASE OfSession(m)
      BY <1>1, <1>2, <2>1, <2>2, <3>1, StateAfter DEF Follows
    <3>2. CASE OfSectors(m) \/ OfLine(m)
      <4>1. gs' # Nil /\ gs'.key = gs.key
        BY <1>1, <1>2, <2>1, <3>2, StateAfter
      <4>2. v[1].key = v[0].key
        BY <2>2, <3>2 DEF Follows
      <4> QED BY <1>2, <2>2, <4>1, <4>2
    <3> QED BY <1>2, <3>1, <3>2, UpdateKinds
  <2> QED BY <1>2, <2>1, <2>8, <2>9 DEF SoundInv, At
<1>7. SnapshotInv'
  BY <1>2 DEF SnapshotInv
<1>8. ASSUME ~missed', NEW e \in Drivers
      PROVE  /\ reply # NoReply => Saved(e)' = Saved(e)
             /\ InOrder(LapNums(Tail(queue), e, begun), Saved(e)', Ended(e))
             /\ \A i \in 1 .. Saved(e)' : gs'.laps[e][kept'[e] + i].sectors = Whole(begun[e] + i)
  <2>1. /\ LapNums(queue, e, begun) # <<>> /\ Head(LapNums(queue, e, begun)) = LapNum(m, e, begun)
        /\ Tail(LapNums(queue, e, begun)) = LapNums(Tail(queue), e, begun)
    BY <1>1, <1>2, NumsTail
  <2>2. LapNums(queue, e, begun) \in Seq(Nat) /\ Saved(e) \in Nat /\ Ended(e) \in Nat
    BY <1>2, NumsTyped, Parts
  <2>3. InOrder(LapNums(queue, e, begun), Saved(e), Ended(e))
    BY <1>2, <1>8 DEF IInv, LapsInv
  <2>4. /\ LapNum(m, e, begun) = 0 => InOrder(LapNums(Tail(queue), e, begun), Saved(e), Ended(e))
        /\ LapNum(m, e, begun) # 0 => /\ LapNum(m, e, begun) = Saved(e) + 1
                                      /\ InOrder(LapNums(Tail(queue), e, begun), Saved(e) + 1, Ended(e))
    BY <2>1, <2>2, <2>3, InOrderTail
  <2>5. \A i \in 1 .. Saved(e) : gs.laps[e][kept[e] + i].sectors = Whole(begun[e] + i)
    BY <1>2, <1>8 DEF IInv, WholeInv
  <2>6. CASE /\ LapNum(m, e, begun) = 0 /\ Saved(e)' = Saved(e)
             /\ Saved(e) # 0 => gs'.laps[e] = gs.laps[e] /\ kept'[e] = kept[e]
    <3>1. CASE Saved(e) = 0
      BY <2>4, <2>6, <3>1
    <3>2. CASE Saved(e) # 0
      BY <2>4, <2>5, <2>6, <3>2
    <3> QED BY <3>1, <3>2
  <2>7. CASE /\ LapNum(m, e, begun) = LapOf(m.sectors) - begun[e] /\ LapNum(m, e, begun) # 0
             /\ Saved(e)' = Saved(e) + 1 /\ gs # Nil /\ gs.key = session
             /\ reply = NoReply /\ kept'[e] = kept[e]
             /\ gs'.laps[e] = Append(gs.laps[e], CompletedLap(m)) /\ CompletedLap(m) \in Laps
             /\ CompletedLap(m).sectors = Whole(LapOf(m.sectors))
    <3>1. gs.laps[e] \in Seq(Laps) /\ kept[e] \in Nat /\ kept[e] <= Len(gs.laps[e]) /\ begun[e] \in Nat
      BY <1>2, <2>7 DEF TypeOK, States, KeptInv
    <3>2. PICK n : n = Len(gs.laps[e])
      OBVIOUS
    <3>3. /\ n \in Nat /\ \A i \in 1 .. n : gs'.laps[e][i] = gs.laps[e][i]
          /\ gs'.laps[e][n + 1] = CompletedLap(m)
      BY <2>7, <3>1, <3>2, AppendProperties, LenProperties
    <3>4. Saved(e) = n - kept[e]
      BY <2>7, <3>2 DEF Saved
    <3>5. PICK k, s, b : k = kept[e] /\ s = Saved(e) /\ b = begun[e]
      OBVIOUS
    <3>6. k \in Nat /\ s \in Nat /\ b \in Nat /\ s = n - k /\ Saved(e)' = s + 1 /\ kept'[e] = k
      BY <2>2, <2>7, <3>1, <3>4, <3>5
    <3>7. ASSUME NEW i \in 1 .. s + 1 PROVE gs'.laps[e][k + i].sectors = Whole(b + i)
      <4>1. CASE i \in 1 .. s
        <5>1. k + i \in 1 .. n
          BY <3>3, <3>6, <4>1
        <5>2. gs.laps[e][k + i].sectors = Whole(b + i)
          BY <2>5, <3>5, <4>1
        <5> QED BY <3>3, <5>1, <5>2
      <4>2. CASE i = s + 1
        <5>1. k + i = n + 1
          BY <3>3, <3>6, <4>2
        <5>2. LapOf(m.sectors) - b = s + 1
          BY <2>4, <2>7, <3>5
        <5>3. LapOf(m.sectors) \in Nat
          BY <1>2, <2>7, UpdateKinds, SectorBounded DEF LapNum
        <5>4. LapOf(m.sectors) = b + i
          BY <3>6, <4>2, <5>2, <5>3
        <5> QED BY <2>7, <3>3, <5>1, <5>4
      <4> QED BY <3>6, <4>1, <4>2
    <3> QED BY <2>4, <2>7, <3>5, <3>6, <3>7
  <2> QED BY <1>1, <1>5, <1>8, <2>6, <2>7, SavedAfter
<1>9. StaleInv' /\ LapsInv' /\ WholeInv'
  <2>1. StaleInv'
    BY <1>2, <1>8 DEF IInv, StaleInv
  <2>2. LapsInv'
    BY <1>2, <1>8 DEF LapsInv, Ended
  <2>3. WholeInv'
    BY <1>2, <1>8 DEF WholeInv
  <2> QED BY <2>1, <2>2, <2>3
<1> QED BY <1>4, <1>5, <1>6, <1>7, <1>9 DEF IInv

\* The relay handles a reply.
LEMMA ReplyStep ==
  ASSUME IInv, TypeOK', HandleReply
  PROVE  IInv'
<1>1. /\ reply \in States /\ reply # NoReply /\ reply' = NoReply
      /\ UNCHANGED <<session, progress, begun, connected, queue, overtaken>>
      /\ sound' = (connected /\ ~overtaken)
      /\ missed' = (missed \/ reply.key = 0) /\ missed \in BOOLEAN
      /\ kept' = IF SameSession THEN kept ELSE NoneKept
      /\ TypeOK /\ KeptInv /\ session \in Nat /\ session > 0
  BY Parts DEF HandleReply, feedVars, TypeOK
<1>2. /\ gs' \in States /\ gs' # Nil
      /\ gs'.key = reply.key /\ gs'.lines = reply.lines /\ gs'.laps = CarriedLaps
  <2>1. CarriedLaps \in [Drivers -> Seq(Laps)]
    BY <1>1, EmptySeq DEF CarriedLaps, SameSession, NoLaps, TypeOK, States
  <2>2. CarriedStart \in [Drivers -> Positions \cup {0}]
    BY <1>1 DEF CarriedStart, SameSession, TypeOK, States
  <2> QED BY <1>1, <2>1, <2>2, NilAssumption DEF HandleReply, States
<1>3. SessionInv'
  BY <1>1, <1>2 DEF IInv, SessionInv
<1>4. KeptInv'
  <2>1. CASE SameSession
    BY <1>1, <1>2, <2>1 DEF KeptInv, CarriedLaps, SameSession
  <2>2. CASE ~SameSession
    <3>1. \A d \in Drivers : kept'[d] = 0 /\ Len(gs'.laps[d]) = 0
      BY <1>1, <1>2, <2>2, EmptySeq DEF NoneKept, CarriedLaps, NoLaps
    <3> QED BY <1>2, <3>1 DEF KeptInv
  <2> QED BY <2>1, <2>2
<1>5. SoundInv'
  <2> SUFFICES ASSUME connected, ~overtaken PROVE SoundInv'
    BY <1>1 DEF SoundInv
  <2>1. PICK v : /\ Replays(v, reply.lines, queue, session, begun, progress)
                 /\ reply.key \in {v[0].key, 0}
    BY <1>1 DEF IInv, SnapshotInv
  <2>2. missed' \/ v[0].key # session \/ gs'.key = session
    BY <1>1, <1>2, <2>1
  <2>3. Replays(v, gs'.lines, queue, session, begun, progress) /\ gs'.key \in {v[0].key, 0}
    BY <1>2, <2>1
  <2> QED BY <1>1, <1>2, <2>2, <2>3 DEF SoundInv
<1>6. SnapshotInv' /\ StaleInv'
  BY <1>1 DEF SnapshotInv, StaleInv
<1>7. ASSUME ~missed', NEW d \in Drivers
      PROVE  /\ Saved(d)' = Saved(d)
             /\ Saved(d) # 0 => gs'.laps[d] = gs.laps[d] /\ kept'[d] = kept[d]
  <2>1. ~missed /\ reply.key # 0
    BY <1>1, <1>7
  <2>2. CASE reply.key # session
    <3>1. Saved(d) = 0
      BY <1>1, <2>1, <2>2 DEF IInv, StaleInv
    <3>2. Saved(d)' = 0
      BY <1>1, <1>2, <2>2 DEF Saved
    <3> QED BY <3>1, <3>2
  <2>3. CASE reply.key = session /\ SameSession
    <3>1. gs # Nil /\ gs.key = session /\ gs'.laps = gs.laps /\ kept' = kept
      BY <1>1, <1>2, <2>3 DEF SameSession, CarriedLaps
    <3> QED BY <1>1, <1>2, <2>3, <3>1 DEF Saved
  <2>4. CASE reply.key = session /\ ~SameSession
    <3>1. Saved(d) = 0
      BY <2>4 DEF Saved, SameSession
    <3>2. kept'[d] = 0 /\ Len(gs'.laps[d]) = 0
      BY <1>1, <1>2, <2>4, EmptySeq DEF NoneKept, CarriedLaps, NoLaps
    <3>3. Saved(d)' = 0
      BY <3>2 DEF Saved
    <3> QED BY <3>1, <3>3
  <2> QED BY <2>2, <2>3, <2>4
<1>8. LapsInv'
  <2> SUFFICES ASSUME ~missed', NEW d \in Drivers
               PROVE  InOrder(LapNums(queue, d, begun), Saved(d)', Ended(d))
    BY <1>1 DEF LapsInv, Ended
  <2>1. ~missed
    BY <1>1
  <2> QED BY <1>7, <2>1 DEF IInv, LapsInv
<1>9. WholeInv'
  <2> SUFFICES ASSUME ~missed', NEW d \in Drivers, NEW i \in 1 .. Saved(d)'
               PROVE  gs'.laps[d][kept'[d] + i].sectors = Whole(begun[d] + i)
    BY <1>1 DEF WholeInv
  <2>1. ~missed /\ i \in 1 .. Saved(d) /\ Saved(d) # 0
    BY <1>1, <1>7, Parts
  <2> QED BY <1>7, <2>1 DEF IInv, WholeInv
<1> QED BY <1>3, <1>4, <1>5, <1>6, <1>8, <1>9 DEF IInv

LEMMA IInvStep == IInv /\ [Next]_vars => IInv'
<1> SUFFICES ASSUME IInv, [Next]_vars PROVE IInv'
  OBVIOUS
<1>t. TypeOK /\ TypeOK' /\ session \in Nat /\ session > 0
  BY TypeStep, Parts
<1>1. ASSUME NEW d \in Drivers, CompleteSector(d) PROVE IInv'
  BY <1>t, <1>1, SectorStep
<1>2. ASSUME NEW d \in Drivers, NEW p \in Positions, MoveTo(d, p) PROVE IInv'
  BY <1>t, <1>2, MoveStep
<1>3. CASE NextSession
  BY <1>t, <1>3, SessionStep
<1>4. CASE Subscribe
  BY <1>t, <1>4, SubscribeStep
<1>5. CASE Disconnect
  <2>1. /\ UNCHANGED <<session, progress, begun, queue, reply, gs, missed, kept>>
        /\ ~connected' /\ ~sound'
    BY <1>5 DEF Disconnect
  <2>2. KeptInv' /\ WholeInv' /\ \A d \in Drivers : Saved(d)' = Saved(d)
    BY <2>1, SavedStays DEF IInv
  <2>3. SessionInv' /\ SoundInv' /\ SnapshotInv' /\ StaleInv'
    BY <2>1, <2>2 DEF IInv, SessionInv, SoundInv, SnapshotInv, StaleInv
  <2>4. LapsInv'
    BY <2>1, <2>2 DEF IInv, LapsInv, Ended
  <2> QED BY <1>t, <2>2, <2>3, <2>4 DEF IInv
<1>6. CASE HandleUpdate
  BY <1>t, <1>6, UpdateStep
<1>7. CASE HandleReply
  BY <1>t, <1>7, ReplyStep
<1>8. CASE ReplyUnparsable
  <2>1. /\ UNCHANGED <<session, progress, queue>> /\ gs' = Nil /\ reply' = NoReply
        /\ ~sound' /\ missed' /\ kept' = NoneKept
    BY <1>8 DEF ReplyUnparsable, feedVars
  <2>2. SessionInv' /\ KeptInv' /\ SoundInv' /\ SnapshotInv' /\ StaleInv' /\ LapsInv' /\ WholeInv'
    BY <2>1 DEF IInv, SessionInv, KeptInv, NoneKept, SoundInv, SnapshotInv, StaleInv, LapsInv, WholeInv
  <2> QED BY <1>t, <2>2 DEF IInv
<1>9. CASE BrowserConnects
  <2>1. /\ UNCHANGED <<session, progress, begun, connected, queue, reply, overtaken, sound, missed, kept>>
        /\ gs = Nil /\ gs' = EmptyState /\ gs' # Nil /\ gs'.key = 0
    BY <1>9, EmptyTyped DEF BrowserConnects, feedVars, EmptyState
  <2>2. \A d \in Drivers : Saved(d) = 0 /\ Saved(d)' = 0
    BY <1>t, <2>1 DEF Saved
  <2>3. KeptInv'
    <3>1. \A d \in Drivers : kept'[d] = 0 /\ Len(gs'.laps[d]) = 0
      BY <2>1, EmptySeq DEF IInv, KeptInv, NoneKept, EmptyState, NoLaps
    <3> QED BY <2>1, <3>1 DEF KeptInv
  <2>4. ~sound
    BY <2>1 DEF IInv, SoundInv
  <2>5. SessionInv' /\ SoundInv' /\ SnapshotInv' /\ StaleInv' /\ WholeInv'
    BY <1>t, <2>1, <2>2, <2>4 DEF IInv, SessionInv, SoundInv, SnapshotInv, StaleInv, WholeInv
  <2>6. LapsInv'
    BY <2>1, <2>2 DEF IInv, LapsInv, Ended
  <2> QED BY <1>t, <2>3, <2>5, <2>6 DEF IInv
<1>10. CASE UNCHANGED vars
  <2>1. UNCHANGED <<session, progress, begun, connected, queue, reply, gs, overtaken, sound, missed, kept>>
    BY <1>10 DEF vars
  <2>2. KeptInv' /\ WholeInv' /\ \A d \in Drivers : Saved(d)' = Saved(d)
    BY <2>1, SavedStays DEF IInv
  <2>3. SessionInv' /\ SoundInv' /\ SnapshotInv' /\ StaleInv'
    BY <2>1, <2>2 DEF IInv, SessionInv, SoundInv, SnapshotInv, StaleInv
  <2>4. LapsInv'
    BY <2>1, <2>2 DEF IInv, LapsInv, Ended
  <2> QED BY <1>t, <2>2, <2>3, <2>4 DEF IInv
<1> QED BY <1>1, <1>2, <1>3, <1>4, <1>5, <1>6, <1>7, <1>8, <1>9, <1>10 DEF Next

-----------------------------------------------------------------------------
(* The theorems. *)

\* When the relay has handled all it received since a snapshot that nothing
\* overtook, every driver's line is the feed's.
THEOREM StateFollows == Spec => []StateTracksFeed
<1>1. IInv => StateTracksFeed
  <2> SUFFICES ASSUME IInv, sound, queue = <<>>
               PROVE  gs.key \in {session, 0} /\ \A d \in Drivers : gs.lines[d] = FeedLine(d)
    BY DEF StateTracksFeed
  <2>1. PICK v : Replays(v, gs.lines, queue, session, begun, progress) /\ gs.key \in {v[0].key, 0}
    BY DEF IInv, SoundInv
  <2>2. Len(queue) = 0
    BY EmptySeq
  <2>3. v[0].key = session /\ v[0].prog = progress /\ Shows(gs.lines, v[0])
    BY <2>1, <2>2 DEF Replays
  <2> QED BY <2>1, <2>3 DEF Shows, FeedLine
<1> QED BY IInvInit, IInvStep, <1>1, PTL DEF Spec

\* If no lap of the session was missed, the history has, after what was kept of
\* earlier sessions, exactly the laps that each driver has completed in this
\* one, in order and each with its own three times, over every reconnection and
\* every session that begins on a live connection.
THEOREM LapsAreComplete == Spec => []LapsComplete
<1>1. IInv => LapsComplete
  <2> SUFFICES ASSUME IInv, sound, ~missed, queue = <<>>, NEW d \in Drivers
               PROVE  /\ Len(gs.laps[d]) = kept[d] + Ended(d)
                      /\ \A i \in 1 .. Ended(d) : gs.laps[d][kept[d] + i].sectors = Whole(begun[d] + i)
    BY DEF LapsComplete
  <2>1. /\ TypeOK /\ KeptInv /\ begun \in [Drivers -> Nat] /\ Saved(d) \in Nat /\ Ended(d) \in Nat
    BY Parts
  <2>2. gs # Nil /\ gs.key = session
    <3>1. PICK v : /\ Replays(v, gs.lines, queue, session, begun, progress)
                   /\ (missed \/ v[0].key # session \/ gs.key = session)
      BY DEF IInv, SoundInv
    <3>2. Len(queue) = 0
      BY EmptySeq
    <3>3. v[0].key = session
      BY <3>1, <3>2 DEF Replays
    <3> QED BY <3>1, <3>3 DEF IInv, SoundInv
  <2>3. InOrder(<<>>, Saved(d), Ended(d))
    <3>1. LapNums(<<>>, d, begun) = <<>>
      BY <2>1, NumsEmpty
    <3> QED BY <3>1 DEF IInv, LapsInv
  <2>4. Saved(d) = Ended(d)
    BY <2>1, <2>3, InOrderEmpty
  <2>5. Saved(d) = Len(gs.laps[d]) - kept[d] /\ Len(gs.laps[d]) \in Nat /\ kept[d] \in Nat
    BY <2>1, <2>2, LenProperties DEF Saved, TypeOK, States
  <2>6. Len(gs.laps[d]) = kept[d] + Ended(d)
    BY <2>1, <2>4, <2>5
  <2> QED BY <2>4, <2>6 DEF IInv, WholeInv
<1> QED BY IInvInit, IInvStep, <1>1, PTL DEF Spec

\* The first n elements of a sequence stay when one is appended.
LEMMA PrefixOfAppend ==
  ASSUME NEW S, NEW s \in Seq(S), NEW e \in S
  PROVE  IsPrefix(s, s) /\ IsPrefix(s, Append(s, e))
<1> DEFINE n == Len(s)
           t == Append(s, e)
<1>1. /\ n \in Nat /\ t \in Seq(S) /\ Len(t) = n + 1 /\ \A i \in 1 .. n : t[i] = s[i]
  BY AppendProperties, LenProperties
<1>2. \A i \in 1 .. n : s[i] \in S
  BY ElementOfSeq
<1>3. /\ SubSeq(s, 1, n) \in Seq(S) /\ Len(SubSeq(s, 1, n)) = Len(SubSeq(t, 1, n))
      /\ SubSeq(t, 1, n) \in Seq(S)
      /\ \A i \in 1 .. n : SubSeq(s, 1, n)[i] = s[i] /\ SubSeq(t, 1, n)[i] = t[i]
      /\ Len(SubSeq(s, 1, n)) = n
  <2> HIDE DEF n, t
  <2>1. \A i \in 1 .. n : t[i] \in S
    BY <1>1, <1>2
  <2>2. /\ SubSeq(s, 1, n) \in Seq(S)
        /\ Len(SubSeq(s, 1, n)) = IF 1 <= n THEN n - 1 + 1 ELSE 0
        /\ \A i \in 1 .. n - 1 + 1 : SubSeq(s, 1, n)[i] = s[1 + i - 1]
    BY <1>1, <1>2, SubSeqProperties
  <2>3. /\ SubSeq(t, 1, n) \in Seq(S)
        /\ Len(SubSeq(t, 1, n)) = IF 1 <= n THEN n - 1 + 1 ELSE 0
        /\ \A i \in 1 .. n - 1 + 1 : SubSeq(t, 1, n)[i] = t[1 + i - 1]
    BY <1>1, <2>1, SubSeqProperties
  <2>4. \A i \in 1 .. n : i \in 1 .. n - 1 + 1 /\ 1 + i - 1 = i
    BY <1>1
  <2> QED BY <1>1, <2>2, <2>3, <2>4
<1> HIDE DEF t
<1>4. SubSeq(s, 1, n) = SubSeq(t, 1, n)
  BY <1>1, <1>3, SeqEqual
<1>5. n <= Len(t) /\ n <= n
  BY <1>1
<1> QED BY <1>4, <1>5 DEF IsPrefix, t

\* A lap saved in a sound state has the three times of its own lap, and not one
\* of the lap before, whatever updates and reconnections came before.
THEOREM LapsAreWhole == Spec => LapIsOneLap
<1>1. IInv /\ [Next]_vars =>
        [HandleUpdate /\ sound /\ reply = NoReply /\ gs # Nil =>
           LET m == Head(queue) IN
             OfSectors(m) /\ SectorOf(m.sectors) = 3 =>
               Last(gs'.laps[m.driver]).sectors = Whole(LapOf(m.sectors))]_vars
  <2> SUFFICES ASSUME IInv, HandleUpdate, sound, gs # Nil,
                      NEW m, m = Head(queue), OfSectors(m), SectorOf(m.sectors) = 3
               PROVE  Last(gs'.laps[m.driver]).sectors = Whole(LapOf(m.sectors))
    OBVIOUS
  <2>1. /\ m.driver \in Drivers
        /\ gs'.laps[m.driver] = Append(gs.laps[m.driver], CompletedLap(m))
        /\ CompletedLap(m) \in Laps
        /\ CompletedLap(m).sectors = Whole(LapOf(m.sectors))
    BY SavedInSound
  <2>2. gs.laps[m.driver] \in Seq(Laps)
    BY <2>1, Parts DEF TypeOK, States
  <2>3. Last(gs'.laps[m.driver]) = CompletedLap(m)
    BY <2>1, <2>2, AppendProperties DEF Last
  <2> QED BY <2>1, <2>3
<1> QED BY IInvInit, IInvStep, <1>1, PTL DEF Spec, LapIsOneLap

\* While a session lasts no step loses or changes a lap of the history or a
\* starting position, in particular none that replaces the state by a snapshot
\* of the session.  (A snapshot that cannot be read, or lacks the session info,
\* does lose them.)
THEOREM HistoryStays == Spec => HistoryKept
<1>1. TypeOK /\ [Next]_vars =>
        [gs # Nil /\ gs' # Nil /\ session \in {gs.key} \cap {gs'.key} =>
           \A d \in Drivers :
             /\ IsPrefix(gs.laps[d], gs'.laps[d])
             /\ gs.start[d] # 0 => gs'.start[d] = gs.start[d]]_vars
  <2> SUFFICES ASSUME TypeOK, [Next]_vars, gs # Nil, gs' # Nil,
                      gs.key = session, gs'.key = session, NEW d \in Drivers
               PROVE  /\ IsPrefix(gs.laps[d], gs'.laps[d])
                      /\ gs.start[d] # 0 => gs'.start[d] = gs.start[d]
    OBVIOUS
  <2>1. gs \in States /\ gs.laps[d] \in Seq(Laps)
    BY DEF TypeOK, States
  <2>2. IsPrefix(gs.laps[d], gs.laps[d])
    <3>1. [num |-> 0, sectors |-> <<>>] \in Laps
      BY EmptySeq, LapHistoryAssumption DEF Laps, Sectors, LapHistoryAssumption
    <3> QED BY <2>1, <3>1, PrefixOfAppend
  <2>3. CASE UNCHANGED gs
    BY <2>2, <2>3
  <2>4. CASE HandleUpdate
    <3>1. PICK m : m = Head(queue)
      OBVIOUS
    <3>2. m \in Updates /\ queue # <<>>
      BY <2>4, <3>1, StateAfter DEF HandleUpdate
    <3>3. CASE OfSectors(m)
      <4>1. gs'.laps = LapsAfter(m) /\ gs'.start = gs.start /\ CompletedLap(m) \in Laps
        BY <2>4, <3>1, <3>2, <3>3, StateAfter, UpdateTyped
      <4>2. gs'.laps[d] = gs.laps[d] \/ gs'.laps[d] = Append(gs.laps[d], CompletedLap(m))
        BY <2>1, <4>1 DEF LapsAfter, States
      <4> QED BY <2>1, <2>2, <4>1, <4>2, PrefixOfAppend
    <3>4. CASE OfLine(m)
      <4>1. gs'.laps = gs.laps /\ gs'.start = StartAfter(m)
        BY <2>4, <3>1, <3>4, StateAfter
      <4>2. gs.start[d] # 0 => gs'.start[d] = gs.start[d]
        BY <2>1, <4>1 DEF StartAfter, States
      <4> QED BY <2>2, <4>1, <4>2
    <3>5. CASE OfSession(m)
      BY <2>2, <2>4, <3>1, <3>5, StateAfter
    <3> QED BY <3>2, <3>3, <3>4, <3>5, UpdateKinds
  <2>5. CASE HandleReply
    <3>1. reply \in States /\ gs' = [reply EXCEPT !.laps = CarriedLaps, !.start = CarriedStart]
      BY <2>5 DEF HandleReply, TypeOK
    <3>2. gs'.key = reply.key /\ gs'.laps = CarriedLaps /\ gs'.start = CarriedStart
      BY <3>1 DEF States
    <3>3. SameSession
      BY <3>2 DEF SameSession
    <3>4. gs'.laps = gs.laps
      BY <3>2, <3>3 DEF CarriedLaps
    <3>5. gs.start[d] # 0 => gs'.start[d] = gs.start[d]
      BY <3>2, <3>3 DEF CarriedStart
    <3> QED BY <2>2, <3>4, <3>5
  <2>6. CASE ReplyUnparsable \/ BrowserConnects
    BY <2>6 DEF ReplyUnparsable, BrowserConnects
  <2>7. CASE \/ \E e \in Drivers : CompleteSector(e)
             \/ \E e \in Drivers, p \in Positions : MoveTo(e, p)
             \/ NextSession \/ Subscribe \/ Disconnect \/ UNCHANGED vars
    <3>1. UNCHANGED gs
      BY <2>7 DEF CompleteSector, MoveTo, NextSession, Subscribe, Disconnect, vars
    <3> QED BY <2>3, <3>1
  <2> QED BY <2>4, <2>5, <2>6, <2>7 DEF Next
<1> QED BY TypeInit, TypeStep, <1>1, PTL DEF Spec, HistoryKept
=============================================================================
