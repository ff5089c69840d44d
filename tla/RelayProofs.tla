---------------------------- MODULE RelayProofs ----------------------------
(***************************************************************************)
(* Theorems about Relay for every number of browsers, changes, connections *)
(* and every capacity.                                                     *)
(***************************************************************************)
EXTENDS Relay, SequenceTheorems, NaturalsInduction, WellFoundedInduction, TLAPS

-----------------------------------------------------------------------------
(* The inductive invariant, in parts. *)

Busy(t)     == handling[t] # None
IsReply(t)  == Busy(t) /\ handling[t].msg.kind = "reply"
IsUpdate(t) == Busy(t) /\ handling[t].msg.kind = "update"

Snapped == {s \in Browsers : ws[s] \in {"snapped", "greeted"}}

\* Message i, an update or a reply, says change k.
Says(i, k) == msgs[i].kind # "lap" /\ Carries(i, k)

\* A message that is being handled has been broadcast, after every message that
\* a snapshot surely contains; a change that is skipped has been received;
\* a reply comes by a connection.
HandlingInv ==
  /\ \A t \in Threads : Busy(t) =>
       /\ handling[t].number \in 1 .. Len(msgs)
       /\ \A s \in Browsers : since[s] < handling[t].number
       /\ handling[t].msg.kind # "lap" => msgs[handling[t].number] = handling[t].msg
  /\ Busy("subscribe") => IsReply("subscribe")
  /\ IF IsUpdate("stream") THEN skipped < feed ELSE skipped <= feed
  /\ \A s \in Snapped : snap[s] # None
  /\ reply # None => link # "down"

TypeInv == TypeOK /\ HandlingInv

\* A lap of the state is in a browser's snapshot, or announced after it, or
\* about to be.
LapsInv ==
  gs # Nil => \A s \in Snapped : \A k \in gs.laps :
    \/ k \in snap[s].laps
    \/ Busy("stream") /\ handling["stream"].msg = [kind |-> "lap", change |-> k]
    \/ \E i \in DOMAIN msgs : i > since[s] /\ msgs[i] = [kind |-> "lap", change |-> k]

\* What is known of the feed is what it has shown, and a message has said it.
FeedInv ==
  /\ \A i \in DOMAIN msgs : \A k \in 1 .. MaxFeed : Says(i, k) => k <= feed
  /\ \A i \in DOMAIN msgs : msgs[i].kind = "reply" => msgs[i].upto <= feed
  /\ reply # None => reply <= feed
  /\ gs # Nil => \A k \in gs.changes : \E i \in DOMAIN msgs : Says(i, k)
  /\ \A s \in Snapped : \A k \in snap[s].changes : k <= feed

\* Two messages that are handled at a time cross; one that is handled and has
\* crossed no other is the last that was broadcast.
CrossInv ==
  /\ (\A t \in Threads : Busy(t)) => crossed
  /\ ~crossed => \A t \in Threads : Busy(t) => handling[t].number = Len(msgs)

\* The reply under way is at least as new as every other reply, and, unless an
\* update has overtaken it, as the state and the snapshots; a snapshot that is
\* newer holds a change that was broadcast after it, or during it.
ReplyInv ==
  reply # None =>
    /\ \A t \in Threads : IsReply(t) => handling[t].msg.upto <= reply
    /\ IsUpdate("stream") /\ handling["stream"].msg.change > reply => crossed
    /\ Busy("subscribe") =>
         \A i \in DOMAIN msgs : \A k \in 1 .. MaxFeed :
           Says(i, k) /\ k > reply => i > handling["subscribe"].number
    /\ ~crossed /\ gs # Nil => \A k \in gs.changes : k <= reply
    /\ ~crossed \/ Busy("subscribe") =>
         \A s \in Snapped : \A k \in snap[s].changes :
           k <= reply \/ \E i \in DOMAIN msgs : i > since[s] /\ Says(i, k)

\* The same of a reply that is being handled.
HandledReplyInv ==
  ~crossed => \A t \in Threads : IsReply(t) =>
    /\ gs # Nil => \A k \in gs.changes : k <= handling[t].msg.upto
    /\ \A s \in Snapped : \A k \in snap[s].changes :
         k <= handling[t].msg.upto \/ \E i \in DOMAIN msgs : i > since[s] /\ Says(i, k)

\* Message i comes before those that are still to be applied, and no reply that
\* was applied follows it.
Applied(i) == \A t \in Threads : IsUpdate(t) \/ IsReply(t) => i < handling[t].number
Current(i) == Applied(i) /\ \A j \in DOMAIN msgs : j > i /\ Applied(j) => msgs[j].kind # "reply"

\* The state is the latest reply applied and the updates after it; a snapshot
\* has what of that it surely contains, and what it has is in the state or said
\* by a later message.
WholeInv ==
  whole =>
    /\ gs # Nil
    /\ \A k \in 1 .. MaxFeed :
         k \in gs.changes <=> \E i \in DOMAIN msgs : Current(i) /\ Says(i, k)
    /\ \A s \in Snapped : \A i \in DOMAIN msgs : \A k \in 1 .. MaxFeed :
         i <= since[s] /\ Current(i) /\ Says(i, k) => k \in snap[s].changes
    /\ \A s \in Snapped : \A k \in snap[s].changes :
         k \in gs.changes \/ \E i \in DOMAIN msgs : i > since[s] /\ Says(i, k)

IInv ==
  /\ TypeInv /\ LapsInv /\ FeedInv /\ CrossInv
  /\ ReplyInv /\ HandledReplyInv /\ WholeInv

-----------------------------------------------------------------------------
(* Messages, threads, and what begins and ends the handling of a message. *)

LEMMA MessageKinds ==
  /\ \A m \in Messages :
       /\ m.kind \in {"update", "lap", "reply"}
       /\ m.kind = "update" => m.change \in 1 .. MaxFeed /\ m.lap \in BOOLEAN /\ m \in Updates
       /\ m.kind = "lap" => m.change \in 1 .. MaxFeed /\ m \in Laps
       /\ m.kind = "reply" => m.upto \in 0 .. MaxFeed /\ m.good \in BOOLEAN /\ m \in Replies
  /\ \A c \in 1 .. MaxFeed, b \in BOOLEAN : [kind |-> "update", change |-> c, lap |-> b] \in Messages
  /\ \A c \in 1 .. MaxFeed : [kind |-> "lap", change |-> c] \in Messages
  /\ \A n \in 0 .. MaxFeed, b \in BOOLEAN : [kind |-> "reply", upto |-> n, good |-> b] \in Messages
BY DEF Messages, Updates, Laps, Replies

\* A lap message is its change.
LEMMA LapMessage ==
  ASSUME NEW m \in Messages, m.kind = "lap"
  PROVE  m = [kind |-> "lap", change |-> m.change]
BY DEF Messages, Updates, Laps, Replies

LEMMA TwoThreads ==
  /\ Threads = {"stream", "subscribe"}
  /\ Other("stream") = "subscribe" /\ Other("subscribe") = "stream"
BY DEF Threads, Other

LEMMA HandlingFields ==
  ASSUME TypeOK, NEW t \in Threads, Busy(t)
  PROVE  /\ handling[t] \in Handling /\ handling[t].msg \in Messages
         /\ handling[t].number \in Nat /\ handling[t].via \in {"signalr", "legacy"}
         /\ handling[t] = [msg |-> handling[t].msg, number |-> handling[t].number,
                           via |-> handling[t].via]
BY DEF TypeOK, Busy, Handling

LEMMA HandlingIsNotNone ==
  ASSUME NEW m \in Messages, NEW n \in Nat, NEW v \in {"signalr", "legacy"}
  PROVE  [msg |-> m, number |-> n, via |-> v] \in Handling
         /\ [msg |-> m, number |-> n, via |-> v] # None
<1>1. [msg |-> m, number |-> n, via |-> v] \in Handling
  BY DEF Handling
<1> QED BY <1>1, NilAssumption DEF NilAssumption

\* Broadcast: the stream grows by one message.
LEMMA BroadcastEffect ==
  ASSUME msgs \in Seq(Messages), NEW m \in Messages, Broadcast(m)
  PROVE  /\ msgs' \in Seq(Messages) /\ Len(msgs') = Len(msgs) + 1 /\ Len(msgs) \in Nat
         /\ DOMAIN msgs = 1 .. Len(msgs) /\ DOMAIN msgs' = 1 .. Len(msgs) + 1
         /\ \A i \in 1 .. Len(msgs) : msgs'[i] = msgs[i]
         /\ msgs'[Len(msgs) + 1] = m
         /\ UNCHANGED taken /\ Len(msgs) - taken < BcastCap
BY AppendProperties, LenProperties DEF Broadcast

LEMMA BeginEffect ==
  ASSUME TypeOK, NEW t \in Threads, NEW m \in Messages, Begin(t, m), link # "down"
  PROVE  /\ ~Busy(t)
         /\ handling' \in [Threads -> Handling \cup {None}]
         /\ Busy(t)' /\ handling'[t].msg = m /\ handling'[t].number = Len(msgs) + 1
         /\ \A u \in Threads : u # t => handling'[u] = handling[u]
<1> DEFINE h == [msg |-> m, number |-> Len(msgs) + 1, via |-> link]
<1>1. link \in {"signalr", "legacy"} /\ Len(msgs) + 1 \in Nat
  BY LenProperties DEF TypeOK
<1>2. h \in Handling /\ h # None /\ h.msg = m /\ h.number = Len(msgs) + 1
  BY <1>1, HandlingIsNotNone
<1>3. handling' = [handling EXCEPT ![t] = h] /\ handling[t] = None
  BY DEF Begin
<1>4. handling \in [Threads -> Handling \cup {None}]
  BY DEF TypeOK
<1> HIDE DEF h
<1> QED BY <1>2, <1>3, <1>4 DEF Busy

LEMMA FinishEffect ==
  ASSUME TypeOK, NEW t \in Threads, Finish(t)
  PROVE  /\ handling' \in [Threads -> Handling \cup {None}]
         /\ ~Busy(t)'
         /\ \A u \in Threads : u # t => handling'[u] = handling[u]
<1>1. handling \in [Threads -> Handling \cup {None}]
  BY DEF TypeOK
<1> QED BY <1>1 DEF Finish, Busy

\* Global states: those the handlers make are states, and a state is not nil.
LEMMA StateTypes ==
  /\ Empty \in States /\ Empty # Nil /\ Empty # None
  /\ \A g \in States : g # Nil /\ g # None /\ g.changes \subseteq 1 .. MaxFeed
                       /\ g.laps \subseteq 1 .. MaxFeed
<1>1. Empty \in States
  BY DEF Empty, States
<1>2. \A g \in States : g.changes \subseteq 1 .. MaxFeed /\ g.laps \subseteq 1 .. MaxFeed
  BY DEF States
<1> QED BY <1>1, <1>2, NilAssumption DEF NilAssumption

\* Messages 1 .. Handled are those before every message that is being handled.
LEMMA HandledIsBefore ==
  ASSUME TypeInv
  PROVE  Handled \in 0 .. Len(msgs) /\ \A t \in Threads : Busy(t) => Handled < handling[t].number
<1> DEFINE busy == {handling[t].number : t \in {u \in Threads : handling[u] # None}}
<1> DEFINE least(n) == n \in busy /\ \A k \in busy : n <= k
<1>0. Len(msgs) \in Nat
  BY LenProperties DEF TypeInv, TypeOK
<1>1. \A t \in Threads : Busy(t) => handling[t].number \in 1 .. Len(msgs)
  BY DEF TypeInv, HandlingInv
<1>2. \A n \in busy : n \in 1 .. Len(msgs)
  BY <1>1 DEF Busy
<1>3. CASE busy = {}
  <2>1. Handled = Len(msgs)
    BY <1>3 DEF Handled
  <2>2. \A t \in Threads : ~Busy(t)
    BY <1>3 DEF Busy
  <2> QED BY <1>0, <2>1, <2>2
<1>4. CASE busy # {}
  <2>1. \E n \in busy : least(n)
    <3> DEFINE a == handling["stream"].number
    <3> DEFINE b == handling["subscribe"].number
    <3>0. \A x : x \in busy <=> (Busy("stream") /\ x = a) \/ (Busy("subscribe") /\ x = b)
      BY TwoThreads DEF Busy
    <3>n. (Busy("stream") => a \in Nat) /\ (Busy("subscribe") => b \in Nat)
      BY <1>1, TwoThreads
    <3>s. Busy("stream") \/ Busy("subscribe")
      BY <3>0, <1>4
    <3> HIDE DEF busy, a, b
    <3>1. CASE ~Busy("stream")
      BY <3>0, <3>1, <3>n, <3>s
    <3>2. CASE ~Busy("subscribe")
      BY <3>0, <3>2, <3>n, <3>s
    <3>3. CASE Busy("stream") /\ Busy("subscribe") /\ a <= b
      BY <3>0, <3>3, <3>n
    <3>4. CASE Busy("stream") /\ Busy("subscribe") /\ ~(a <= b)
      BY <3>0, <3>4, <3>n
    <3> QED BY <3>1, <3>2, <3>3, <3>4
  <2> DEFINE n == CHOOSE n \in busy : \A k \in busy : n <= k
  <2>2. least(n)
    BY <2>1
  <2>3. Handled = n - 1
    BY <1>4 DEF Handled
  <2>4. \A t \in Threads : Busy(t) => handling[t].number \in busy
    BY DEF Busy
  <2> HIDE DEF n, busy
  <2> QED BY <1>0, <1>1, <1>2, <2>2, <2>3, <2>4
<1> QED BY <1>3, <1>4

-----------------------------------------------------------------------------
(* Types. *)

LEMMA TypeInit == Init => TypeInv
<1> SUFFICES ASSUME Init PROVE TypeInv
  OBVIOUS
<1>1. msgs \in Seq(Messages) /\ Len(msgs) = 0
  BY EmptySeq DEF Init
<1>2. MaxFeed \in Nat /\ MaxConnects \in Nat /\ BcastCap \in Nat
  BY RelayAssumption DEF RelayAssumption
<1>3. \A t \in Threads : ~Busy(t)
  BY DEF Init, Busy
<1>4. HandlingInv
  <2>1. ~IsUpdate("stream") /\ ~Busy("subscribe")
    BY <1>3, TwoThreads DEF IsUpdate
  <2>2. Snapped = {}
    BY DEF Init, Snapped
  <2>3. skipped <= feed
    BY DEF Init
  <2>4. reply = None
    BY DEF Init
  <2> QED BY <1>3, <2>1, <2>2, <2>3, <2>4 DEF HandlingInv
<1>5. TypeOK
  <2>1. taken \in 0 .. Len(msgs) /\ Len(msgs) - taken \in 0 .. BcastCap
        /\ since \in [Browsers -> 0 .. Len(msgs)] /\ greetedAt \in [Browsers -> 0 .. taken]
    BY <1>1, <1>2 DEF Init
  <2>2. feed \in 0 .. MaxFeed /\ connects \in 0 .. MaxConnects /\ skipped \in 0 .. MaxFeed
    BY <1>2 DEF Init
  <2>4. /\ reply \in 0 .. MaxFeed \cup {None} /\ gs \in States \cup {Nil}
        /\ link \in {"down", "signalr", "legacy"}
    BY DEF Init
  <2>5. locked \in BOOLEAN /\ crashed \in BOOLEAN /\ crossed \in BOOLEAN /\ whole \in BOOLEAN
    BY DEF Init
  <2>3. /\ handling \in [Threads -> Handling \cup {None}] /\ snap \in [Browsers -> States \cup {None}]
        /\ ws \in [Browsers -> {"new", "stateless", "arrived", "snapped", "greeted", "failed"}]
    BY DEF Init
  <2> QED BY <1>1, <2>1, <2>2, <2>3, <2>4, <2>5 DEF TypeOK
<1> QED BY <1>4, <1>5 DEF TypeInv

\* What a step that neither begins nor ends a message's handling leaves alone.
LEMMA TypeBeside ==
  ASSUME TypeInv, UNCHANGED <<handling, streamVars, skipped>>,
         feed' \in 0 .. MaxFeed, feed' >= feed, link' \in {"down", "signalr", "legacy"},
         connects' \in 0 .. MaxConnects, reply' \in 0 .. MaxFeed \cup {None},
         gs' \in States \cup {Nil}, locked' \in BOOLEAN, crashed' \in BOOLEAN,
         reply' # None => link' # "down",
         UNCHANGED browserVars, crossed' \in BOOLEAN, whole' \in BOOLEAN
  PROVE  TypeInv'
<1> USE DEF streamVars, browserVars
<1>1. TypeOK'
  BY DEF TypeInv, TypeOK
<1>2. HandlingInv'
  <2>0. skipped \in Nat /\ feed \in Nat /\ feed' \in Nat
    BY RelayAssumption DEF TypeInv, TypeOK, RelayAssumption
  <2> QED BY <2>0 DEF TypeInv, HandlingInv, Busy, IsUpdate, IsReply, Snapped
<1> QED BY <1>1, <1>2 DEF TypeInv

LEMMA BeginTypes ==
  ASSUME TypeInv, NEW t \in Threads, NEW m \in Messages, Begin(t, m), link # "down",
         UNCHANGED <<link, connects, stateVars, browserVars, whole>>,
         feed' \in 0 .. MaxFeed, feed' \in {feed, feed + 1}, reply' \in 0 .. MaxFeed \cup {None},
         m.kind = "update" => t = "stream" /\ feed' = feed + 1,
         t = "subscribe" => m.kind = "reply", m.kind # "lap"
  PROVE  TypeInv'
<1>0. TypeOK /\ HandlingInv /\ msgs \in Seq(Messages) /\ Broadcast(m)
  BY DEF TypeInv, TypeOK, Begin
<1>1. /\ msgs' \in Seq(Messages) /\ Len(msgs') = Len(msgs) + 1 /\ Len(msgs) \in Nat
      /\ \A i \in 1 .. Len(msgs) : msgs'[i] = msgs[i]
      /\ msgs'[Len(msgs) + 1] = m
      /\ taken' = taken /\ Len(msgs) - taken < BcastCap
  BY <1>0, BroadcastEffect
<1>2. /\ ~Busy(t)
      /\ handling' \in [Threads -> Handling \cup {None}]
      /\ Busy(t)' /\ handling'[t].msg = m /\ handling'[t].number = Len(msgs) + 1
      /\ \A u \in Threads : u # t => handling'[u] = handling[u]
  BY <1>0, BeginEffect
<1>n. taken \in 0 .. Len(msgs) /\ BcastCap \in Nat /\ feed \in Nat /\ skipped \in Nat
      /\ feed' \in Nat
  BY <1>0, RelayAssumption DEF TypeOK, RelayAssumption
<1>3. TypeOK'
  <2>1. taken' \in 0 .. Len(msgs') /\ Len(msgs') - taken' \in 0 .. BcastCap
    BY <1>1, <1>n
  <2>2. since' \in [Browsers -> 0 .. Len(msgs')] /\ greetedAt' \in [Browsers -> 0 .. taken']
    <3>1. since \in [Browsers -> 0 .. Len(msgs)] /\ greetedAt \in [Browsers -> 0 .. taken]
      BY <1>0 DEF TypeOK
    <3> QED BY <1>1, <3>1 DEF browserVars
  <2>3. crossed' \in BOOLEAN
    BY <1>0 DEF Begin, TypeOK
  <2> QED BY <1>0, <1>1, <1>2, <2>1, <2>2, <2>3 DEF TypeOK, stateVars, browserVars
<1>4. HandlingInv'
  <2>1. ASSUME NEW u \in Threads, Busy(u)'
        PROVE  /\ handling'[u].number \in 1 .. Len(msgs')
               /\ \A b \in Browsers : since'[b] < handling'[u].number
               /\ handling'[u].msg.kind # "lap" => msgs'[handling'[u].number] = handling'[u].msg
    <3>0. \A b \in Browsers : since'[b] = since[b] /\ since[b] \in 0 .. Len(msgs)
      BY <1>0 DEF browserVars, TypeOK
    <3>1. CASE u = t
      BY <1>1, <1>2, <3>0, <3>1
    <3>2. CASE u # t
      BY <1>0, <1>1, <1>2, <2>1, <3>0, <3>2 DEF HandlingInv, Busy
    <3> QED BY <3>1, <3>2
  <2>2. Busy("subscribe")' => IsReply("subscribe")'
    BY <1>0, <1>2, TwoThreads DEF HandlingInv, Busy, IsReply
  <2>3. IF IsUpdate("stream")' THEN skipped' < feed' ELSE skipped' <= feed'
    <3>1. skipped' = skipped
      BY DEF stateVars
    <3>2. CASE t = "stream"
      <4>1. IsUpdate("stream")' => feed' = feed + 1
        BY <1>2, <3>2 DEF IsUpdate
      <4>2. skipped <= feed
        BY <1>0, <1>n, <1>2, <3>2 DEF HandlingInv, IsUpdate
      <4> QED BY <1>n, <3>1, <4>1, <4>2
    <3>3. CASE t # "stream"
      <4>1. IsUpdate("stream")' = IsUpdate("stream")
        BY <1>2, <3>3, TwoThreads DEF IsUpdate, Busy
      <4> QED BY <1>0, <1>n, <3>1, <4>1 DEF HandlingInv
    <3> QED BY <3>2, <3>3
  <2>4. \A b \in Snapped' : snap'[b] # None
    BY <1>0 DEF HandlingInv, Snapped, browserVars
  <2> QED BY <2>1, <2>2, <2>3, <2>4 DEF HandlingInv
<1> QED BY <1>3, <1>4 DEF TypeInv

LEMMA FinishTypes ==
  ASSUME TypeInv, NEW t \in Threads, Busy(t), Finish(t),
         UNCHANGED <<feedVars, streamVars, browserVars>>,
         gs' \in States \cup {Nil}, locked' \in BOOLEAN, crashed' \in BOOLEAN, whole' \in BOOLEAN,
         \/ skipped' = 0
         \/ skipped' = skipped
         \/ skipped' = skipped + 1 /\ IsUpdate(t)
  PROVE  TypeInv'
<1>0. TypeOK /\ HandlingInv
  BY DEF TypeInv
<1>1. /\ handling' \in [Threads -> Handling \cup {None}]
      /\ ~Busy(t)'
      /\ \A u \in Threads : u # t => handling'[u] = handling[u]
  BY <1>0, FinishEffect
<1>n. feed \in Nat /\ skipped \in Nat /\ feed <= MaxFeed /\ MaxFeed \in Nat
  BY <1>0, RelayAssumption DEF TypeOK, RelayAssumption
<1>2. IF IsUpdate("stream")' THEN skipped' < feed' ELSE skipped' <= feed'
  <2>0. feed' = feed
    BY DEF feedVars
  <2>1. CASE t = "stream"
    <3>1. ~IsUpdate("stream")'
      BY <1>1, <2>1 DEF IsUpdate
    <3>2. skipped <= feed /\ (IsUpdate("stream") => skipped < feed)
      BY <1>0, <1>n DEF HandlingInv
    <3> QED BY <1>n, <2>0, <2>1, <3>1, <3>2
  <2>2. CASE t = "subscribe"
    <3>1. IsUpdate("stream")' <=> IsUpdate("stream")
      BY <1>1, <2>2, TwoThreads DEF IsUpdate, Busy
    <3>2. ~IsUpdate(t)
      BY <1>0, <2>2 DEF HandlingInv, IsUpdate, IsReply
    <3>3. IF IsUpdate("stream") THEN skipped < feed ELSE skipped <= feed
      BY <1>0 DEF HandlingInv
    <3>4. skipped' = 0 \/ skipped' = skipped
      BY <3>2
    <3>5. CASE IsUpdate("stream")
      BY <1>n, <2>0, <3>1, <3>3, <3>4, <3>5
    <3>6. CASE ~IsUpdate("stream")
      BY <1>n, <2>0, <3>1, <3>3, <3>4, <3>6
    <3> QED BY <3>5, <3>6
  <2> QED BY <2>1, <2>2, TwoThreads
<1>3. TypeOK'
  <2>1. skipped' \in 0 .. MaxFeed
    <3>1. skipped' \in Nat
      BY <1>n
    <3>2. skipped' <= feed' /\ feed' = feed
      BY <1>2, <1>n, <3>1 DEF feedVars
    <3> QED BY <1>n, <3>1, <3>2
  <2>2. crossed' \in BOOLEAN
    BY <1>0 DEF Finish, TypeOK
  <2> QED BY <1>0, <1>1, <2>1, <2>2 DEF TypeOK, feedVars, streamVars, browserVars
<1>4. HandlingInv'
  <2>1. ASSUME NEW u \in Threads, Busy(u)'
        PROVE  /\ handling'[u].number \in 1 .. Len(msgs')
               /\ \A b \in Browsers : since'[b] < handling'[u].number
               /\ handling'[u].msg.kind # "lap" => msgs'[handling'[u].number] = handling'[u].msg
    <3>1. u # t /\ handling'[u] = handling[u] /\ Busy(u)
      BY <1>1, <2>1 DEF Busy
    <3> QED BY <1>0, <3>1 DEF HandlingInv, browserVars, streamVars
  <2>2. Busy("subscribe")' => IsReply("subscribe")'
    BY <1>0, <1>1, TwoThreads DEF HandlingInv, Busy, IsReply
  <2>3. \A b \in Snapped' : snap'[b] # None
    BY <1>0 DEF HandlingInv, Snapped, browserVars
  <2>4. reply' # None => link' # "down"
    BY <1>0 DEF HandlingInv, feedVars
  <2> QED BY <1>2, <2>1, <2>2, <2>3, <2>4 DEF HandlingInv
<1> QED BY <1>3, <1>4 DEF TypeInv

\* An update that completes a lap is handled on as the lap's announcement.
LEMMA LapEffect ==
  ASSUME TypeOK, Busy("stream"), NEW c \in 1 .. MaxFeed,
         handling' = [handling EXCEPT !["stream"].msg = [kind |-> "lap", change |-> c]]
  PROVE  /\ handling' \in [Threads -> Handling \cup {None}]
         /\ Busy("stream")' /\ handling'["stream"].msg = [kind |-> "lap", change |-> c]
         /\ handling'["stream"].number = handling["stream"].number
         /\ handling'["subscribe"] = handling["subscribe"]
<1> DEFINE m == [kind |-> "lap", change |-> c]
<1> DEFINE h == [msg |-> m, number |-> handling["stream"].number, via |-> handling["stream"].via]
<1>1. handling["stream"].number \in Nat /\ handling["stream"].via \in {"signalr", "legacy"}
      /\ handling["stream"] \in Handling
  BY TwoThreads, HandlingFields
<1>2. m \in Messages
  BY MessageKinds
<1>3. h \in Handling /\ h # None /\ h.msg = m /\ h.number = handling["stream"].number
  <2> HIDE DEF m
  <2> QED BY <1>1, <1>2, HandlingIsNotNone
<1>4. [handling["stream"] EXCEPT !.msg = m] = h
  <2> HIDE DEF m
  <2> QED BY <1>1 DEF Handling
<1>5. handling' = [handling EXCEPT !["stream"] = h]
  BY <1>4
<1>6. handling \in [Threads -> Handling \cup {None}]
  BY DEF TypeOK
<1> HIDE DEF h
<1> QED BY <1>3, <1>5, <1>6, TwoThreads DEF Busy

LEMMA ApplyUpdateTypes == ASSUME TypeInv, ApplyUpdate PROVE TypeInv'
<1> DEFINE m == handling["stream"].msg
<1>0. TypeOK /\ HandlingInv /\ IsUpdate("stream") /\ gs \in States
  BY DEF TypeInv, TypeOK, ApplyUpdate, Applies, IsUpdate, Busy
<1>1. m \in Messages /\ m.kind = "update" /\ m.change \in 1 .. MaxFeed
  BY <1>0, HandlingFields, MessageKinds, TwoThreads DEF IsUpdate
<1>2. gs' \in States
  <2>1. \/ gs' = [gs EXCEPT !.changes = @ \cup {m.change}, !.laps = @ \cup {m.change}]
        \/ gs' = [gs EXCEPT !.changes = @ \cup {m.change}]
    BY DEF ApplyUpdate
  <2>2. /\ gs.changes \cup {m.change} \in SUBSET (1 .. MaxFeed)
        /\ gs.laps \cup {m.change} \in SUBSET (1 .. MaxFeed)
        /\ gs = [changes |-> gs.changes, laps |-> gs.laps, keyed |-> gs.keyed]
        /\ gs.keyed \in BOOLEAN
    BY <1>0, <1>1 DEF States
  <2> HIDE DEF m
  <2>3. CASE gs' = [gs EXCEPT !.changes = @ \cup {m.change}, !.laps = @ \cup {m.change}]
    BY <1>0, <2>2, <2>3 DEF States
  <2>4. CASE gs' = [gs EXCEPT !.changes = @ \cup {m.change}]
    BY <1>0, <2>2, <2>4 DEF States
  <2> QED BY <2>1, <2>3, <2>4
<1>3. CASE ~m.lap
  <2>1. Finish("stream") /\ locked' = locked /\ Busy("stream")
    BY <1>0, <1>3 DEF ApplyUpdate, IsUpdate
  <2>2. whole' \in BOOLEAN /\ locked' \in BOOLEAN /\ crashed' \in BOOLEAN
    BY <1>0, <2>1 DEF TypeOK, ApplyUpdate
  <2>3. skipped' = 0 /\ UNCHANGED <<feedVars, streamVars, browserVars>>
    BY DEF ApplyUpdate
  <2> QED BY <1>2, <2>1, <2>2, <2>3, FinishTypes, TwoThreads
<1>4. CASE m.lap
  <2>1. handling' = [handling EXCEPT !["stream"].msg = [kind |-> "lap", change |-> m.change]]
        /\ locked' = TRUE
    BY <1>4 DEF ApplyUpdate
  <2>2. /\ handling' \in [Threads -> Handling \cup {None}]
        /\ Busy("stream")' /\ handling'["stream"].msg.kind = "lap"
        /\ handling'["stream"].number = handling["stream"].number
        /\ handling'["subscribe"] = handling["subscribe"]
    <3> DEFINE c == m.change
    <3>1. Busy("stream") /\ c \in 1 .. MaxFeed /\ TypeOK
      BY <1>0, <1>1 DEF IsUpdate
    <3>2. handling' = [handling EXCEPT !["stream"].msg = [kind |-> "lap", change |-> c]]
      BY <2>1
    <3> HIDE DEF c
    <3>3. /\ handling' \in [Threads -> Handling \cup {None}]
          /\ Busy("stream")' /\ handling'["stream"].msg = [kind |-> "lap", change |-> c]
          /\ handling'["stream"].number = handling["stream"].number
          /\ handling'["subscribe"] = handling["subscribe"]
      BY <3>1, <3>2, LapEffect
    <3> QED BY <3>3
  <2>3. skipped' = 0 /\ UNCHANGED <<feedVars, crashed, streamVars, browserVars, crossed>>
        /\ whole' \in BOOLEAN
    BY <1>0, <1>4 DEF ApplyUpdate, TypeOK
  <2>4. TypeOK'
    <3>1. skipped' \in 0 .. MaxFeed
      BY <2>3, RelayAssumption DEF RelayAssumption
    <3> QED BY <1>0, <1>2, <2>1, <2>2, <2>3, <3>1 DEF TypeOK, feedVars, streamVars, browserVars
  <2>5. HandlingInv'
    <3>1. ~IsUpdate("stream")' /\ skipped' <= feed'
      BY <1>0, <2>2, <2>3, RelayAssumption DEF IsUpdate, TypeOK, feedVars, RelayAssumption
    <3>2. ASSUME NEW u \in Threads, Busy(u)'
          PROVE  /\ handling'[u].number \in 1 .. Len(msgs')
                 /\ \A b \in Browsers : since'[b] < handling'[u].number
                 /\ handling'[u].msg.kind # "lap" => msgs'[handling'[u].number] = handling'[u].msg
      <4>0. Busy("stream")
        BY <1>0 DEF IsUpdate
      <4>1. CASE u = "stream"
        BY <1>0, <2>2, <2>3, <4>0, <4>1, TwoThreads DEF HandlingInv, streamVars, browserVars
      <4>2. CASE u = "subscribe"
        BY <1>0, <2>2, <2>3, <3>2, <4>2, TwoThreads DEF HandlingInv, streamVars, browserVars, Busy
      <4> QED BY <4>1, <4>2, TwoThreads
    <3>3. Busy("subscribe")' => IsReply("subscribe")'
      BY <1>0, <2>2 DEF HandlingInv, Busy, IsReply
    <3>4. \A b \in Snapped' : snap'[b] # None
      BY <1>0, <2>3 DEF HandlingInv, Snapped, browserVars
    <3>5. reply' # None => link' # "down"
      BY <1>0, <2>3 DEF HandlingInv, feedVars
    <3> QED BY <3>1, <3>2, <3>3, <3>4, <3>5 DEF HandlingInv
  <2> QED BY <2>4, <2>5 DEF TypeInv
<1> QED BY <1>3, <1>4

LEMMA AnnounceLapTypes == ASSUME TypeInv, AnnounceLap PROVE TypeInv'
<1> DEFINE m == handling["stream"].msg
<1>0. TypeOK /\ HandlingInv /\ Busy("stream") /\ msgs \in Seq(Messages) /\ m \in Messages
      /\ m.kind = "lap"
  BY HandlingFields, TwoThreads DEF TypeInv, TypeOK, AnnounceLap, Applies, Busy
<1>1. /\ msgs' \in Seq(Messages) /\ Len(msgs') = Len(msgs) + 1 /\ Len(msgs) \in Nat
      /\ \A i \in 1 .. Len(msgs) : msgs'[i] = msgs[i]
      /\ taken' = taken /\ Len(msgs) - taken < BcastCap
  BY <1>0, BroadcastEffect DEF AnnounceLap
<1>2. /\ handling' \in [Threads -> Handling \cup {None}]
      /\ ~Busy("stream")' /\ handling'["subscribe"] = handling["subscribe"]
  BY <1>0, FinishEffect, TwoThreads DEF AnnounceLap
<1>3. UNCHANGED <<feedVars, gs, skipped, crashed, browserVars, whole>> /\ locked' = FALSE
  BY DEF AnnounceLap
<1>4. TypeOK'
  <2>1. taken' \in 0 .. Len(msgs') /\ Len(msgs') - taken' \in 0 .. BcastCap
    BY <1>0, <1>1, RelayAssumption DEF TypeOK, RelayAssumption
  <2>2. since' \in [Browsers -> 0 .. Len(msgs')] /\ greetedAt' \in [Browsers -> 0 .. taken']
    <3>1. since \in [Browsers -> 0 .. Len(msgs)] /\ greetedAt \in [Browsers -> 0 .. taken]
      BY <1>0 DEF TypeOK
    <3> QED BY <1>1, <1>3, <3>1 DEF browserVars
  <2>3. crossed' \in BOOLEAN
    BY <1>0 DEF AnnounceLap, Finish, TypeOK
  <2> QED BY <1>0, <1>1, <1>2, <1>3, <2>1, <2>2, <2>3 DEF TypeOK, feedVars, browserVars
<1>5. HandlingInv'
  <2>1. ~IsUpdate("stream")' /\ skipped' <= feed'
    <3>1. ~IsUpdate("stream")
      BY <1>0 DEF IsUpdate
    <3> QED BY <1>0, <1>2, <1>3, <3>1 DEF IsUpdate, HandlingInv, feedVars
  <2>2. ASSUME NEW u \in Threads, Busy(u)'
        PROVE  /\ handling'[u].number \in 1 .. Len(msgs')
               /\ \A b \in Browsers : since'[b] < handling'[u].number
               /\ handling'[u].msg.kind # "lap" => msgs'[handling'[u].number] = handling'[u].msg
    <3>1. u = "subscribe" /\ handling'[u] = handling[u] /\ Busy(u)
      BY <1>2, <2>2, TwoThreads DEF Busy
    <3> QED BY <1>0, <1>1, <1>3, <3>1, TwoThreads DEF HandlingInv, browserVars
  <2>3. Busy("subscribe")' => IsReply("subscribe")'
    BY <1>0, <1>2 DEF HandlingInv, Busy, IsReply
  <2>4. \A b \in Snapped' : snap'[b] # None
    BY <1>0, <1>3 DEF HandlingInv, Snapped, browserVars
  <2>5. reply' # None => link' # "down"
    BY <1>0, <1>3 DEF HandlingInv, feedVars
  <2> QED BY <2>1, <2>2, <2>3, <2>4, <2>5 DEF HandlingInv
<1> QED BY <1>4, <1>5 DEF TypeInv

LEMMA BrowserTypes ==
  ASSUME TypeInv, NEW b \in Browsers,
         Arrive(b) \/ MakeEmpty(b) \/ Snapshot(b) \/ SnapshotPanics(b) \/ Greet(b)
  PROVE  TypeInv'
<1>0. TypeOK /\ HandlingInv /\ Len(msgs) \in Nat /\ taken \in Nat
  BY LenProperties DEF TypeInv, TypeOK
<1>1. UNCHANGED <<feedVars, handling, skipped, crashed, streamVars, crossed>>
  BY DEF Arrive, MakeEmpty, Snapshot, SnapshotPanics, Greet, stateVars
<1>2. /\ gs' \in States \cup {Nil} /\ locked' \in BOOLEAN /\ whole' \in BOOLEAN
      /\ ws' \in [Browsers -> {"new", "stateless", "arrived", "snapped", "greeted", "failed"}]
      /\ snap' \in [Browsers -> States \cup {None}]
      /\ since' \in [Browsers -> 0 .. Len(msgs)] /\ greetedAt' \in [Browsers -> 0 .. taken]
      /\ \A s \in Snapped' : snap'[s] # None
      /\ \A t \in Threads : Busy(t) => \A s \in Browsers : since'[s] < handling[t].number
  <2> USE DEF TypeOK, HandlingInv, Goes, stateVars, Snapped
  <2>1. CASE Arrive(b)
    BY <1>0, <2>1 DEF Arrive
  <2>2. CASE MakeEmpty(b)
    BY <1>0, <2>2, StateTypes DEF MakeEmpty
  <2>3. CASE Snapshot(b)
    <3>1. Handled \in 0 .. Len(msgs) /\ \A t \in Threads : Busy(t) => Handled < handling[t].number
      BY HandledIsBefore
    <3>2. gs \in States /\ gs # None
      BY <1>0, <2>3, StateTypes DEF Snapshot
    <3>3. snap' = [snap EXCEPT ![b] = gs] /\ since' = [since EXCEPT ![b] = Handled]
          /\ ws' = [ws EXCEPT ![b] = "snapped"] /\ UNCHANGED <<gs, locked, whole, greetedAt>>
      BY <2>3 DEF Snapshot
    <3>4. \A s \in Snapped' : snap'[s] # None
      BY <1>0, <3>2, <3>3
    <3>5. \A t \in Threads : Busy(t) => \A s \in Browsers : since'[s] < handling[t].number
      BY <1>0, <3>1, <3>3
    <3> QED BY <1>0, <3>1, <3>2, <3>3, <3>4, <3>5
  <2>4. CASE SnapshotPanics(b)
    BY <1>0, <2>4 DEF SnapshotPanics
  <2>5. CASE Greet(b)
    BY <1>0, <2>5 DEF Greet
  <2> QED BY <2>1, <2>2, <2>3, <2>4, <2>5
<1>3. TypeOK'
  BY <1>0, <1>1, <1>2 DEF TypeOK, feedVars, streamVars
<1>4. HandlingInv'
  BY <1>0, <1>1, <1>2 DEF HandlingInv, feedVars, streamVars, Busy, IsUpdate, IsReply
<1> QED BY <1>3, <1>4 DEF TypeInv

LEMMA TypeStep == TypeInv /\ [Next]_vars => TypeInv'
<1> SUFFICES ASSUME TypeInv, [Next]_vars PROVE TypeInv'
  OBVIOUS
<1>0. TypeOK /\ HandlingInv /\ MaxFeed \in Nat /\ MaxConnects \in Nat
  BY RelayAssumption DEF TypeInv, RelayAssumption
<1>1. CASE Take
  <2>1. taken' \in 0 .. Len(msgs) /\ Len(msgs) - taken' \in 0 .. BcastCap
        /\ greetedAt \in [Browsers -> 0 .. taken']
    BY <1>0, <1>1, LenProperties, RelayAssumption DEF Take, TypeOK, RelayAssumption
  <2>2. UNCHANGED <<feedVars, handling, stateVars, msgs, browserVars, crossed, whole>>
    BY <1>1 DEF Take
  <2>3. TypeOK'
    BY <1>0, <2>1, <2>2 DEF TypeOK, feedVars, stateVars, browserVars
  <2>4. HandlingInv'
    BY <1>0, <2>2 DEF HandlingInv, feedVars, stateVars, browserVars, Busy, IsUpdate, IsReply, Snapped
  <2> QED BY <2>3, <2>4 DEF TypeInv
<1>2. CASE Connect
  <2>1. feed' \in 0 .. MaxFeed /\ feed' >= feed /\ reply' \in 0 .. MaxFeed \cup {None}
        /\ connects' \in 0 .. MaxConnects
    BY <1>0, <1>2 DEF Connect, TypeOK
  <2>2. gs' \in States \cup {Nil} /\ locked' \in BOOLEAN /\ whole' \in BOOLEAN
        /\ link' \in {"down", "signalr", "legacy"} /\ crashed' \in BOOLEAN /\ crossed' \in BOOLEAN
    BY <1>0, <1>2, StateTypes DEF Connect, TypeOK
  <2> QED BY <1>2, <2>1, <2>2, TypeBeside DEF Connect
<1>3. CASE Disconnect
  BY <1>0, <1>3, TypeBeside DEF Disconnect, TypeOK, stateVars
<1>4. CASE ReceiveUpdate
  <2>1. PICK lap \in {FALSE, link = "signalr" /\ feed + 1 \in LapChanges} :
          Begin("stream", [kind |-> "update", change |-> feed + 1, lap |-> lap])
    BY <1>4 DEF ReceiveUpdate
  <2> DEFINE m == [kind |-> "update", change |-> feed + 1, lap |-> lap]
  <2>2. feed' = feed + 1 /\ feed' \in 1 .. MaxFeed /\ link # "down"
        /\ UNCHANGED <<link, connects, reply, stateVars, browserVars, whole>>
    BY <1>0, <1>4 DEF ReceiveUpdate, TypeOK
  <2>3. m \in Messages /\ m.kind = "update"
    BY <2>2, MessageKinds
  <2>4. reply' \in 0 .. MaxFeed \cup {None}
    BY <1>0, <2>2 DEF TypeOK
  <2> HIDE DEF m
  <2>5. Begin("stream", m)
    BY <2>1 DEF m
  <2> QED BY <2>2, <2>3, <2>4, <2>5, BeginTypes, TwoThreads
<1>5. CASE ReceiveReply
  <2>1. PICK good \in BOOLEAN :
          Begin(ReplyThread, [kind |-> "reply", upto |-> reply, good |-> good])
    BY <1>5 DEF ReceiveReply
  <2> DEFINE m == [kind |-> "reply", upto |-> reply, good |-> good]
  <2>2. reply \in 0 .. MaxFeed /\ reply' = None
        /\ UNCHANGED <<feed, link, connects, stateVars, browserVars, whole>>
    BY <1>0, <1>5 DEF ReceiveReply, TypeOK
  <2>3. m \in Messages /\ m.kind = "reply"
    BY <2>2, MessageKinds
  <2>4. link # "down" /\ ReplyThread \in Threads /\ reply' \in 0 .. MaxFeed \cup {None}
        /\ feed' \in 0 .. MaxFeed
    BY <1>0, <1>5, <2>2 DEF ReceiveReply, HandlingInv, ReplyThread, Threads, TypeOK
  <2> HIDE DEF m
  <2>5. Begin(ReplyThread, m)
    BY <2>1 DEF m
  <2> QED BY <2>2, <2>3, <2>4, <2>5, BeginTypes
<1>6. ASSUME NEW t \in Threads, ApplyReply(t) PROVE TypeInv'
  <2> DEFINE m == handling[t].msg
  <2>1. Busy(t) /\ m.kind = "reply" /\ m \in Messages
    BY <1>0, <1>6, HandlingFields DEF ApplyReply, Applies, Busy
  <2>2. m.upto \in 0 .. MaxFeed /\ m.good \in BOOLEAN
    BY <2>1, MessageKinds
  <2>3. gs' \in States \cup {Nil}
    <3>1. gs' = NewGlobalState(m)
      BY <1>6 DEF ApplyReply
    <3>2. CASE ~m.good
      BY <3>1, <3>2 DEF NewGlobalState
    <3>3. CASE m.good
      <4> DEFINE l == IF gs # Nil /\ gs.keyed THEN gs.laps ELSE {}
      <4>1. gs' = [changes |-> 1 .. m.upto, laps |-> l, keyed |-> TRUE]
        BY <3>1, <3>3 DEF NewGlobalState
      <4>2. l \in SUBSET (1 .. MaxFeed) /\ 1 .. m.upto \in SUBSET (1 .. MaxFeed)
        BY <1>0, <2>2, StateTypes DEF TypeOK
      <4> HIDE DEF l
      <4> QED BY <4>1, <4>2 DEF States
    <3> QED BY <3>2, <3>3
  <2>4. whole' \in BOOLEAN /\ locked' \in BOOLEAN /\ crashed' \in BOOLEAN
        /\ (skipped' = 0 \/ skipped' = skipped) /\ Finish(t)
        /\ UNCHANGED <<feedVars, streamVars, browserVars>>
    BY <1>0, <1>6, <2>2 DEF ApplyReply, TypeOK
  <2> QED BY <2>1, <2>3, <2>4, FinishTypes
<1>7. CASE ApplyUpdate
  BY <1>7, ApplyUpdateTypes
<1>8. CASE AnnounceLap
  BY <1>8, AnnounceLapTypes
<1>9. CASE IgnoreLegacyUpdate \/ SkipUpdate \/ ReconnectPanics
  <2>1. Finish("stream") /\ IsUpdate("stream") /\ Busy("stream")
        /\ UNCHANGED <<feedVars, streamVars, browserVars>>
    BY <1>9 DEF IgnoreLegacyUpdate, SkipUpdate, ReconnectPanics, Applies, IsUpdate, Busy
  <2>2. gs' \in States \cup {Nil} /\ locked' \in BOOLEAN /\ whole' \in BOOLEAN /\ crashed' \in BOOLEAN
    BY <1>0, <1>9 DEF IgnoreLegacyUpdate, SkipUpdate, ReconnectPanics, stateVars, TypeOK
  <2>3. skipped' = skipped \/ skipped' = skipped + 1
    BY <1>9 DEF IgnoreLegacyUpdate, SkipUpdate, ReconnectPanics, stateVars
  <2> QED BY <2>1, <2>2, <2>3, FinishTypes, TwoThreads
<1>10. CASE Browser
  BY <1>10, BrowserTypes DEF Browser
<1>11. CASE UNCHANGED vars
  BY <1>0, <1>11 DEF vars, feedVars, stateVars, streamVars, browserVars,
     TypeInv, TypeOK, HandlingInv, Busy, IsUpdate, IsReply, Snapped
<1> QED BY <1>1, <1>2, <1>3, <1>4, <1>5, <1>6, <1>7, <1>8, <1>9, <1>10, <1>11
        DEF Next, Feed, Handle

\* Type correctness; in particular run() takes no message that was not broadcast,
\* the broadcast channel keeps its capacity, whoever broadcasts, no browser is
\* greeted ahead of what run() has taken, and no update is skipped twice.
THEOREM TypeCorrect == Spec => []TypeOK
<1>1. TypeInv => TypeOK
  BY DEF TypeInv
<1> QED BY <1>1, TypeInit, TypeStep, PTL DEF Spec

-----------------------------------------------------------------------------
(* What the handlers' steps do, in terms of the state before. *)

\* The stream grows by m.
Grows(m) ==
  /\ msgs \in Seq(Messages) /\ msgs' \in Seq(Messages)
  /\ Len(msgs) \in Nat /\ Len(msgs') = Len(msgs) + 1
  /\ DOMAIN msgs = 1 .. Len(msgs) /\ DOMAIN msgs' = 1 .. Len(msgs) + 1
  /\ \A i \in 1 .. Len(msgs) : msgs'[i] = msgs[i]
  /\ msgs'[Len(msgs) + 1] = m

LEMMA UpdateReceived ==
  ASSUME TypeInv, ReceiveUpdate
  PROVE  \E m \in Messages :
           /\ m.kind = "update" /\ m.change = feed + 1 /\ feed + 1 \in 1 .. MaxFeed
           /\ feed' = feed + 1
           /\ Grows(m)
           /\ ~Busy("stream") /\ Busy("stream")'
           /\ handling'["stream"].msg = m /\ handling'["stream"].number = Len(msgs) + 1
           /\ handling'["subscribe"] = handling["subscribe"]
           /\ crossed' = (crossed \/ Busy("subscribe") \/ reply # None)
           /\ UNCHANGED <<link, connects, reply, stateVars, browserVars, whole>>
<1>0. TypeOK /\ msgs \in Seq(Messages) /\ crossed \in BOOLEAN
  BY DEF TypeInv, TypeOK
<1>1. PICK lap \in {FALSE, link = "signalr" /\ feed + 1 \in LapChanges} :
        Begin("stream", [kind |-> "update", change |-> feed + 1, lap |-> lap])
  BY DEF ReceiveUpdate
<1> DEFINE m == [kind |-> "update", change |-> feed + 1, lap |-> lap]
<1>2. feed + 1 \in 1 .. MaxFeed /\ feed' = feed + 1 /\ link # "down"
      /\ UNCHANGED <<link, connects, reply, stateVars, browserVars, whole>>
  BY <1>0, RelayAssumption DEF ReceiveUpdate, TypeOK, RelayAssumption
<1>3. m \in Messages /\ m.kind = "update" /\ m.change = feed + 1
  BY <1>2, MessageKinds
<1>4. Begin("stream", m)
  BY <1>1
<1> HIDE DEF m
<1>5. Grows(m)
  <2>1. Broadcast(m)
    BY <1>4 DEF Begin
  <2> QED BY <1>0, <1>3, <2>1, BroadcastEffect DEF Grows
<1>6. /\ ~Busy("stream") /\ Busy("stream")'
      /\ handling'["stream"].msg = m /\ handling'["stream"].number = Len(msgs) + 1
      /\ handling'["subscribe"] = handling["subscribe"]
  BY <1>0, <1>2, <1>3, <1>4, BeginEffect, TwoThreads
<1>7. crossed' = (crossed \/ Busy("subscribe") \/ reply # None)
  BY <1>0, <1>3, <1>4, TwoThreads DEF Begin, Busy
<1> QED BY <1>2, <1>3, <1>5, <1>6, <1>7

LEMMA ReplyReceived ==
  ASSUME TypeInv, ReceiveReply
  PROVE  \E t \in Threads, m \in Messages :
           /\ m.kind = "reply" /\ m.upto = reply /\ reply \in 0 .. MaxFeed
           /\ reply' = None
           /\ Grows(m)
           /\ ~Busy(t) /\ Busy(t)'
           /\ handling'[t].msg = m /\ handling'[t].number = Len(msgs) + 1
           /\ \A u \in Threads : u # t => handling'[u] = handling[u]
           /\ crossed' = (crossed \/ Busy(Other(t)))
           /\ UNCHANGED <<feed, link, connects, stateVars, browserVars, whole>>
<1>0. TypeOK /\ HandlingInv /\ msgs \in Seq(Messages) /\ crossed \in BOOLEAN
  BY DEF TypeInv, TypeOK
<1>1. PICK good \in BOOLEAN :
        Begin(ReplyThread, [kind |-> "reply", upto |-> reply, good |-> good])
  BY DEF ReceiveReply
<1> DEFINE m == [kind |-> "reply", upto |-> reply, good |-> good]
<1>2. reply \in 0 .. MaxFeed /\ reply' = None /\ link # "down" /\ ReplyThread \in Threads
      /\ UNCHANGED <<feed, link, connects, stateVars, browserVars, whole>>
  BY <1>0 DEF ReceiveReply, HandlingInv, ReplyThread, Threads, TypeOK
<1>3. m \in Messages /\ m.kind = "reply" /\ m.upto = reply
  BY <1>2, MessageKinds
<1>4. Begin(ReplyThread, m)
  BY <1>1
<1> HIDE DEF m
<1>5. Grows(m)
  <2>1. Broadcast(m)
    BY <1>4 DEF Begin
  <2> QED BY <1>0, <1>3, <2>1, BroadcastEffect DEF Grows
<1>6. /\ ~Busy(ReplyThread) /\ handling' \in [Threads -> Handling \cup {None}]
      /\ handling'[ReplyThread].msg = m /\ handling'[ReplyThread].number = Len(msgs) + 1
      /\ \A u \in Threads : u # ReplyThread => handling'[u] = handling[u]
  BY <1>0, <1>2, <1>3, <1>4, BeginEffect
<1>7. PICK t \in Threads : t = ReplyThread
  BY <1>2
<1>8. Busy(t)'
  BY <1>0, <1>2, <1>3, <1>4, <1>7, BeginEffect
<1>9. crossed' = (crossed \/ Busy(Other(t)))
  BY <1>0, <1>3, <1>4, <1>7 DEF Begin, Busy
<1> QED BY <1>2, <1>3, <1>5, <1>6, <1>7, <1>8, <1>9

\* When a thread is done the other one's message still crosses what did.
Done(t) ==
  /\ Busy(t) /\ ~Busy(t)'
  /\ \A u \in Threads : u # t => handling'[u] = handling[u]
  /\ crossed' = (crossed /\ (Busy(Other(t)) \/ (t = "stream" /\ reply # None)))

LEMMA ReplyApplied ==
  ASSUME TypeInv, NEW t \in Threads, ApplyReply(t)
  PROVE  /\ IsReply(t) /\ handling[t].msg.upto \in 0 .. MaxFeed
         /\ Done(t)
         /\ gs' # Nil => /\ gs'.changes = 1 .. handling[t].msg.upto
                         /\ gs'.laps = {} \/ (gs # Nil /\ gs'.laps = gs.laps)
         /\ whole' => ~crossed /\ gs' # Nil
         /\ UNCHANGED <<feedVars, streamVars, browserVars>>
<1>0. TypeOK
  BY DEF TypeInv
<1>1. IsReply(t)
  BY DEF ApplyReply, Applies, IsReply, Busy
<1>2. handling[t].msg \in Messages
  BY <1>0, <1>1, HandlingFields DEF IsReply
<1>3. handling[t].msg.upto \in 0 .. MaxFeed /\ handling[t].msg.good \in BOOLEAN
  BY <1>1, <1>2, MessageKinds DEF IsReply
<1>4. Finish(t) /\ UNCHANGED <<feedVars, streamVars, browserVars>>
      /\ gs' = NewGlobalState(handling[t].msg)
      /\ whole' = (handling[t].msg.good /\ ~crossed)
  BY DEF ApplyReply
<1>5. Done(t)
  BY <1>0, <1>1, <1>4, FinishEffect DEF Done, Finish, Busy, IsReply
<1>6. gs' # Nil => /\ gs'.changes = 1 .. handling[t].msg.upto
                   /\ gs'.laps = {} \/ (gs # Nil /\ gs'.laps = gs.laps)
  BY <1>4 DEF NewGlobalState
<1>7. whole' => ~crossed /\ gs' # Nil
  <2>1. whole' => handling[t].msg.good /\ ~crossed
    BY <1>4
  <2>2. gs' \in States \cup {Nil}
    BY TypeStep DEF Next, Handle, TypeInv, TypeOK
  <2> DEFINE l == IF gs # Nil /\ gs.keyed THEN gs.laps ELSE {}
  <2>3. handling[t].msg.good =>
          gs' = [changes |-> 1 .. handling[t].msg.upto, laps |-> l, keyed |-> TRUE]
    BY <1>4 DEF NewGlobalState
  <2>4. l \in SUBSET (1 .. MaxFeed) /\ 1 .. handling[t].msg.upto \in SUBSET (1 .. MaxFeed)
    BY <1>0, <1>3, StateTypes, RelayAssumption DEF TypeOK, RelayAssumption
  <2>5. handling[t].msg.good => gs' \in States
    <3> DEFINE n == handling[t].msg.upto
    <3>1. SUFFICES ASSUME handling[t].msg.good PROVE gs' \in States
      OBVIOUS
    <3>2. gs' = [changes |-> 1 .. n, laps |-> l, keyed |-> TRUE]
      BY <2>3, <3>1
    <3>3. 1 .. n \in SUBSET (1 .. MaxFeed)
      BY <2>4
    <3> HIDE DEF l, n
    <3> QED BY <2>4, <3>2, <3>3 DEF States
  <2> QED BY <2>1, <2>5, StateTypes
<1> QED BY <1>1, <1>3, <1>4, <1>5, <1>6, <1>7

LEMMA UpdateApplied ==
  ASSUME TypeInv, ApplyUpdate
  PROVE  LET m == handling["stream"].msg IN
         /\ IsUpdate("stream") /\ m \in Messages /\ m.change \in 1 .. MaxFeed
         /\ gs # Nil /\ gs' # Nil /\ gs'.changes = gs.changes \cup {m.change}
         /\ \/ Done("stream") /\ gs'.laps = gs.laps
            \/ /\ gs'.laps = gs.laps \cup {m.change}
               /\ Busy("stream")' /\ handling'["stream"].msg = [kind |-> "lap", change |-> m.change]
               /\ handling'["stream"].number = handling["stream"].number
               /\ handling'["subscribe"] = handling["subscribe"]
               /\ crossed' = crossed
         /\ whole' = (whole /\ ~crossed)
         /\ UNCHANGED <<feedVars, streamVars, browserVars>>
<1> DEFINE m == handling["stream"].msg
<1>0. TypeOK /\ IsUpdate("stream") /\ gs \in States
  BY DEF TypeInv, TypeOK, ApplyUpdate, Applies, IsUpdate, Busy
<1>1. m \in Messages /\ m.change \in 1 .. MaxFeed
  BY <1>0, HandlingFields, MessageKinds, TwoThreads DEF IsUpdate
<1>2. gs' # Nil
  <2>1. gs' \in States
    <3>1. \/ gs' = [gs EXCEPT !.changes = @ \cup {m.change}, !.laps = @ \cup {m.change}]
          \/ gs' = [gs EXCEPT !.changes = @ \cup {m.change}]
      BY DEF ApplyUpdate
    <3>2. /\ gs.changes \cup {m.change} \in SUBSET (1 .. MaxFeed)
          /\ gs.laps \cup {m.change} \in SUBSET (1 .. MaxFeed)
          /\ gs = [changes |-> gs.changes, laps |-> gs.laps, keyed |-> gs.keyed]
          /\ gs.keyed \in BOOLEAN
      BY <1>0, <1>1 DEF States
    <3> HIDE DEF m
    <3>3. CASE gs' = [gs EXCEPT !.changes = @ \cup {m.change}, !.laps = @ \cup {m.change}]
      BY <1>0, <3>2, <3>3 DEF States
    <3>4. CASE gs' = [gs EXCEPT !.changes = @ \cup {m.change}]
      BY <1>0, <3>2, <3>4 DEF States
    <3> QED BY <3>1, <3>3, <3>4
  <2> QED BY <2>1, StateTypes
<1>3. UNCHANGED <<feedVars, streamVars, browserVars>> /\ whole' = (whole /\ ~crossed)
  BY DEF ApplyUpdate
<1>4. CASE ~m.lap
  <2>1. Finish("stream") /\ gs' = [gs EXCEPT !.changes = @ \cup {m.change}]
    BY <1>4 DEF ApplyUpdate
  <2>2. Done("stream")
    BY <1>0, <2>1, FinishEffect, TwoThreads DEF Done, Finish, Busy, IsUpdate
  <2>3. gs'.changes = gs.changes \cup {m.change} /\ gs'.laps = gs.laps
    <3> HIDE DEF m
    <3> QED BY <1>0, <2>1 DEF States
  <2> QED BY <1>0, <1>1, <1>2, <1>3, <2>2, <2>3, StateTypes
<1>5. CASE m.lap
  <2>1. handling' = [handling EXCEPT !["stream"].msg = [kind |-> "lap", change |-> m.change]]
        /\ gs' = [gs EXCEPT !.changes = @ \cup {m.change}, !.laps = @ \cup {m.change}]
        /\ crossed' = crossed
    BY <1>5 DEF ApplyUpdate
  <2>2. /\ Busy("stream")' /\ handling'["stream"].msg = [kind |-> "lap", change |-> m.change]
        /\ handling'["stream"].number = handling["stream"].number
        /\ handling'["subscribe"] = handling["subscribe"]
    <3> DEFINE c == m.change
    <3>1. Busy("stream") /\ c \in 1 .. MaxFeed /\ TypeOK
      BY <1>0, <1>1 DEF IsUpdate
    <3>2. handling' = [handling EXCEPT !["stream"].msg = [kind |-> "lap", change |-> c]]
      BY <2>1
    <3> HIDE DEF c
    <3>3. /\ Busy("stream")' /\ handling'["stream"].msg = [kind |-> "lap", change |-> c]
          /\ handling'["stream"].number = handling["stream"].number
          /\ handling'["subscribe"] = handling["subscribe"]
      BY <3>1, <3>2, LapEffect
    <3> QED BY <3>3 DEF c
  <2>3. gs'.changes = gs.changes \cup {m.change} /\ gs'.laps = gs.laps \cup {m.change}
    <3> HIDE DEF m
    <3> QED BY <1>0, <2>1 DEF States
  <2> QED BY <1>0, <1>1, <1>2, <1>3, <2>1, <2>2, <2>3, StateTypes
<1> QED BY <1>4, <1>5

LEMMA LapAnnounced ==
  ASSUME TypeInv, AnnounceLap
  PROVE  LET m == handling["stream"].msg IN
         /\ Busy("stream") /\ m \in Messages /\ m = [kind |-> "lap", change |-> m.change]
         /\ Grows(m) /\ Done("stream")
         /\ UNCHANGED <<feedVars, gs, browserVars, whole>>
<1> DEFINE m == handling["stream"].msg
<1>0. TypeOK /\ msgs \in Seq(Messages) /\ Busy("stream") /\ m.kind = "lap"
  BY DEF TypeInv, TypeOK, AnnounceLap, Applies, Busy
<1>1. m \in Messages
  BY <1>0, HandlingFields, TwoThreads
<1>2. m = [kind |-> "lap", change |-> m.change]
  <2> HIDE DEF m
  <2> QED BY <1>0, <1>1, LapMessage
<1>3. Broadcast(m) /\ Finish("stream") /\ UNCHANGED <<feedVars, gs, browserVars, whole>>
  BY DEF AnnounceLap
<1>4. Grows(m)
  <2> HIDE DEF m
  <2> QED BY <1>0, <1>1, <1>3, BroadcastEffect DEF Grows
<1>5. Done("stream")
  BY <1>0, <1>3, FinishEffect, TwoThreads DEF Done, Finish, Busy
<1> QED BY <1>0, <1>1, <1>2, <1>3, <1>4, <1>5

LEMMA UpdateDropped ==
  ASSUME TypeInv, IgnoreLegacyUpdate \/ SkipUpdate \/ ReconnectPanics
  PROVE  /\ IsUpdate("stream") /\ Done("stream")
         /\ UNCHANGED <<feedVars, gs, streamVars, browserVars>>
         /\ ~whole' \/ (gs = Nil /\ whole' = whole)
<1>0. TypeOK
  BY DEF TypeInv
<1>1. /\ IsUpdate("stream") /\ Finish("stream")
      /\ UNCHANGED <<feedVars, gs, streamVars, browserVars>>
      /\ ~whole' \/ (gs = Nil /\ whole' = whole)
  <2>1. CASE IgnoreLegacyUpdate
    BY <2>1 DEF IgnoreLegacyUpdate, Applies, IsUpdate, Busy, stateVars
  <2>2. CASE SkipUpdate
    BY <2>2 DEF SkipUpdate, Applies, IsUpdate, Busy
  <2>3. CASE ReconnectPanics
    BY <2>3 DEF ReconnectPanics, Applies, IsUpdate, Busy
  <2> QED BY <2>1, <2>2, <2>3
<1>2. Done("stream")
  BY <1>0, <1>1, FinishEffect, TwoThreads DEF Done, Finish, Busy, IsUpdate
<1> QED BY <1>1, <1>2

\* What a browser does: nothing but look, make the empty state, take a snapshot
\* or be greeted with it.
LEMMA BrowserSteps ==
  ASSUME TypeInv, NEW b \in Browsers,
         Arrive(b) \/ MakeEmpty(b) \/ Snapshot(b) \/ SnapshotPanics(b) \/ Greet(b)
  PROVE  /\ UNCHANGED <<feedVars, handling, streamVars, crossed>>
         /\ \/ /\ gs' = gs /\ whole' = whole
               /\ Snapped' = Snapped /\ snap' = snap /\ since' = since
            \/ /\ gs' = Empty /\ whole' = FALSE
               /\ Snapped' = Snapped /\ snap' = snap /\ since' = since
            \/ /\ gs' = gs /\ whole' = whole /\ gs # Nil
               /\ Snapped' = Snapped \cup {b}
               /\ snap'[b] = gs /\ since'[b] = Handled
               /\ \A s \in Snapped : s # b => snap'[s] = snap[s] /\ since'[s] = since[s]
               /\ b \notin Snapped
<1>0. TypeOK
  BY DEF TypeInv
<1>1. UNCHANGED <<feedVars, handling, streamVars, crossed>>
  BY DEF Arrive, MakeEmpty, Snapshot, SnapshotPanics, Greet, stateVars
<1> USE DEF TypeOK, Goes, Snapped, stateVars
<1>2. CASE Arrive(b) \/ SnapshotPanics(b)
  BY <1>0, <1>1, <1>2 DEF Arrive, SnapshotPanics
<1>3. CASE MakeEmpty(b)
  BY <1>0, <1>1, <1>3 DEF MakeEmpty
<1>4. CASE Snapshot(b)
  BY <1>0, <1>1, <1>4 DEF Snapshot
<1>5. CASE Greet(b)
  BY <1>0, <1>1, <1>5 DEF Greet
<1> QED BY <1>2, <1>3, <1>4, <1>5

\* The stream only grows, and what its messages say stays.
LEMMA SaysStays ==
  ASSUME (\E m \in Messages : Grows(m)) \/ UNCHANGED msgs
  PROVE  \A i \in DOMAIN msgs : i \in DOMAIN msgs' /\ msgs'[i] = msgs[i]
                                /\ \A k : Says(i, k)' <=> Says(i, k)
BY DEF Grows, Says, Carries

LEMMA SaysNew ==
  ASSUME NEW m \in Messages, Grows(m)
  PROVE  \A n : n = Len(msgs) + 1 =>
           /\ m.kind = "update" => \A k : Says(n, k)' <=> m.change = k
           /\ m.kind = "reply" => \A k : Says(n, k)' <=> k <= m.upto
           /\ m.kind = "lap" => \A k : ~Says(n, k)'
BY DEF Grows, Says, Carries

-----------------------------------------------------------------------------
(* The laps. *)

LEMMA LapsStep == TypeInv /\ LapsInv /\ [Next]_vars => LapsInv'
<1> SUFFICES ASSUME TypeInv, LapsInv, [Next]_vars,
                    gs' # Nil, NEW s \in Snapped', NEW k \in gs'.laps
             PROVE  \/ k \in snap'[s].laps
                    \/ Busy("stream")' /\ handling'["stream"].msg = [kind |-> "lap", change |-> k]
                    \/ \E i \in DOMAIN msgs' : i > since'[s] /\ msgs'[i] = [kind |-> "lap", change |-> k]
  BY DEF LapsInv
<1> DEFINE InSnap    == k \in snap[s].laps
<1> DEFINE Pending   == Busy("stream") /\ handling["stream"].msg = [kind |-> "lap", change |-> k]
<1> DEFINE Announced == \E i \in DOMAIN msgs : i > since[s] /\ msgs[i] = [kind |-> "lap", change |-> k]
<1>0. gs # Nil /\ s \in Snapped /\ k \in gs.laps => InSnap \/ Pending \/ Announced
  BY DEF LapsInv
<1> HIDE DEF InSnap, Pending, Announced
<1>b. UNCHANGED browserVars => Snapped' = Snapped /\ snap' = snap /\ since' = since
  BY DEF browserVars, Snapped
<1> DEFINE Kept ==
      \/ k \in snap'[s].laps
      \/ Busy("stream")' /\ handling'["stream"].msg = [kind |-> "lap", change |-> k]
      \/ \E i \in DOMAIN msgs' : i > since'[s] /\ msgs'[i] = [kind |-> "lap", change |-> k]
<1>g. SUFFICES Kept
  OBVIOUS
<1>1. CASE Take \/ Disconnect
  BY <1>0, <1>b, <1>1 DEF Take, Disconnect, stateVars, streamVars, InSnap, Pending, Announced, Busy
<1>2. CASE Connect
  BY <1>0, <1>b, <1>2 DEF Connect, streamVars, InSnap, Pending, Announced, Busy, Empty
<1>3. CASE ReceiveUpdate
  <2>1. PICK m \in Messages :
          /\ Grows(m) /\ ~Busy("stream")
          /\ UNCHANGED <<link, connects, reply, stateVars, browserVars, whole>>
    BY <1>3, UpdateReceived
  <2>2. Announced => \E i \in DOMAIN msgs' : i > since[s] /\ msgs'[i] = [kind |-> "lap", change |-> k]
    BY <2>1, SaysStays DEF Announced
  <2> QED BY <1>0, <1>b, <2>1, <2>2 DEF InSnap, Pending, stateVars
<1>4. CASE ReceiveReply
  <2>1. PICK t \in Threads, m \in Messages :
          /\ Grows(m) /\ ~Busy(t)
          /\ \A u \in Threads : u # t => handling'[u] = handling[u]
          /\ UNCHANGED <<feed, link, connects, stateVars, browserVars, whole>>
    BY <1>4, ReplyReceived
  <2>2. Announced => \E i \in DOMAIN msgs' : i > since[s] /\ msgs'[i] = [kind |-> "lap", change |-> k]
    BY <2>1, SaysStays DEF Announced
  <2>3. Pending => Busy("stream")' /\ handling'["stream"].msg = [kind |-> "lap", change |-> k]
    BY <2>1, TwoThreads DEF Pending, Busy
  <2> QED BY <1>0, <1>b, <2>1, <2>2, <2>3 DEF InSnap, stateVars
<1>5. ASSUME NEW t \in Threads, ApplyReply(t) PROVE Kept
  <2>1. /\ IsReply(t) /\ Done(t)
        /\ gs' # Nil => gs'.laps = {} \/ (gs # Nil /\ gs'.laps = gs.laps)
        /\ UNCHANGED <<feedVars, streamVars, browserVars>>
    BY <1>5, ReplyApplied
  <2>2. Pending => Busy("stream")' /\ handling'["stream"].msg = [kind |-> "lap", change |-> k]
    BY <2>1, TwoThreads DEF Pending, Done, IsReply, Busy
  <2> QED BY <1>0, <1>b, <2>1, <2>2 DEF InSnap, Announced, streamVars
<1>6. CASE ApplyUpdate
  <2> DEFINE m == handling["stream"].msg
  <2>1. /\ IsUpdate("stream") /\ gs # Nil /\ UNCHANGED <<feedVars, streamVars, browserVars>>
        /\ \/ gs'.laps = gs.laps
           \/ /\ gs'.laps = gs.laps \cup {m.change}
              /\ Busy("stream")' /\ handling'["stream"].msg = [kind |-> "lap", change |-> m.change]
    BY <1>6, UpdateApplied
  <2>2. ~Pending
    BY <2>1 DEF Pending, IsUpdate
  <2>3. k \in gs.laps => Kept
    BY <1>0, <1>b, <2>1, <2>2 DEF InSnap, Announced, streamVars
  <2> QED BY <2>1, <2>3
<1>7. CASE AnnounceLap
  <2> DEFINE m == handling["stream"].msg
  <2>1. /\ m \in Messages /\ m = [kind |-> "lap", change |-> m.change]
        /\ Grows(m) /\ UNCHANGED <<feedVars, gs, browserVars, whole>>
    BY <1>7, LapAnnounced
  <2>2. InSnap => Kept
    BY <1>b, <2>1 DEF InSnap
  <2>3. Announced => Kept
    BY <1>b, <2>1, SaysStays DEF Announced
  <2>4. Pending => Kept
    <3>1. ASSUME Pending PROVE \E i \in DOMAIN msgs' : i > since'[s] /\ msgs'[i] = [kind |-> "lap", change |-> k]
      <4>1. m = [kind |-> "lap", change |-> k]
        BY <3>1 DEF Pending
      <4>2. since[s] \in 0 .. Len(msgs) /\ since'[s] = since[s]
        BY <1>b, <2>1 DEF TypeInv, TypeOK, Snapped
      <4> HIDE DEF m
      <4> QED BY <2>1, <4>1, <4>2 DEF Grows
    <3> QED BY <3>1
  <2> QED BY <1>0, <1>b, <2>1, <2>2, <2>3, <2>4
<1>8. CASE IgnoreLegacyUpdate \/ SkipUpdate \/ ReconnectPanics
  <2>1. IsUpdate("stream") /\ UNCHANGED <<feedVars, gs, streamVars, browserVars>>
    BY <1>8, UpdateDropped
  <2>2. ~Pending
    BY <2>1 DEF Pending, IsUpdate
  <2> QED BY <1>0, <1>b, <2>1, <2>2 DEF InSnap, Announced, streamVars
<1>9. CASE Browser
  <2>1. PICK b \in Browsers : Arrive(b) \/ MakeEmpty(b) \/ Snapshot(b) \/ SnapshotPanics(b) \/ Greet(b)
    BY <1>9 DEF Browser
  <2>2. /\ UNCHANGED <<feedVars, handling, streamVars, crossed>>
        /\ \/ /\ gs' = gs
              /\ Snapped' = Snapped /\ snap' = snap /\ since' = since
           \/ /\ gs' = Empty
              /\ Snapped' = Snapped /\ snap' = snap /\ since' = since
           \/ /\ gs' = gs /\ gs # Nil
              /\ Snapped' = Snapped \cup {b}
              /\ snap'[b] = gs /\ since'[b] = Handled
              /\ \A c \in Snapped : c # b => snap'[c] = snap[c] /\ since'[c] = since[c]
    BY <2>1, BrowserSteps
  <2>3. CASE gs' = gs /\ Snapped' = Snapped /\ snap' = snap /\ since' = since
    BY <1>0, <2>2, <2>3 DEF InSnap, Pending, Announced, streamVars, Busy
  <2>4. CASE gs' = Empty
    BY <2>4 DEF Empty
  <2>5. CASE s = b /\ gs' = gs /\ snap'[b] = gs
    BY <2>5
  <2>6. CASE s # b /\ gs' = gs /\ gs # Nil /\ Snapped' = Snapped \cup {b}
             /\ \A c \in Snapped : c # b => snap'[c] = snap[c] /\ since'[c] = since[c]
    BY <1>0, <2>2, <2>6 DEF InSnap, Pending, Announced, streamVars, Busy
  <2> QED BY <2>2, <2>3, <2>4, <2>5, <2>6
<1>10. CASE UNCHANGED vars
  BY <1>0, <1>b, <1>10 DEF vars, stateVars, streamVars, InSnap, Pending, Announced, Busy
<1> QED BY <1>1, <1>2, <1>3, <1>4, <1>5, <1>6, <1>7, <1>8, <1>9, <1>10 DEF Next, Feed, Handle

\* LapsReachBrowsers: for every number of laps, browsers and connections, once the
\* relay is quiet every browser has every lap of the history, but those announced
\* between its snapshot and its greeting.
THEOREM LapsAreShown == Spec => []LapsReachBrowsers
<1>1. Init => LapsInv
  BY DEF Init, LapsInv
<1>2. TypeInv /\ LapsInv => LapsReachBrowsers
  <2> SUFFICES ASSUME TypeInv, LapsInv, Quiet, gs # Nil, NEW s \in Greeted, NEW k \in gs.laps
               PROVE  k \in ShownLaps(s) \/ \E i \in JoinGap(s) : msgs[i].kind = "lap" /\ Carries(i, k)
    BY DEF LapsReachBrowsers
  <2>1. s \in Snapped /\ s \in Browsers
    BY DEF Greeted, Snapped
  <2>2. ~Busy("stream")
    BY TwoThreads DEF Quiet, Busy
  <2>3. CASE k \in snap[s].laps
    BY <2>3 DEF ShownLaps
  <2>4. ASSUME NEW i \in DOMAIN msgs, i > since[s], msgs[i] = [kind |-> "lap", change |-> k]
        PROVE  k \in ShownLaps(s) \/ \E j \in JoinGap(s) : msgs[j].kind = "lap" /\ Carries(j, k)
    <3>1. i \in 1 .. taken /\ taken \in Nat /\ greetedAt[s] \in Nat
      BY <2>1, LenProperties DEF Quiet, TypeInv, TypeOK
    <3>2. msgs[i].kind = "lap" /\ msgs[i].change = k /\ Carries(i, k)
      BY <2>4 DEF Carries
    <3>3. CASE i <= greetedAt[s]
      BY <2>4, <3>1, <3>2, <3>3 DEF JoinGap
    <3>4. CASE i > greetedAt[s]
      BY <3>1, <3>2, <3>4 DEF ShownLaps, Got
    <3> QED BY <3>1, <3>3, <3>4
  <2> QED BY <2>1, <2>2, <2>3, <2>4 DEF LapsInv
<1> QED BY <1>1, <1>2, TypeInit, TypeStep, LapsStep, PTL DEF Spec

-----------------------------------------------------------------------------
(* The feed's changes. *)

LEMMA Types ==
  ASSUME TypeInv
  PROVE  /\ TypeOK /\ MaxFeed \in Nat /\ feed \in Nat /\ feed <= MaxFeed
         /\ Len(msgs) \in Nat /\ DOMAIN msgs = 1 .. Len(msgs)
         /\ \A i \in DOMAIN msgs : msgs[i] \in Messages
                                   /\ (msgs[i].kind = "reply" => msgs[i].upto \in 0 .. MaxFeed)
         /\ reply # None => reply \in 0 .. MaxFeed
         /\ gs # Nil => gs.changes \subseteq 1 .. MaxFeed
         /\ \A s \in Snapped : s \in Browsers /\ snap[s].changes \subseteq 1 .. MaxFeed
                               /\ since[s] \in 0 .. Len(msgs)
         /\ \A t \in Threads : Busy(t) =>
              handling[t].msg \in Messages /\ handling[t].number \in 1 .. Len(msgs)
<1>0. TypeOK /\ HandlingInv /\ MaxFeed \in Nat
  BY RelayAssumption DEF TypeInv, RelayAssumption
<1>1. feed \in Nat /\ feed <= MaxFeed /\ Len(msgs) \in Nat /\ DOMAIN msgs = 1 .. Len(msgs)
  BY <1>0, LenProperties DEF TypeOK
<1>2. \A i \in DOMAIN msgs : msgs[i] \in Messages
                             /\ (msgs[i].kind = "reply" => msgs[i].upto \in 0 .. MaxFeed)
  <2>1. \A i \in DOMAIN msgs : msgs[i] \in Messages
    BY <1>0, <1>1, ElementOfSeq DEF TypeOK
  <2> QED BY <2>1, MessageKinds
<1>3. \A s \in Snapped : s \in Browsers /\ snap[s].changes \subseteq 1 .. MaxFeed
                         /\ since[s] \in 0 .. Len(msgs)
  <2>1. \A s \in Snapped : s \in Browsers /\ snap[s] \in States /\ since[s] \in 0 .. Len(msgs)
    BY <1>0 DEF TypeOK, HandlingInv, Snapped
  <2> QED BY <2>1, StateTypes
<1>4. \A t \in Threads : Busy(t) =>
        handling[t].msg \in Messages /\ handling[t].number \in 1 .. Len(msgs)
  BY <1>0, HandlingFields DEF HandlingInv
<1>5. (gs # Nil => gs.changes \subseteq 1 .. MaxFeed) /\ (reply # None => reply \in 0 .. MaxFeed)
  BY <1>0, StateTypes DEF TypeOK
<1> QED BY <1>0, <1>1, <1>2, <1>3, <1>4, <1>5

\* What the state has, the feed has made.
LEMMA StateIsOld ==
  ASSUME TypeInv, FeedInv, gs # Nil
  PROVE  \A k \in gs.changes : k \in 1 .. feed
<1> SUFFICES ASSUME NEW k \in gs.changes PROVE k \in 1 .. feed
  OBVIOUS
<1>1. k \in 1 .. MaxFeed /\ feed \in Nat
  BY Types
<1>2. PICK i \in DOMAIN msgs : Says(i, k)
  BY DEF FeedInv
<1> QED BY <1>1, <1>2 DEF FeedInv

LEMMA FeedStep == TypeInv /\ FeedInv /\ [Next]_vars => FeedInv'
<1> SUFFICES ASSUME TypeInv, FeedInv, [Next]_vars PROVE FeedInv'
  OBVIOUS
<1>t. /\ feed \in Nat /\ feed' \in Nat /\ MaxFeed \in Nat
      /\ \A s \in Snapped : snap[s].changes \subseteq 1 .. MaxFeed
      /\ \A i \in DOMAIN msgs : msgs[i].kind = "reply" => msgs[i].upto \in 0 .. MaxFeed
      /\ (reply # None => reply \in 0 .. MaxFeed)
  <2>1. feed' \in Nat
    BY TypeStep, RelayAssumption DEF TypeInv, TypeOK, RelayAssumption
  <2> QED BY <2>1, Types
<1>b. UNCHANGED browserVars => Snapped' = Snapped /\ snap' = snap /\ since' = since
  BY DEF browserVars, Snapped
\* The conjuncts, each when nothing but feed has changed of what it is about.
<1>m. ASSUME feed' >= feed, UNCHANGED msgs
      PROVE  /\ \A i \in DOMAIN msgs' : \A k \in 1 .. MaxFeed : Says(i, k)' => k <= feed'
             /\ \A i \in DOMAIN msgs' : msgs'[i].kind = "reply" => msgs'[i].upto <= feed'
  <2>1. \A n \in Nat : n <= feed => n <= feed'
    BY <1>m, <1>t
  <2>2. \A i \in DOMAIN msgs : i \in DOMAIN msgs' /\ msgs'[i] = msgs[i]
                               /\ \A k : Says(i, k)' <=> Says(i, k)
    BY <1>m, SaysStays
  <2>3. DOMAIN msgs' = DOMAIN msgs /\ 1 .. MaxFeed \subseteq Nat /\ 0 .. MaxFeed \subseteq Nat
    BY <1>m
  <2>4. ASSUME NEW i \in DOMAIN msgs', NEW k \in 1 .. MaxFeed, Says(i, k)' PROVE k <= feed'
    <3>1. i \in DOMAIN msgs /\ Says(i, k) /\ k \in Nat
      BY <2>2, <2>3, <2>4
    <3>2. k <= feed
      BY <3>1 DEF FeedInv
    <3> QED BY <2>1, <3>1, <3>2
  <2>5. ASSUME NEW i \in DOMAIN msgs', msgs'[i].kind = "reply" PROVE msgs'[i].upto <= feed'
    <3>1. i \in DOMAIN msgs /\ msgs'[i] = msgs[i] /\ msgs[i].upto \in Nat
      BY <1>t, <2>2, <2>3, <2>5
    <3>2. msgs[i].upto <= feed
      BY <2>5, <3>1 DEF FeedInv
    <3> QED BY <2>1, <3>1, <3>2
  <2> QED BY <2>4, <2>5
<1>r. ASSUME feed' >= feed, reply' = reply PROVE reply' # None => reply' <= feed'
  <2>1. reply # None => reply \in Nat
    BY <1>t
  <2>2. reply # None => reply <= feed
    BY DEF FeedInv
  <2> QED BY <1>r, <1>t, <2>1, <2>2
<1>g. ASSUME gs' = gs, (\E m \in Messages : Grows(m)) \/ UNCHANGED msgs
      PROVE  gs' # Nil => \A k \in gs'.changes : \E i \in DOMAIN msgs' : Says(i, k)'
  BY <1>g, SaysStays DEF FeedInv
<1>s. ASSUME feed' >= feed, UNCHANGED browserVars
      PROVE  \A s \in Snapped' : \A k \in snap'[s].changes : k <= feed'
  BY <1>s, <1>b, <1>t DEF FeedInv
<1>f. feed' = feed => feed' >= feed
  BY <1>t
<1>1. CASE Take \/ Disconnect
  <2>1. feed' = feed /\ msgs' = msgs /\ gs' = gs /\ UNCHANGED browserVars
        /\ (reply' = reply \/ reply' = None)
    BY <1>1 DEF Take, Disconnect, feedVars, stateVars, streamVars
  <2> QED BY <2>1, <1>f, <1>m, <1>r, <1>g, <1>s DEF FeedInv
<1>2. CASE Connect
  <2>1. feed' >= feed /\ reply' = feed' /\ msgs' = msgs /\ UNCHANGED browserVars
        /\ (gs' = gs \/ gs' = Empty)
    BY <1>2, <1>t DEF Connect, streamVars, TypeInv, TypeOK
  <2>2. gs' # Nil => \A k \in gs'.changes : \E i \in DOMAIN msgs' : Says(i, k)'
    BY <2>1, <1>g DEF Empty
  <2> QED BY <2>1, <2>2, <1>t, <1>m, <1>s DEF FeedInv
<1>3. CASE ReceiveUpdate
  <2>1. PICK m \in Messages :
          /\ m.kind = "update" /\ m.change = feed + 1 /\ feed' = feed + 1
          /\ Grows(m)
          /\ UNCHANGED <<link, connects, reply, stateVars, browserVars, whole>>
    BY <1>3, UpdateReceived
  <2>2. feed' >= feed
    BY <2>1, <1>t
  <2>3. ASSUME NEW i \in DOMAIN msgs', NEW k \in 1 .. MaxFeed, Says(i, k)' PROVE k <= feed'
    <3>1. CASE i = Len(msgs) + 1
      <4>1. m.change = k
        BY <2>1, <2>3, <3>1, SaysNew
      <4> QED BY <2>1, <1>t, <4>1
    <3>2. CASE i # Len(msgs) + 1
      <4>1. i \in DOMAIN msgs /\ Says(i, k)
        BY <2>1, <2>3, <3>2, SaysStays DEF Grows
      <4>2. k <= feed
        BY <4>1 DEF FeedInv
      <4> QED BY <2>1, <1>t, <4>2
    <3> QED BY <3>1, <3>2
  <2>4. ASSUME NEW i \in DOMAIN msgs', msgs'[i].kind = "reply" PROVE msgs'[i].upto <= feed'
    <3>1. i # Len(msgs) + 1
      BY <2>1, <2>4 DEF Grows
    <3>2. i \in DOMAIN msgs /\ msgs'[i] = msgs[i] /\ msgs[i].upto \in Nat
      BY <1>t, <2>1, <2>4, <3>1 DEF Grows
    <3>3. msgs[i].upto <= feed
      BY <2>4, <3>2 DEF FeedInv
    <3> QED BY <1>t, <2>1, <3>2, <3>3
  <2> QED BY <2>1, <2>2, <2>3, <2>4, <1>r, <1>g, <1>s DEF FeedInv, stateVars
<1>4. CASE ReceiveReply
  <2>1. PICK m \in Messages :
          /\ m.kind = "reply" /\ m.upto = reply /\ reply \in 0 .. MaxFeed /\ reply' = None
          /\ Grows(m)
          /\ UNCHANGED <<feed, link, connects, stateVars, browserVars, whole>>
    BY <1>4, ReplyReceived
  <2>2. reply <= feed /\ reply \in Nat
    BY <2>1, NilAssumption DEF FeedInv, NilAssumption
  <2>3. \A i \in DOMAIN msgs' : \A k \in 1 .. MaxFeed : Says(i, k)' => k <= feed'
    BY <2>1, <2>2, <1>t, SaysStays, SaysNew DEF Grows, FeedInv
  <2>4. \A i \in DOMAIN msgs' : msgs'[i].kind = "reply" => msgs'[i].upto <= feed'
    BY <2>1, <2>2, <1>t DEF Grows, FeedInv
  <2> QED BY <2>1, <2>3, <2>4, <1>f, <1>r, <1>g, <1>s DEF FeedInv, stateVars
<1>5. ASSUME NEW t \in Threads, ApplyReply(t) PROVE FeedInv'
  <2> DEFINE n == handling[t].number
  <2>1. /\ IsReply(t) /\ handling[t].msg.upto \in 0 .. MaxFeed
        /\ gs' # Nil => gs'.changes = 1 .. handling[t].msg.upto
        /\ UNCHANGED <<feedVars, streamVars, browserVars>>
    BY <1>5, ReplyApplied
  <2>2. n \in DOMAIN msgs /\ msgs[n] = handling[t].msg
    BY <2>1, Types DEF TypeInv, HandlingInv, IsReply
  <2>3. \A k \in 1 .. handling[t].msg.upto : Says(n, k)
    BY <2>1, <2>2 DEF Says, Carries, IsReply
  <2>4. gs' # Nil => \A k \in gs'.changes : \E i \in DOMAIN msgs' : Says(i, k)'
    <3> HIDE DEF n
    <3> QED BY <2>1, <2>2, <2>3, SaysStays DEF streamVars
  <2> QED BY <2>1, <2>4, <1>f, <1>m, <1>r, <1>s DEF FeedInv, feedVars, streamVars
<1>6. CASE ApplyUpdate
  <2> DEFINE m == handling["stream"].msg
  <2> DEFINE n == handling["stream"].number
  <2>1. /\ IsUpdate("stream") /\ gs # Nil /\ gs' # Nil /\ gs'.changes = gs.changes \cup {m.change}
        /\ UNCHANGED <<feedVars, streamVars, browserVars>>
    BY <1>6, UpdateApplied
  <2>2. n \in DOMAIN msgs /\ msgs[n] = m
    BY <2>1, Types, TwoThreads DEF TypeInv, HandlingInv, IsUpdate
  <2>3. Says(n, m.change)
    BY <2>1, <2>2 DEF Says, Carries, IsUpdate
  <2>4. gs' # Nil => \A k \in gs'.changes : \E i \in DOMAIN msgs' : Says(i, k)'
    <3> HIDE DEF n, m
    <3> QED BY <2>1, <2>2, <2>3, SaysStays DEF streamVars, FeedInv
  <2> QED BY <2>1, <2>4, <1>f, <1>m, <1>r, <1>s DEF FeedInv, feedVars, streamVars
<1>7. CASE AnnounceLap
  <2> DEFINE m == handling["stream"].msg
  <2>1. /\ m \in Messages /\ m = [kind |-> "lap", change |-> m.change]
        /\ Grows(m)
        /\ UNCHANGED <<feedVars, gs, browserVars, whole>>
    BY <1>7, LapAnnounced
  <2>2. m.kind = "lap"
    BY <2>1
  <2> HIDE DEF m
  <2>3. \A i \in DOMAIN msgs' : \A k \in 1 .. MaxFeed : Says(i, k)' => k <= feed'
    BY <2>1, <2>2, <1>t, SaysStays, SaysNew DEF Grows, FeedInv, feedVars
  <2>4. \A i \in DOMAIN msgs' : msgs'[i].kind = "reply" => msgs'[i].upto <= feed'
    BY <2>1, <2>2, <1>t DEF Grows, FeedInv, feedVars
  <2> QED BY <2>1, <2>3, <2>4, <1>f, <1>r, <1>g, <1>s DEF FeedInv, feedVars
<1>8. CASE IgnoreLegacyUpdate \/ SkipUpdate \/ ReconnectPanics
  <2>1. UNCHANGED <<feedVars, gs, streamVars, browserVars>>
    BY <1>8, UpdateDropped
  <2> QED BY <2>1, <1>f, <1>m, <1>r, <1>g, <1>s DEF FeedInv, feedVars, streamVars
<1>9. CASE Browser
  <2>1. PICK b \in Browsers : Arrive(b) \/ MakeEmpty(b) \/ Snapshot(b) \/ SnapshotPanics(b) \/ Greet(b)
    BY <1>9 DEF Browser
  <2>2. /\ UNCHANGED <<feedVars, handling, streamVars, crossed>>
        /\ \/ /\ gs' = gs \/ gs' = Empty
              /\ Snapped' = Snapped /\ snap' = snap /\ since' = since
           \/ /\ gs' = gs /\ gs # Nil
              /\ Snapped' = Snapped \cup {b}
              /\ snap'[b] = gs
              /\ \A c \in Snapped : c # b => snap'[c] = snap[c] /\ since'[c] = since[c]
    BY <2>1, BrowserSteps
  <2>3. gs' # Nil => \A k \in gs'.changes : \E i \in DOMAIN msgs' : Says(i, k)'
    BY <2>2, <1>g DEF Empty, streamVars
  <2>4. \A s \in Snapped' : \A k \in snap'[s].changes : k <= feed'
    BY <2>2, <1>t, StateIsOld DEF FeedInv, feedVars
  <2> QED BY <2>2, <2>3, <2>4, <1>f, <1>m, <1>r DEF FeedInv, feedVars, streamVars
<1>10. CASE UNCHANGED vars
  BY <1>10, <1>f, <1>m, <1>r, <1>g, <1>s DEF FeedInv, vars, feedVars, stateVars, streamVars
<1> QED BY <1>1, <1>2, <1>3, <1>4, <1>5, <1>6, <1>7, <1>8, <1>9, <1>10 DEF Next, Feed, Handle

-----------------------------------------------------------------------------
(* Messages that cross. *)

LEMMA CrossStep == TypeInv /\ CrossInv /\ [Next]_vars => CrossInv'
<1> SUFFICES ASSUME TypeInv, CrossInv, [Next]_vars PROVE CrossInv'
  OBVIOUS
<1>t. Len(msgs) \in Nat /\ crossed \in BOOLEAN
  BY Types DEF TypeOK
<1>u. ASSUME handling' = handling, msgs' = msgs, crossed' = crossed PROVE CrossInv'
  BY <1>u DEF CrossInv, Busy
<1>d. ASSUME NEW t \in Threads, Done(t), msgs' = msgs PROVE CrossInv'
  <2>1. CASE t = "stream"
    BY <1>d, <1>t, <2>1, TwoThreads DEF CrossInv, Done, Busy
  <2>2. CASE t = "subscribe"
    BY <1>d, <1>t, <2>2, TwoThreads DEF CrossInv, Done, Busy
  <2> QED BY <2>1, <2>2, TwoThreads
<1>1. CASE Take \/ Connect
  BY <1>1, <1>u DEF Take, Connect, streamVars
<1>2. CASE Disconnect
  <2>1. handling' = handling /\ msgs' = msgs /\ crossed' = (crossed /\ \E t \in Threads : Busy(t))
    BY <1>2 DEF Disconnect, streamVars, Busy
  <2>2. CASE \E t \in Threads : Busy(t)
    BY <2>1, <2>2, <1>t, <1>u
  <2>3. CASE ~\E t \in Threads : Busy(t)
    BY <2>1, <2>3, TwoThreads DEF CrossInv, Busy
  <2> QED BY <2>2, <2>3
<1>3. CASE ReceiveUpdate
  <2>1. PICK m \in Messages :
          /\ Grows(m) /\ handling'["stream"].number = Len(msgs) + 1
          /\ handling'["subscribe"] = handling["subscribe"]
          /\ crossed' = (crossed \/ Busy("subscribe") \/ reply # None)
    BY <1>3, UpdateReceived
  <2> QED BY <2>1, <1>t, TwoThreads DEF CrossInv, Busy, Grows
<1>4. CASE ReceiveReply
  <2>1. PICK t \in Threads, m \in Messages :
          /\ Grows(m) /\ handling'[t].number = Len(msgs) + 1
          /\ \A u \in Threads : u # t => handling'[u] = handling[u]
          /\ crossed' = (crossed \/ Busy(Other(t)))
    BY <1>4, ReplyReceived
  <2>2. CASE t = "stream"
    BY <2>1, <2>2, <1>t, TwoThreads DEF CrossInv, Busy, Grows
  <2>3. CASE t = "subscribe"
    BY <2>1, <2>3, <1>t, TwoThreads DEF CrossInv, Busy, Grows
  <2> QED BY <2>2, <2>3, TwoThreads
<1>5. ASSUME NEW t \in Threads, ApplyReply(t) PROVE CrossInv'
  BY <1>5, <1>d, ReplyApplied DEF streamVars
<1>6. CASE ApplyUpdate
  <2>1. /\ msgs' = msgs
        /\ \/ Done("stream")
           \/ /\ Busy("stream") /\ Busy("stream")'
              /\ handling'["stream"].number = handling["stream"].number
              /\ handling'["subscribe"] = handling["subscribe"]
              /\ crossed' = crossed
    BY <1>6, UpdateApplied DEF streamVars, IsUpdate
  <2> QED BY <2>1, <1>d, TwoThreads DEF CrossInv, Busy
<1>7. CASE AnnounceLap
  <2>1. Done("stream") /\ \E m \in Messages : Grows(m)
    BY <1>7, LapAnnounced
  <2> QED BY <2>1, <1>t, TwoThreads DEF CrossInv, Done, Busy
<1>8. CASE IgnoreLegacyUpdate \/ SkipUpdate \/ ReconnectPanics
  BY <1>8, <1>d, UpdateDropped, TwoThreads DEF streamVars
<1>9. CASE Browser
  <2>1. PICK b \in Browsers : Arrive(b) \/ MakeEmpty(b) \/ Snapshot(b) \/ SnapshotPanics(b) \/ Greet(b)
    BY <1>9 DEF Browser
  <2>2. UNCHANGED <<feedVars, handling, streamVars, crossed>>
    BY <2>1, BrowserSteps
  <2> QED BY <2>2, <1>u DEF streamVars
<1>10. CASE UNCHANGED vars
  BY <1>10, <1>u DEF vars, streamVars
<1> QED BY <1>1, <1>2, <1>3, <1>4, <1>5, <1>6, <1>7, <1>8, <1>9, <1>10 DEF Next, Feed, Handle

-----------------------------------------------------------------------------
(* The reply under way. *)

\* What a message being handled says, the feed has made.
LEMMA HandledIsOld ==
  ASSUME TypeInv, FeedInv
  PROVE  /\ \A t \in Threads : IsReply(t) => handling[t].msg.upto \in 0 .. feed
         /\ IsUpdate("stream") => handling["stream"].msg.change \in 1 .. feed
<1>t. MaxFeed \in Nat /\ feed \in Nat
  BY Types
<1>1. ASSUME NEW t \in Threads, IsReply(t) PROVE handling[t].msg.upto \in 0 .. feed
  <2> DEFINE n == handling[t].number
  <2>1. n \in DOMAIN msgs /\ msgs[n] = handling[t].msg /\ handling[t].msg.kind = "reply"
    BY <1>1, Types DEF TypeInv, HandlingInv, IsReply
  <2>2. msgs[n].upto <= feed /\ msgs[n].upto \in 0 .. MaxFeed
    BY <2>1, Types DEF FeedInv
  <2> QED BY <1>t, <2>1, <2>2
<1>2. ASSUME IsUpdate("stream") PROVE handling["stream"].msg.change \in 1 .. feed
  <2> DEFINE n == handling["stream"].number
  <2>1. n \in DOMAIN msgs /\ msgs[n] = handling["stream"].msg
        /\ handling["stream"].msg.kind = "update" /\ handling["stream"].msg \in Messages
    BY <1>2, Types, TwoThreads DEF TypeInv, HandlingInv, IsUpdate
  <2>2. handling["stream"].msg.change \in 1 .. MaxFeed
    BY <2>1, MessageKinds
  <2>3. Says(n, handling["stream"].msg.change)
    BY <2>1 DEF Says, Carries
  <2>4. handling["stream"].msg.change <= feed
    BY <2>1, <2>2, <2>3 DEF FeedInv
  <2> QED BY <1>t, <2>2, <2>4
<1> QED BY <1>1, <1>2

\* The snapshots' conjunct: each holds k only up to n, or a later message says it.
After(n) ==
  \A s \in Snapped : \A k \in snap[s].changes :
    k <= n \/ \E i \in DOMAIN msgs : i > since[s] /\ Says(i, k)

LEMMA AfterStays ==
  ASSUME NEW n, After(n), UNCHANGED browserVars, (\E m \in Messages : Grows(m)) \/ UNCHANGED msgs
  PROVE  After(n)'
<1>1. Snapped' = Snapped /\ snap' = snap /\ since' = since
  BY DEF browserVars, Snapped
<1> QED BY <1>1, SaysStays DEF After

LEMMA ReplyStep ==
  TypeInv /\ FeedInv /\ CrossInv /\ ReplyInv /\ [Next]_vars => ReplyInv'
<1> SUFFICES ASSUME TypeInv, FeedInv, CrossInv, ReplyInv, [Next]_vars, reply' # None
             PROVE  ReplyInv'
  BY DEF ReplyInv
<1>t. /\ feed \in Nat /\ MaxFeed \in Nat /\ feed <= MaxFeed /\ Len(msgs) \in Nat
      /\ crossed \in BOOLEAN /\ DOMAIN msgs = 1 .. Len(msgs)
      /\ reply # None => reply \in Nat
  BY Types DEF TypeOK
<1> DEFINE Old(n) == \A t \in Threads : IsReply(t) => handling[t].msg.upto <= n
<1> DEFINE Overtakes(n) == IsUpdate("stream") /\ handling["stream"].msg.change > n => crossed
<1> DEFINE Later(n) ==
      Busy("subscribe") =>
        \A i \in DOMAIN msgs : \A k \in 1 .. MaxFeed :
          Says(i, k) /\ k > n => i > handling["subscribe"].number
<1> DEFINE OldState(n) == ~crossed /\ gs # Nil => \A k \in gs.changes : k <= n
<1> DEFINE OldSnaps(n) == ~crossed \/ Busy("subscribe") => After(n)
<1>p. PICK n : n = reply
  OBVIOUS
<1>q. PICK n2 : n2 = reply'
  OBVIOUS
<1>0. reply # None => Old(n) /\ Overtakes(n) /\ Later(n) /\ OldState(n) /\ OldSnaps(n) /\ n \in Nat
  BY <1>p, <1>t DEF ReplyInv, After
<1>g. SUFFICES Old(n2)' /\ Overtakes(n2)' /\ Later(n2)' /\ OldState(n2)' /\ OldSnaps(n2)'
  BY <1>q DEF ReplyInv, After
<1>s. reply' = reply => n2 = n
  BY <1>p, <1>q
<1>l. ASSUME reply' = reply, handling' = handling, msgs' = msgs, crossed' = crossed, UNCHANGED browserVars,
             gs' = gs \/ gs' = Empty
      PROVE  Old(n2)' /\ Overtakes(n2)' /\ Later(n2)' /\ OldState(n2)' /\ OldSnaps(n2)'
  <2>1. reply # None /\ n2 = n
    BY <1>l, <1>s
  <2>2. Old(n)' /\ Overtakes(n)' /\ Later(n)'
    BY <1>0, <1>l, <2>1 DEF IsReply, IsUpdate, Busy, Says, Carries
  <2>3. OldState(n)'
    BY <1>0, <1>l, <2>1 DEF Empty
  <2>4. OldSnaps(n)'
    BY <1>0, <1>l, <2>1, AfterStays DEF Busy
  <2> QED BY <2>1, <2>2, <2>3, <2>4
<1>1. CASE Take
  BY <1>1, <1>l DEF Take, feedVars, stateVars
<1>2. CASE Connect
  <2>1. /\ n2 \in Nat /\ n2 >= feed /\ UNCHANGED <<handling, crossed, streamVars, browserVars>>
        /\ gs' = gs \/ gs' = Empty
    BY <1>2, <1>q, <1>t DEF Connect
  <2>2. Old(n2)' /\ Overtakes(n2)'
    <3>1. \A t \in Threads : IsReply(t) => handling[t].msg.upto <= n2
      BY <2>1, <1>t, HandledIsOld
    <3>2. IsUpdate("stream") => ~(handling["stream"].msg.change > n2)
      BY <2>1, <1>t, HandledIsOld
    <3> QED BY <2>1, <3>1, <3>2 DEF IsReply, IsUpdate, Busy
  <2>3. Later(n2)'
    <3>1. \A i \in DOMAIN msgs : \A k \in 1 .. MaxFeed : Says(i, k) => ~(k > n2)
      BY <2>1, <1>t DEF FeedInv
    <3> QED BY <2>1, <3>1 DEF streamVars, Says, Carries
  <2>4. OldState(n2)'
    <3>1. gs # Nil => \A k \in gs.changes : k <= n2
      BY <2>1, <1>t, StateIsOld
    <3> QED BY <2>1, <3>1 DEF Empty
  <2>5. OldSnaps(n2)'
    <3>1. After(n2)
      <4>1. \A s \in Snapped : \A k \in snap[s].changes : k \in 1 .. MaxFeed /\ k <= feed
        BY Types DEF FeedInv
      <4> QED BY <2>1, <4>1, <1>t DEF After
    <3> QED BY <2>1, <3>1, AfterStays DEF streamVars
  <2> QED BY <2>2, <2>3, <2>4, <2>5
<1>3. CASE Disconnect \/ ReceiveReply
  BY <1>3 DEF Disconnect, ReceiveReply
<1>4. CASE ReceiveUpdate
  <2>1. PICK m \in Messages :
          /\ m.kind = "update" /\ Grows(m)
          /\ handling'["stream"].msg = m
          /\ handling'["subscribe"] = handling["subscribe"]
          /\ crossed' = (crossed \/ Busy("subscribe") \/ reply # None)
          /\ UNCHANGED <<link, connects, reply, stateVars, browserVars, whole>>
    BY <1>4, UpdateReceived
  <2>2. reply # None /\ n2 = n /\ crossed'
    BY <2>1, <1>s
  <2>3. Old(n)' /\ Overtakes(n)' /\ OldState(n)'
    BY <1>0, <2>1, <2>2, TwoThreads DEF IsReply, Busy
  <2>4. Later(n)'
    <3>1. SUFFICES ASSUME Busy("subscribe"), NEW i \in DOMAIN msgs', NEW k \in 1 .. MaxFeed,
                          Says(i, k)', k > n
                   PROVE  i > handling["subscribe"].number
      BY <2>1 DEF Busy
    <3>2. handling["subscribe"].number \in 1 .. Len(msgs)
      BY <3>1, Types, TwoThreads
    <3>3. CASE i = Len(msgs) + 1
      BY <3>2, <3>3, <1>t
    <3>4. CASE i # Len(msgs) + 1
      <4>1. i \in DOMAIN msgs /\ Says(i, k)
        BY <2>1, <3>1, <3>4, SaysStays DEF Grows
      <4> QED BY <1>0, <2>2, <3>1, <4>1
    <3> QED BY <3>3, <3>4
  <2>5. OldSnaps(n)'
    <3>1. Busy("subscribe")' => Busy("subscribe")
      BY <2>1 DEF Busy
    <3> QED BY <1>0, <2>1, <2>2, <3>1, AfterStays
  <2> QED BY <2>2, <2>3, <2>4, <2>5
<1>d. ASSUME NEW t \in Threads, Done(t), reply' = reply, UNCHANGED browserVars,
             (\E m \in Messages : Grows(m) /\ m.kind = "lap") \/ msgs' = msgs
      PROVE  Old(n2)' /\ Overtakes(n2)' /\ Later(n2)' /\ OldSnaps(n2)'
             /\ (~crossed' => ~crossed \/ t = "subscribe")
  <2>1. reply # None /\ n2 = n
    BY <1>d, <1>s
  <2>2. crossed' => crossed
    BY <1>d, <1>t DEF Done
  <2>3. ~crossed' => ~crossed \/ t = "subscribe"
    BY <1>d, <2>1, <1>t, TwoThreads DEF Done
  <2>4. \A u \in Threads : Busy(u)' => u # t /\ Busy(u) /\ handling'[u] = handling[u]
    BY <1>d DEF Done, Busy
  <2>5. Old(n)'
    BY <1>0, <2>1, <2>4 DEF IsReply
  <2>6. Overtakes(n)'
    <3>1. SUFFICES ASSUME IsUpdate("stream")', handling'["stream"].msg.change > n PROVE crossed'
      OBVIOUS
    <3>2. t = "subscribe" /\ IsUpdate("stream") /\ handling'["stream"] = handling["stream"]
      BY <2>4, <3>1, TwoThreads DEF IsUpdate
    <3>3. crossed /\ Busy("stream")
      BY <1>0, <2>1, <3>1, <3>2 DEF IsUpdate
    <3> QED BY <1>d, <3>2, <3>3, TwoThreads DEF Done
  <2>7. Later(n)'
    <3>1. SUFFICES ASSUME Busy("subscribe")', NEW i \in DOMAIN msgs', NEW k \in 1 .. MaxFeed,
                          Says(i, k)', k > n
                   PROVE  i > handling["subscribe"].number
      BY <2>4, TwoThreads
    <3>2. i \in DOMAIN msgs /\ Says(i, k)
      <4>1. CASE msgs' = msgs
        BY <3>1, <4>1, SaysStays
      <4>2. CASE \E m \in Messages : Grows(m) /\ m.kind = "lap"
        <5>1. PICK m \in Messages : Grows(m) /\ m.kind = "lap"
          BY <4>2
        <5>2. i # Len(msgs) + 1
          BY <3>1, <5>1, SaysNew
        <5> QED BY <3>1, <5>1, <5>2, SaysStays DEF Grows
      <4> QED BY <1>d, <4>1, <4>2
    <3>3. Busy("subscribe")
      BY <2>4, <3>1, TwoThreads
    <3> QED BY <1>0, <2>1, <3>1, <3>2, <3>3
  <2>8. OldSnaps(n)'
    <3>1. Busy("subscribe")' => Busy("subscribe")
      BY <2>4, TwoThreads
    <3>2. ~crossed' \/ Busy("subscribe")' => ~crossed \/ Busy("subscribe")
      BY <1>d, <2>3, <3>1 DEF Done
    <3>3. After(n) => After(n)'
      BY <1>d, AfterStays
    <3> QED BY <1>0, <2>1, <3>2, <3>3
  <2> QED BY <2>1, <2>3, <2>5, <2>6, <2>7, <2>8
<1>5. ASSUME NEW t \in Threads, ApplyReply(t)
      PROVE  Old(n2)' /\ Overtakes(n2)' /\ Later(n2)' /\ OldState(n2)' /\ OldSnaps(n2)'
  <2>1. /\ IsReply(t) /\ handling[t].msg.upto \in 0 .. MaxFeed
        /\ Done(t)
        /\ gs' # Nil => gs'.changes = 1 .. handling[t].msg.upto
        /\ UNCHANGED <<feedVars, streamVars, browserVars>>
    BY <1>5, ReplyApplied
  <2>2. Old(n2)' /\ Overtakes(n2)' /\ Later(n2)' /\ OldSnaps(n2)'
    BY <2>1, <1>d DEF feedVars, streamVars
  <2>3. reply # None /\ n2 = n
    BY <2>1, <1>s DEF feedVars
  <2>4. handling[t].msg.upto <= n
    BY <1>0, <2>1, <2>3
  <2>5. \A k \in 1 .. handling[t].msg.upto : k <= n
    BY <1>0, <1>t, <2>1, <2>3, <2>4
  <2> QED BY <2>1, <2>2, <2>3, <2>5
<1>6. CASE ApplyUpdate
  <2> DEFINE m == handling["stream"].msg
  <2>1. /\ IsUpdate("stream") /\ gs # Nil /\ gs' # Nil /\ gs'.changes = gs.changes \cup {m.change}
        /\ \/ Done("stream")
           \/ /\ handling'["stream"].msg = [kind |-> "lap", change |-> m.change]
              /\ handling'["subscribe"] = handling["subscribe"]
              /\ crossed' = crossed
        /\ m.change \in 1 .. MaxFeed
        /\ UNCHANGED <<feedVars, streamVars, browserVars>>
    BY <1>6, UpdateApplied
  <2>2. reply' = reply /\ reply # None /\ n2 = n /\ msgs' = msgs
    BY <2>1, <1>s DEF feedVars, streamVars
  <2>3. ~crossed => m.change <= n
    BY <1>0, <2>1, <2>2, <1>t
  <2>4. (~crossed' => ~crossed) => OldState(n2)'
    BY <1>0, <2>1, <2>2, <2>3
  <2>5. CASE Done("stream")
    BY <2>1, <2>2, <2>4, <2>5, <1>d, TwoThreads
  <2>6. CASE /\ handling'["stream"].msg = [kind |-> "lap", change |-> m.change]
             /\ handling'["subscribe"] = handling["subscribe"]
             /\ crossed' = crossed
    <3>1. handling'["stream"].msg.kind = "lap"
      BY <2>6
    <3>2. Old(n2)' /\ Overtakes(n2)'
      BY <1>0, <2>2, <2>6, <3>1, TwoThreads DEF IsReply, IsUpdate, Busy
    <3>3. Later(n2)'
      BY <1>0, <2>2, <2>6, SaysStays DEF Busy
    <3>4. OldSnaps(n2)'
      BY <1>0, <2>1, <2>2, <2>6, AfterStays DEF Busy
    <3> QED BY <2>4, <2>6, <3>2, <3>3, <3>4
  <2> QED BY <2>1, <2>5, <2>6
<1>7. CASE AnnounceLap
  <2> DEFINE m == handling["stream"].msg
  <2>1. /\ m \in Messages /\ m = [kind |-> "lap", change |-> m.change]
        /\ Grows(m) /\ Done("stream")
        /\ UNCHANGED <<feedVars, gs, browserVars, whole>>
    BY <1>7, LapAnnounced
  <2>2. m.kind = "lap" /\ reply' = reply
    BY <2>1 DEF feedVars
  <2>3. /\ Old(n2)' /\ Overtakes(n2)' /\ Later(n2)' /\ OldSnaps(n2)'
        /\ ~crossed' => ~crossed
    <3> HIDE DEF m
    <3> QED BY <2>1, <2>2, <1>d, TwoThreads
  <2> QED BY <1>0, <1>s, <2>1, <2>2, <2>3
<1>8. CASE IgnoreLegacyUpdate \/ SkipUpdate \/ ReconnectPanics
  <2>1. Done("stream") /\ UNCHANGED <<feedVars, gs, streamVars, browserVars>>
    BY <1>8, UpdateDropped
  <2>2. /\ Old(n2)' /\ Overtakes(n2)' /\ Later(n2)' /\ OldSnaps(n2)'
        /\ ~crossed' => ~crossed
    BY <2>1, <1>d, TwoThreads DEF feedVars, streamVars
  <2> QED BY <1>0, <1>s, <2>1, <2>2 DEF feedVars
<1>9. CASE Browser
  <2>1. PICK b \in Browsers : Arrive(b) \/ MakeEmpty(b) \/ Snapshot(b) \/ SnapshotPanics(b) \/ Greet(b)
    BY <1>9 DEF Browser
  <2>2. /\ UNCHANGED <<feedVars, handling, streamVars, crossed>>
        /\ \/ /\ gs' = gs \/ gs' = Empty
              /\ Snapped' = Snapped /\ snap' = snap /\ since' = since
           \/ /\ gs' = gs /\ gs # Nil
              /\ Snapped' = Snapped \cup {b}
              /\ snap'[b] = gs /\ since'[b] = Handled
              /\ \A c \in Snapped : c # b => snap'[c] = snap[c] /\ since'[c] = since[c]
    BY <2>1, BrowserSteps
  <2>3. reply' = reply /\ reply # None /\ n2 = n /\ handling' = handling /\ msgs' = msgs
        /\ crossed' = crossed
    BY <2>2, <1>s DEF feedVars, streamVars
  <2>4. Old(n2)' /\ Overtakes(n2)' /\ Later(n2)' /\ OldState(n2)'
    <3>1. Old(n)' /\ Overtakes(n)' /\ Later(n)'
      BY <1>0, <2>3 DEF IsReply, IsUpdate, Busy, Says, Carries
    <3>2. OldState(n)'
      BY <1>0, <2>2, <2>3 DEF Empty
    <3> QED BY <2>3, <3>1, <3>2
  <2>5. OldSnaps(n2)'
    <3>1. SUFFICES ASSUME ~crossed \/ Busy("subscribe"), After(n) PROVE After(n)'
      BY <1>0, <2>3 DEF Busy
    <3>2. CASE Snapped' = Snapped /\ snap' = snap /\ since' = since
      BY <2>3, <3>1, <3>2, SaysStays DEF After
    <3>3. CASE /\ gs' = gs /\ gs # Nil
               /\ Snapped' = Snapped \cup {b}
               /\ snap'[b] = gs /\ since'[b] = Handled
               /\ \A c \in Snapped : c # b => snap'[c] = snap[c] /\ since'[c] = since[c]
      <4>1. ASSUME NEW k \in gs.changes, ~(k <= n)
            PROVE  \E i \in DOMAIN msgs : i > Handled /\ Says(i, k)
        <5>1. crossed /\ Busy("subscribe")
          BY <1>0, <2>3, <3>1, <3>3, <4>1
        <5>2. PICK i \in DOMAIN msgs : Says(i, k)
          BY <3>3 DEF FeedInv
        <5>3. k \in 1 .. MaxFeed /\ k > n
          BY <4>1, <3>3, <1>0, <2>3, Types
        <5>4. i > handling["subscribe"].number
          BY <1>0, <2>3, <5>1, <5>2, <5>3
        <5>5. Handled \in Nat /\ handling["subscribe"].number \in Nat
              /\ Handled < handling["subscribe"].number
          BY <5>1, HandledIsBefore, Types, TwoThreads
        <5> QED BY <1>t, <5>2, <5>4, <5>5
      <4>2. ASSUME NEW s \in Snapped', NEW k \in snap'[s].changes
            PROVE  k <= n \/ \E i \in DOMAIN msgs : i > since'[s] /\ Says(i, k)
        <5>1. CASE s = b
          BY <3>3, <4>1, <4>2, <5>1
        <5>2. CASE s # b
          BY <3>1, <3>3, <4>2, <5>2 DEF After
        <5> QED BY <5>1, <5>2
      <4> QED BY <2>3, <4>2, SaysStays DEF After
    <3> QED BY <2>2, <3>2, <3>3
  <2> QED BY <2>4, <2>5
<1>10. CASE UNCHANGED vars
  BY <1>10, <1>l DEF vars, feedVars, stateVars, streamVars
<1> QED BY <1>1, <1>2, <1>3, <1>4, <1>5, <1>6, <1>7, <1>8, <1>9, <1>10 DEF Next, Feed, Handle

-----------------------------------------------------------------------------
(* The reply being handled. *)

LEMMA HandledReplyStep ==
  TypeInv /\ CrossInv /\ ReplyInv /\ HandledReplyInv /\ [Next]_vars => HandledReplyInv'
<1> SUFFICES ASSUME TypeInv, CrossInv, ReplyInv, HandledReplyInv, [Next]_vars,
                    ~crossed', NEW t \in Threads, IsReply(t)'
             PROVE  /\ gs' # Nil => \A k \in gs'.changes : k <= handling'[t].msg.upto
                    /\ \A s \in Snapped' : \A k \in snap'[s].changes :
                         \/ k <= handling'[t].msg.upto
                         \/ \E i \in DOMAIN msgs' : i > since'[s] /\ Says(i, k)'
  BY DEF HandledReplyInv
<1>p. PICK n : n = handling'[t].msg.upto
  OBVIOUS
<1> DEFINE OldState == gs # Nil => \A k \in gs.changes : k <= n
<1>g. SUFFICES OldState' /\ After(n)'
  BY <1>p DEF After
<1>t. crossed \in BOOLEAN
  BY Types DEF TypeOK
<1>0. ~crossed /\ IsReply(t) /\ handling'[t] = handling[t] => OldState /\ After(n)
  BY <1>p DEF HandledReplyInv, After
<1>l. ASSUME handling' = handling, msgs' = msgs, crossed' = crossed, UNCHANGED browserVars,
             gs' = gs \/ gs' = Empty
      PROVE  OldState' /\ After(n)'
  <2>1. OldState /\ After(n)
    BY <1>0, <1>l DEF IsReply, Busy
  <2> QED BY <1>l, <2>1, AfterStays DEF Empty
\* No reply is left, or it has crossed the message that is done.
<1>d. ASSUME NEW u \in Threads, Done(u) PROVE FALSE
  <2>1. t # u /\ Busy(t) /\ Busy(u)
    BY <1>d DEF Done, IsReply, Busy
  <2>2. Other(u) = t /\ \A v \in Threads : Busy(v)
    BY <2>1, TwoThreads
  <2>3. crossed
    BY <2>2 DEF CrossInv
  <2> QED BY <1>d, <2>1, <2>2, <2>3 DEF Done
<1>1. CASE Take \/ Connect
  BY <1>1, <1>l DEF Take, Connect, stateVars, streamVars
<1>2. CASE Disconnect
  <2>1. handling' = handling /\ msgs' = msgs /\ gs' = gs /\ UNCHANGED browserVars
        /\ crossed' = (crossed /\ \E u \in Threads : Busy(u))
    BY <1>2 DEF Disconnect, stateVars, streamVars, Busy
  <2>2. crossed' = crossed
    BY <2>1, <1>t DEF IsReply, Busy
  <2> QED BY <2>1, <2>2, <1>l
<1>3. CASE ReceiveUpdate
  <2>1. PICK m \in Messages :
          /\ m.kind = "update" /\ handling'["stream"].msg = m
          /\ handling'["subscribe"] = handling["subscribe"]
          /\ crossed' = (crossed \/ Busy("subscribe") \/ reply # None)
    BY <1>3, UpdateReceived
  <2> QED BY <2>1, TwoThreads DEF IsReply, Busy
<1>4. CASE ReceiveReply
  <2>1. PICK u \in Threads, m \in Messages :
          /\ m.kind = "reply" /\ m.upto = reply /\ reply \in 0 .. MaxFeed
          /\ Grows(m) /\ handling'[u].msg = m
          /\ \A v \in Threads : v # u => handling'[v] = handling[v]
          /\ crossed' = (crossed \/ Busy(Other(u)))
          /\ UNCHANGED <<feed, link, connects, stateVars, browserVars, whole>>
    BY <1>4, ReplyReceived
  <2>2. t = u /\ ~crossed
    BY <2>1, TwoThreads DEF IsReply, Busy
  <2>3. n = reply /\ reply # None
    BY <1>p, <2>1, <2>2, NilAssumption DEF NilAssumption
  <2>4. OldState /\ After(n)
    BY <2>2, <2>3 DEF ReplyInv, After
  <2> QED BY <2>1, <2>4, AfterStays DEF stateVars
<1>5. ASSUME NEW u \in Threads, ApplyReply(u) PROVE FALSE
  BY <1>5, <1>d, ReplyApplied
<1>6. CASE ApplyUpdate
  <2>1. \/ Done("stream")
        \/ /\ Busy("stream")
           /\ handling'["stream"].msg = [kind |-> "lap", change |-> handling["stream"].msg.change]
           /\ handling'["subscribe"] = handling["subscribe"]
           /\ crossed' = crossed
    BY <1>6, UpdateApplied DEF IsUpdate
  <2>2. CASE Done("stream")
    BY <2>2, <1>d, TwoThreads
  <2>3. CASE /\ Busy("stream")
             /\ handling'["stream"].msg = [kind |-> "lap", change |-> handling["stream"].msg.change]
             /\ handling'["subscribe"] = handling["subscribe"]
             /\ crossed' = crossed
    <3>1. handling'["stream"].msg.kind = "lap"
      BY <2>3
    <3> QED BY <2>3, <3>1, TwoThreads DEF IsReply, Busy, CrossInv
  <2> QED BY <2>1, <2>2, <2>3
<1>7. CASE AnnounceLap
  BY <1>7, <1>d, LapAnnounced, TwoThreads
<1>8. CASE IgnoreLegacyUpdate \/ SkipUpdate \/ ReconnectPanics
  BY <1>8, <1>d, UpdateDropped, TwoThreads
<1>9. CASE Browser
  <2>1. PICK b \in Browsers : Arrive(b) \/ MakeEmpty(b) \/ Snapshot(b) \/ SnapshotPanics(b) \/ Greet(b)
    BY <1>9 DEF Browser
  <2>2. /\ UNCHANGED <<feedVars, handling, streamVars, crossed>>
        /\ \/ /\ gs' = gs \/ gs' = Empty
              /\ Snapped' = Snapped /\ snap' = snap /\ since' = since
           \/ /\ gs' = gs /\ gs # Nil
              /\ Snapped' = Snapped \cup {b}
              /\ snap'[b] = gs
              /\ \A c \in Snapped : c # b => snap'[c] = snap[c] /\ since'[c] = since[c]
    BY <2>1, BrowserSteps
  <2>3. OldState /\ After(n) /\ msgs' = msgs
    BY <1>0, <2>2 DEF IsReply, Busy, streamVars
  <2>4. After(n)'
    BY <2>2, <2>3, SaysStays DEF After
  <2> QED BY <2>2, <2>3, <2>4 DEF Empty
<1>10. CASE UNCHANGED vars
  BY <1>10, <1>l DEF vars, stateVars, streamVars
<1> QED BY <1>1, <1>2, <1>3, <1>4, <1>5, <1>6, <1>7, <1>8, <1>9, <1>10 DEF Next, Feed, Handle

-----------------------------------------------------------------------------
(* The state and the stream. *)

\* What the messages applied so far say, as far as no reply supersedes it.
Tells(i, k) == Current(i) /\ Says(i, k)

\* A step that changes neither the state nor what the stream has told of it.
LEMMA WholeStays ==
  ASSUME TypeInv, WholeInv, whole, gs' = gs,
         UNCHANGED browserVars, (\E m \in Messages : Grows(m)) \/ UNCHANGED msgs,
         \A i \in DOMAIN msgs' : \A k \in 1 .. MaxFeed :
           Tells(i, k)' <=> i \in DOMAIN msgs /\ Tells(i, k)
  PROVE  WholeInv'
<1>1. Snapped' = Snapped /\ snap' = snap /\ since' = since
  BY DEF browserVars, Snapped
<1>2. \A i \in DOMAIN msgs : i \in DOMAIN msgs' /\ \A k : Says(i, k)' <=> Says(i, k)
  BY SaysStays
<1>3. \A k \in 1 .. MaxFeed :
        k \in gs'.changes <=> \E i \in DOMAIN msgs' : Current(i)' /\ Says(i, k)'
  BY <1>2 DEF WholeInv, Tells
<1>4. ASSUME NEW s \in Snapped', NEW i \in DOMAIN msgs', NEW k \in 1 .. MaxFeed,
             i <= since'[s], Current(i)', Says(i, k)'
      PROVE  k \in snap'[s].changes
  <2>1. i \in DOMAIN msgs /\ Tells(i, k)
    BY <1>4 DEF Tells
  <2> QED BY <1>1, <1>4, <2>1 DEF WholeInv, Tells
<1>5. \A s \in Snapped' : \A k \in snap'[s].changes :
        k \in gs'.changes \/ \E i \in DOMAIN msgs' : i > since'[s] /\ Says(i, k)'
  BY <1>1, <1>2 DEF WholeInv
<1>6. gs' # Nil
  BY DEF WholeInv
<1> QED BY <1>3, <1>4, <1>5, <1>6 DEF WholeInv

\* A message that is broadcast has still to be applied.
LEMMA BegunIsNotCurrent ==
  ASSUME TypeInv, NEW t \in Threads, NEW m \in Messages, m.kind \in {"update", "reply"}, Grows(m),
         ~Busy(t), Busy(t)', handling'[t].msg = m, handling'[t].number = Len(msgs) + 1,
         \A u \in Threads : u # t => handling'[u] = handling[u]
  PROVE  \A i \in DOMAIN msgs' : \A k \in 1 .. MaxFeed :
           Tells(i, k)' <=> i \in DOMAIN msgs /\ Tells(i, k)
<1>1. ASSUME NEW i \in DOMAIN msgs' PROVE Applied(i)' <=> i \in DOMAIN msgs /\ Applied(i)
  <2>0. \A u \in Threads : u # t =>
          (Busy(u)' <=> Busy(u)) /\ (IsUpdate(u)' <=> IsUpdate(u)) /\ (IsReply(u)' <=> IsReply(u))
    BY DEF Busy, IsUpdate, IsReply
  <2>1. IsUpdate(t)' \/ IsReply(t)'
    BY DEF IsUpdate, IsReply
  <2>2. ~IsUpdate(t) /\ ~IsReply(t)
    BY DEF IsUpdate, IsReply
  <2>3. i \in DOMAIN msgs <=> i < handling'[t].number
    BY <1>1 DEF Grows
  <2> QED BY <2>0, <2>1, <2>2, <2>3 DEF Applied
<1>2. ASSUME NEW i \in DOMAIN msgs' PROVE Current(i)' <=> i \in DOMAIN msgs /\ Current(i)
  BY <1>1, <1>2, SaysStays DEF Current
<1> QED BY <1>2, SaysStays DEF Tells

\* The announcement of a lap tells nothing of the feed, and takes the place of a
\* message that is applied already.
LEMMA LapTellsNothing ==
  ASSUME TypeInv, NEW m \in Messages, m.kind = "lap", handling["stream"].msg = m, Grows(m),
         Done("stream")
  PROVE  \A i \in DOMAIN msgs' : \A k \in 1 .. MaxFeed :
           Tells(i, k)' <=> i \in DOMAIN msgs /\ Tells(i, k)
<1>0. /\ IsUpdate("subscribe")' <=> IsUpdate("subscribe")
      /\ IsReply("subscribe")' <=> IsReply("subscribe")
      /\ handling'["subscribe"] = handling["subscribe"]
  BY TwoThreads DEF Done, Busy, IsUpdate, IsReply
<1>1. ~IsUpdate("stream") /\ ~IsReply("stream") /\ ~IsUpdate("stream")' /\ ~IsReply("stream")'
  BY DEF Done, IsUpdate, IsReply
<1>2. ASSUME NEW i \in DOMAIN msgs' PROVE Applied(i)' <=> Applied(i)
  BY <1>0, <1>1, TwoThreads DEF Applied
<1>3. \A j \in DOMAIN msgs' : j \notin DOMAIN msgs => j = Len(msgs) + 1 /\ msgs'[j].kind = "lap"
  BY DEF Grows
<1>4. ASSUME NEW i \in DOMAIN msgs' PROVE Current(i)' <=> Current(i)
  <2>1. \A j \in DOMAIN msgs : j \in DOMAIN msgs' /\ msgs'[j] = msgs[j]
    BY SaysStays
  <2> QED BY <1>2, <1>3, <2>1 DEF Current
<1>5. \A i \in DOMAIN msgs' : i \notin DOMAIN msgs => \A k : ~Says(i, k)'
  BY <1>3, SaysNew
<1> QED BY <1>4, <1>5, SaysStays DEF Tells

\* The reply is applied: it alone tells what the state is.
LEMMA WholeAfterReply ==
  ASSUME TypeInv, CrossInv, HandledReplyInv, NEW t \in Threads, ApplyReply(t), whole'
  PROVE  WholeInv'
<1> DEFINE r == handling[t].number
<1> DEFINE n == handling[t].msg.upto
<1>1. /\ IsReply(t) /\ n \in 0 .. MaxFeed
      /\ Done(t)
      /\ gs' # Nil => gs'.changes = 1 .. n
      /\ ~crossed /\ gs' # Nil
      /\ UNCHANGED <<feedVars, streamVars, browserVars>>
  BY ReplyApplied
<1>t. MaxFeed \in Nat /\ Len(msgs) \in Nat /\ DOMAIN msgs = 1 .. Len(msgs) /\ n \in Nat
  BY <1>1, Types
<1>2. r = Len(msgs) /\ r \in DOMAIN msgs /\ msgs[r] = handling[t].msg /\ msgs[r].kind = "reply"
  BY <1>1, Types DEF CrossInv, TypeInv, HandlingInv, IsReply
<1>3. \A u \in Threads : ~Busy(u)'
  <2>1. ASSUME NEW u \in Threads, u # t, Busy(u)' PROVE FALSE
    <3>1. Busy(u) /\ Busy(t)
      BY <1>1, <2>1 DEF Done, Busy
    <3>2. \A v \in Threads : Busy(v)
      BY <2>1, <3>1, TwoThreads
    <3> QED BY <1>1, <3>2 DEF CrossInv
  <2> QED BY <1>1, <2>1 DEF Done
<1>b. Snapped' = Snapped /\ snap' = snap /\ since' = since /\ msgs' = msgs
  BY <1>1 DEF browserVars, streamVars, Snapped
<1>4. \A i \in DOMAIN msgs' : Applied(i)'
  BY <1>3 DEF Applied, IsUpdate, IsReply
<1>5. ASSUME NEW i \in DOMAIN msgs' PROVE Current(i)' <=> i = r
  <2>1. i \in 1 .. Len(msgs)
    BY <1>5, <1>b, <1>t
  <2>2. CASE i = r
    <3>1. \A j \in DOMAIN msgs : ~(j > i)
      BY <1>2, <1>t, <2>2
    <3> QED BY <1>b, <1>4, <2>2, <3>1 DEF Current
  <2>3. CASE i # r
    <3>1. r > i
      BY <1>2, <1>t, <2>1, <2>3
    <3> HIDE DEF r
    <3> QED BY <1>2, <1>b, <1>4, <2>3, <3>1 DEF Current
  <2> QED BY <2>2, <2>3
<1>6. \A k \in 1 .. MaxFeed : Says(r, k) <=> k <= n
  BY <1>2 DEF Says, Carries
<1>7. \A i \in DOMAIN msgs : \A k : Says(i, k)' <=> Says(i, k)
  BY <1>b, SaysStays
<1> HIDE DEF r
<1>8. \A k \in 1 .. MaxFeed :
        k \in gs'.changes <=> \E i \in DOMAIN msgs' : Current(i)' /\ Says(i, k)'
  <2>1. \A k \in 1 .. MaxFeed : k \in gs'.changes <=> k <= n
    BY <1>1, <1>t
  <2> HIDE DEF n
  <2> QED BY <1>2, <1>b, <1>5, <1>6, <1>7, <2>1
<1>9. \A s \in Snapped' : \A i \in DOMAIN msgs' : \A k \in 1 .. MaxFeed :
        i <= since'[s] /\ Current(i)' /\ Says(i, k)' => k \in snap'[s].changes
  <2>1. \A s \in Snapped : ~(r <= since[s])
    <3>1. \A s \in Browsers : since[s] < r /\ since[s] \in Nat
      BY <1>1, Types DEF TypeInv, HandlingInv, IsReply, TypeOK, r
    <3> QED BY <1>2, <1>t, <3>1 DEF Snapped
  <2> QED BY <1>b, <1>5, <2>1
<1>10. \A s \in Snapped' : \A k \in snap'[s].changes :
         k \in gs'.changes \/ \E i \in DOMAIN msgs' : i > since'[s] /\ Says(i, k)'
  <2>1. \A s \in Snapped : \A k \in snap[s].changes :
          k <= n \/ \E i \in DOMAIN msgs : i > since[s] /\ Says(i, k)
    BY <1>1 DEF HandledReplyInv
  <2>2. \A s \in Snapped : \A k \in snap[s].changes : k <= n => k \in gs'.changes
    BY <1>1, <1>t, Types
  <2> HIDE DEF n
  <2> QED BY <1>b, <1>7, <2>1, <2>2
<1> QED BY <1>1, <1>8, <1>9, <1>10 DEF WholeInv

\* An update that crosses no reply is applied: it tells what it adds.
LEMMA WholeAfterUpdate ==
  ASSUME TypeInv, CrossInv, WholeInv, ApplyUpdate, whole'
  PROVE  WholeInv'
<1> DEFINE r == handling["stream"].number
<1> DEFINE m == handling["stream"].msg
<1>1. /\ IsUpdate("stream") /\ m \in Messages /\ m.change \in 1 .. MaxFeed
      /\ gs # Nil /\ gs' # Nil /\ gs'.changes = gs.changes \cup {m.change}
      /\ \/ Done("stream")
         \/ /\ handling'["stream"].msg = [kind |-> "lap", change |-> m.change]
            /\ handling'["subscribe"] = handling["subscribe"]
      /\ whole' = (whole /\ ~crossed)
      /\ UNCHANGED <<feedVars, streamVars, browserVars>>
  BY UpdateApplied
<1>w. whole /\ ~crossed
  BY <1>1, Types DEF TypeOK
<1>t. MaxFeed \in Nat /\ Len(msgs) \in Nat /\ DOMAIN msgs = 1 .. Len(msgs)
  BY Types
<1>2. r = Len(msgs) /\ r \in DOMAIN msgs /\ msgs[r] = m /\ msgs[r].kind = "update"
  BY <1>1, <1>w, Types, TwoThreads DEF CrossInv, TypeInv, HandlingInv, IsUpdate
<1>3. ~Busy("subscribe") /\ ~Busy("subscribe")'
  <2>1. ~Busy("subscribe")
    BY <1>1, <1>w, TwoThreads DEF CrossInv, IsUpdate
  <2> QED BY <1>1, <2>1, TwoThreads DEF Done, Busy
<1>4. ~IsUpdate("stream")' /\ ~IsReply("stream")'
  <2>1. CASE Done("stream")
    BY <2>1 DEF Done, IsUpdate, IsReply
  <2>2. CASE handling'["stream"].msg = [kind |-> "lap", change |-> m.change]
    <3>1. handling'["stream"].msg.kind = "lap"
      BY <2>2
    <3> QED BY <3>1 DEF IsUpdate, IsReply
  <2> QED BY <1>1, <2>1, <2>2
<1>b. Snapped' = Snapped /\ snap' = snap /\ since' = since /\ msgs' = msgs
  BY <1>1 DEF browserVars, streamVars, Snapped
<1>5. \A i \in DOMAIN msgs' : Applied(i)'
  BY <1>3, <1>4, TwoThreads DEF Applied, IsUpdate, IsReply
<1>6. \A i \in DOMAIN msgs : Applied(i) <=> i < r
  BY <1>1, <1>3, TwoThreads DEF Applied, IsUpdate, IsReply
<1> HIDE DEF r, m
<1>7. ASSUME NEW i \in DOMAIN msgs' PROVE Current(i)' <=> i = r \/ Current(i)
  <2>1. i \in 1 .. Len(msgs)
    BY <1>7, <1>b, <1>t
  <2>2. CASE i = r
    <3>1. \A j \in DOMAIN msgs : ~(j > i)
      BY <1>2, <1>t, <2>2
    <3> QED BY <1>b, <1>5, <2>2, <3>1 DEF Current
  <2>3. CASE i # r
    <3>1. i < r
      BY <1>2, <1>t, <2>1, <2>3
    <3>2. \A j \in DOMAIN msgs : j < r \/ msgs[j].kind # "reply"
      BY <1>2, <1>t
    <3> QED BY <1>b, <1>5, <1>6, <2>3, <3>1, <3>2 DEF Current
  <2> QED BY <2>2, <2>3
<1>8. \A k \in 1 .. MaxFeed : Says(r, k) <=> k = m.change
  BY <1>2 DEF Says, Carries
<1>9. \A i \in DOMAIN msgs : \A k : Says(i, k)' <=> Says(i, k)
  BY <1>b, SaysStays
<1>10. \A k \in 1 .. MaxFeed :
        k \in gs'.changes <=> \E i \in DOMAIN msgs' : Current(i)' /\ Says(i, k)'
  <2> SUFFICES ASSUME NEW k \in 1 .. MaxFeed
               PROVE  k \in gs'.changes <=> \E i \in DOMAIN msgs' : Current(i)' /\ Says(i, k)'
    OBVIOUS
  <2>1. k \in gs.changes <=> \E i \in DOMAIN msgs : Current(i) /\ Says(i, k)
    BY <1>w DEF WholeInv
  <2>2. (\E i \in DOMAIN msgs' : Current(i)' /\ Says(i, k)')
          <=> k = m.change \/ \E i \in DOMAIN msgs : Current(i) /\ Says(i, k)
    BY <1>2, <1>b, <1>7, <1>8, <1>9
  <2> QED BY <1>1, <2>1, <2>2
<1>11. ASSUME NEW s \in Snapped', NEW i \in DOMAIN msgs', NEW k \in 1 .. MaxFeed,
              i <= since'[s], Current(i)', Says(i, k)'
       PROVE  k \in snap'[s].changes
  <2>1. since[s] < r /\ since[s] \in Nat /\ r \in Nat
    <3>1. Busy("stream") /\ s \in Browsers
      BY <1>1, <1>11, <1>b DEF IsUpdate, Snapped
    <3> QED BY <1>2, <1>t, <1>11, <1>b, <3>1, Types, TwoThreads DEF TypeInv, HandlingInv, r
  <2>2. i # r
    BY <1>11, <1>b, <2>1
  <2>3. Current(i) /\ Says(i, k)
    BY <1>7, <1>9, <1>11, <1>b, <2>2
  <2> QED BY <1>11, <1>b, <1>w, <2>3 DEF WholeInv
<1>12. \A s \in Snapped' : \A k \in snap'[s].changes :
         k \in gs'.changes \/ \E i \in DOMAIN msgs' : i > since'[s] /\ Says(i, k)'
  <2>1. \A s \in Snapped : \A k \in snap[s].changes :
          k \in gs.changes \/ \E i \in DOMAIN msgs : i > since[s] /\ Says(i, k)
    BY <1>w DEF WholeInv
  <2> QED BY <1>1, <1>b, <1>9, <2>1
<1> QED BY <1>1, <1>10, <1>11, <1>12 DEF WholeInv

LEMMA WholeStep ==
  TypeInv /\ CrossInv /\ HandledReplyInv /\ WholeInv /\ [Next]_vars => WholeInv'
<1> SUFFICES ASSUME TypeInv, CrossInv, HandledReplyInv, WholeInv, [Next]_vars, whole'
             PROVE  WholeInv'
  BY DEF WholeInv
<1>l. ASSUME whole' = whole, gs' = gs, handling' = handling, msgs' = msgs, UNCHANGED browserVars
      PROVE  WholeInv'
  <2>1. Snapped' = Snapped /\ snap' = snap /\ since' = since
    BY <1>l DEF browserVars, Snapped
  <2>2. \A i \in DOMAIN msgs : \A k : (Says(i, k)' <=> Says(i, k)) /\ (Current(i)' <=> Current(i))
    BY <1>l DEF Says, Carries, Current, Applied, IsUpdate, IsReply, Busy
  <2> QED BY <1>l, <2>1, <2>2 DEF WholeInv
<1>1. CASE Take \/ Disconnect
  BY <1>1, <1>l DEF Take, Disconnect, stateVars, streamVars
<1>2. CASE Connect
  BY <1>2, <1>l DEF Connect, streamVars
<1>3. CASE ReceiveUpdate
  <2>1. PICK m \in Messages :
          /\ m.kind = "update" /\ Grows(m)
          /\ ~Busy("stream") /\ Busy("stream")'
          /\ handling'["stream"].msg = m /\ handling'["stream"].number = Len(msgs) + 1
          /\ handling'["subscribe"] = handling["subscribe"]
          /\ UNCHANGED <<link, connects, reply, stateVars, browserVars, whole>>
    BY <1>3, UpdateReceived
  <2>2. \A u \in Threads : u # "stream" => handling'[u] = handling[u]
    BY <2>1, TwoThreads
  <2>3. \A i \in DOMAIN msgs' : \A k \in 1 .. MaxFeed :
          Tells(i, k)' <=> i \in DOMAIN msgs /\ Tells(i, k)
    BY <2>1, <2>2, BegunIsNotCurrent, TwoThreads
  <2> QED BY <2>1, <2>3, WholeStays DEF stateVars
<1>4. CASE ReceiveReply
  <2>1. PICK t \in Threads, m \in Messages :
          /\ m.kind = "reply" /\ Grows(m)
          /\ ~Busy(t) /\ Busy(t)'
          /\ handling'[t].msg = m /\ handling'[t].number = Len(msgs) + 1
          /\ \A u \in Threads : u # t => handling'[u] = handling[u]
          /\ UNCHANGED <<feed, link, connects, stateVars, browserVars, whole>>
    BY <1>4, ReplyReceived
  <2>2. \A i \in DOMAIN msgs' : \A k \in 1 .. MaxFeed :
          Tells(i, k)' <=> i \in DOMAIN msgs /\ Tells(i, k)
    BY <2>1, BegunIsNotCurrent
  <2> QED BY <2>1, <2>2, WholeStays DEF stateVars
<1>5. ASSUME NEW t \in Threads, ApplyReply(t) PROVE WholeInv'
  BY <1>5, WholeAfterReply
<1>6. CASE ApplyUpdate
  BY <1>6, WholeAfterUpdate
<1>7. CASE AnnounceLap
  <2> DEFINE m == handling["stream"].msg
  <2>1. /\ m \in Messages /\ m = [kind |-> "lap", change |-> m.change]
        /\ Grows(m) /\ Done("stream")
        /\ UNCHANGED <<feedVars, gs, browserVars, whole>>
    BY <1>7, LapAnnounced
  <2>2. m.kind = "lap"
    BY <2>1
  <2>3. \A i \in DOMAIN msgs' : \A k \in 1 .. MaxFeed :
          Tells(i, k)' <=> i \in DOMAIN msgs /\ Tells(i, k)
    BY <2>1, <2>2, LapTellsNothing
  <2> QED BY <2>1, <2>3, WholeStays
<1>8. CASE IgnoreLegacyUpdate \/ SkipUpdate \/ ReconnectPanics
  BY <1>8, UpdateDropped DEF WholeInv
<1>9. CASE Browser
  <2>1. PICK b \in Browsers : Arrive(b) \/ MakeEmpty(b) \/ Snapshot(b) \/ SnapshotPanics(b) \/ Greet(b)
    BY <1>9 DEF Browser
  <2>2. /\ UNCHANGED <<feedVars, handling, streamVars, crossed>>
        /\ gs' = gs /\ whole' = whole
        /\ \/ Snapped' = Snapped /\ snap' = snap /\ since' = since
           \/ /\ Snapped' = Snapped \cup {b}
              /\ snap'[b] = gs /\ since'[b] = Handled
              /\ \A s \in Snapped : s # b => snap'[s] = snap[s] /\ since'[s] = since[s]
    BY <2>1, BrowserSteps
  <2>3. \A i \in DOMAIN msgs : \A k : (Says(i, k)' <=> Says(i, k)) /\ (Current(i)' <=> Current(i))
    BY <2>2 DEF Says, Carries, Current, Applied, IsUpdate, IsReply, Busy, streamVars
  <2>4. ASSUME NEW s \in Snapped', NEW i \in DOMAIN msgs', NEW k \in 1 .. MaxFeed,
               i <= since'[s], Current(i)', Says(i, k)'
        PROVE  k \in snap'[s].changes
    <3>1. i \in DOMAIN msgs /\ Current(i) /\ Says(i, k)
      BY <2>2, <2>3, <2>4 DEF streamVars
    <3>2. k \in gs.changes
      BY <2>2, <3>1 DEF WholeInv
    <3>3. s \in Snapped /\ i <= since[s] => k \in snap[s].changes
      BY <2>2, <3>1 DEF WholeInv
    <3> QED BY <2>2, <2>4, <3>2, <3>3
  <2>5. \A s \in Snapped' : \A k \in snap'[s].changes :
          k \in gs'.changes \/ \E i \in DOMAIN msgs' : i > since'[s] /\ Says(i, k)'
    <3>1. \A s \in Snapped : \A k \in snap[s].changes :
            k \in gs.changes \/ \E i \in DOMAIN msgs : i > since[s] /\ Says(i, k)
      BY <2>2 DEF WholeInv
    <3> QED BY <2>2, <2>3, <3>1 DEF streamVars
  <2>6. gs' # Nil /\ \A k \in 1 .. MaxFeed :
          k \in gs'.changes <=> \E i \in DOMAIN msgs' : Current(i)' /\ Says(i, k)'
    BY <2>2, <2>3 DEF WholeInv, streamVars
  <2> QED BY <2>4, <2>5, <2>6 DEF WholeInv
<1>10. CASE UNCHANGED vars
  BY <1>10, <1>l DEF vars, stateVars, streamVars
<1> QED BY <1>1, <1>2, <1>3, <1>4, <1>5, <1>6, <1>7, <1>8, <1>9, <1>10 DEF Next, Feed, Handle

-----------------------------------------------------------------------------
(* What the browsers show. *)

\* A set of numbers up to n that is not empty has a greatest one.
LEMMA Greatest ==
  ASSUME NEW n \in Nat, NEW S \in SUBSET (1 .. n), S # {}
  PROVE  \E i \in S : \A j \in S : j <= i
<1> DEFINE T == {n - i : i \in S}
<1>0. \A i \in S : i \in Nat /\ n - i \in Nat /\ n - i \in T
  OBVIOUS
<1>1. T \subseteq Nat /\ T # {}
  <2>1. PICK i \in S : TRUE
    OBVIOUS
  <2>2. T # {}
    BY <1>0, <2>1
  <2>3. T \subseteq Nat
    BY <1>0
  <2> QED BY <2>2, <2>3
<1>2. PICK x \in T : \A y \in T : ~(<<y, x>> \in OpToRel(<, Nat))
  <2> HIDE DEF T
  <2> QED BY <1>1, NatLessThanWellFounded, WFMin
<1>3. \A y \in T : ~(y < x)
  BY <1>1, <1>2 DEF OpToRel
<1>4. PICK i \in S : x = n - i
  BY <1>2
<1>5. ASSUME NEW j \in S PROVE j <= i
  <2> HIDE DEF T
  <2>1. ~(n - j < n - i)
    BY <1>0, <1>3, <1>4
  <2>2. i \in Nat /\ j \in Nat
    BY <1>0
  <2> QED BY <2>1, <2>2
<1> QED BY <1>5

\* Once the relay is quiet every message is applied.
LEMMA QuietIsCurrent ==
  ASSUME Quiet
  PROVE  \A i \in DOMAIN msgs :
           Current(i) <=> \A j \in DOMAIN msgs : j > i => msgs[j].kind # "reply"
BY DEF Quiet, Current, Applied, IsUpdate, IsReply, Busy

LEMMA ShownByGreeting ==
  ASSUME NEW s, GotReplies(s) = {}, NEW k
  PROVE  k \in Shown(s) <=>
           \/ k \in snap[s].changes
           \/ \E i \in Got(s) : msgs[i].kind = "update" /\ msgs[i].change = k
BY DEF Shown

LEMMA ShownByReply ==
  ASSUME NEW s, GotReplies(s) # {}, NEW k
  PROVE  k \in Shown(s) <=>
           \/ k \in 1 .. msgs[LastReply(s)].upto
           \/ \E i \in Got(s) : i > LastReply(s) /\ msgs[i].kind = "update" /\ msgs[i].change = k
BY DEF Shown

LEMMA Follows == TypeInv /\ WholeInv => BrowserFollows
<1> SUFFICES ASSUME TypeInv, WholeInv, Quiet, whole, NEW s \in Greeted, NEW k \in 1 .. feed,
                    (k \in gs.changes) # (k \in Shown(s))
             PROVE  \E i \in JoinGap(s) : Carries(i, k)
  BY DEF BrowserFollows
<1>t. /\ Len(msgs) \in Nat /\ DOMAIN msgs = 1 .. Len(msgs) /\ taken = Len(msgs)
      /\ s \in Snapped /\ since[s] \in Nat /\ greetedAt[s] \in 0 .. Len(msgs)
      /\ k \in 1 .. MaxFeed
  <2>1. s \in Snapped /\ s \in Browsers
    BY DEF Greeted, Snapped
  <2>2. greetedAt[s] \in 0 .. Len(msgs) /\ taken = Len(msgs)
    BY <2>1, Types DEF TypeOK, Quiet
  <2> QED BY <2>1, <2>2, Types
<1>g. Got(s) = {i \in DOMAIN msgs : i > greetedAt[s]}
  BY <1>t DEF Got
<1>m. \A i \in DOMAIN msgs : msgs[i].kind \in {"update", "lap", "reply"}
  BY Types, MessageKinds
<1>s. /\ \A i \in DOMAIN msgs : Says(i, k) /\ msgs[i].kind # "reply" =>
           msgs[i].kind = "update" /\ msgs[i].change = k
      /\ \A i \in DOMAIN msgs : msgs[i].kind = "update" /\ msgs[i].change = k => Says(i, k)
      /\ \A i \in DOMAIN msgs : msgs[i].kind = "reply" => (Says(i, k) <=> k <= msgs[i].upto)
  BY <1>m DEF Says, Carries
<1>w. k \in gs.changes <=> \E i \in DOMAIN msgs : Current(i) /\ Says(i, k)
  BY <1>t DEF WholeInv
<1>j. ASSUME NEW i \in DOMAIN msgs, i <= greetedAt[s], i > since[s], Says(i, k)
      PROVE  \E j \in JoinGap(s) : Carries(j, k)
  BY <1>j, <1>t DEF JoinGap, Says
<1>1. CASE GotReplies(s) = {}
  <2>0. \A i \in DOMAIN msgs : i > greetedAt[s] => msgs[i].kind # "reply" /\ Current(i)
    <3>1. \A i \in DOMAIN msgs : i > greetedAt[s] => msgs[i].kind # "reply"
      BY <1>1, <1>g DEF GotReplies
    <3>2. \A i, j \in DOMAIN msgs : i > greetedAt[s] /\ j > i => j > greetedAt[s]
      BY <1>t
    <3> QED BY <3>1, <3>2, QuietIsCurrent
  <2>1. k \in Shown(s) <=>
          \/ k \in snap[s].changes
          \/ \E i \in Got(s) : msgs[i].kind = "update" /\ msgs[i].change = k
    BY <1>1, ShownByGreeting
  <2>2. CASE k \in gs.changes /\ k \notin Shown(s)
    <3>1. PICK i \in DOMAIN msgs : Current(i) /\ Says(i, k)
      BY <1>w, <2>2
    <3>2. i <= greetedAt[s]
      BY <1>g, <1>s, <1>t, <2>0, <2>1, <2>2, <3>1
    <3>3. i > since[s]
      <4>1. i <= since[s] => k \in snap[s].changes
        BY <1>t, <3>1 DEF WholeInv
      <4> QED BY <1>t, <2>1, <2>2, <4>1
    <3> QED BY <1>j, <3>1, <3>2, <3>3
  <2>3. CASE k \notin gs.changes /\ k \in Shown(s)
    <3>1. ~\E i \in Got(s) : msgs[i].kind = "update" /\ msgs[i].change = k
      BY <1>g, <1>s, <1>w, <2>0, <2>3
    <3>2. PICK i \in DOMAIN msgs : i > since[s] /\ Says(i, k)
      BY <1>t, <2>1, <2>3, <3>1 DEF WholeInv
    <3>3. i <= greetedAt[s]
      BY <1>t, <1>w, <2>0, <2>3, <3>2
    <3> QED BY <1>j, <3>2, <3>3
  <2> QED BY <2>2, <2>3
<1>2. CASE GotReplies(s) # {}
  <2> DEFINE l == LastReply(s)
  <2>1. l \in GotReplies(s) /\ \A j \in GotReplies(s) : j <= l
    <3>1. GotReplies(s) \in SUBSET (1 .. Len(msgs))
      BY <1>g, <1>t DEF GotReplies
    <3>2. \E i \in GotReplies(s) : \A j \in GotReplies(s) : j <= i
      BY <1>2, <1>t, <3>1, Greatest
    <3> QED BY <3>2 DEF LastReply
  <2>2. k \in Shown(s) <=>
          \/ k \in 1 .. msgs[l].upto
          \/ \E i \in Got(s) : i > l /\ msgs[i].kind = "update" /\ msgs[i].change = k
    BY <1>2, ShownByReply
  <2> HIDE DEF l
  <2>3. l \in DOMAIN msgs /\ l > greetedAt[s] /\ msgs[l].kind = "reply" /\ msgs[l].upto \in Nat
    BY <1>g, <2>1, Types DEF GotReplies
  <2>4. \A i \in DOMAIN msgs : i > l => i \in Got(s) /\ msgs[i].kind # "reply"
    <3>1. \A i \in DOMAIN msgs : i > l => i \in Got(s) /\ ~(i <= l)
      BY <1>g, <1>t, <2>3
    <3> QED BY <2>1, <3>1 DEF GotReplies
  <2>5. \A i \in DOMAIN msgs : Current(i) <=> ~(i < l)
    <3>1. \A i \in DOMAIN msgs : i < l => ~Current(i)
      BY <1>t, <2>3, QuietIsCurrent
    <3>2. ASSUME NEW i \in DOMAIN msgs, ~(i < l) PROVE Current(i)
      <4>1. \A j \in DOMAIN msgs : j > i => j > l
        BY <1>t, <2>3, <3>2
      <4> QED BY <2>4, <4>1, QuietIsCurrent
    <3> QED BY <3>1, <3>2
  <2>6. ASSUME NEW i \in DOMAIN msgs, Current(i), Says(i, k) PROVE k \in Shown(s)
    <3>1. CASE i = l
      <4>1. k <= msgs[l].upto
        BY <1>s, <2>3, <2>6, <3>1
      <4> QED BY <1>t, <2>2, <2>3, <4>1
    <3>2. CASE i # l
      <4>1. i > l
        BY <1>t, <2>3, <2>5, <2>6, <3>2
      <4> QED BY <1>s, <2>2, <2>4, <2>6, <4>1
    <3> QED BY <3>1, <3>2
  <2>7. ASSUME k \in Shown(s) PROVE \E i \in DOMAIN msgs : Current(i) /\ Says(i, k)
    <3>1. CASE k \in 1 .. msgs[l].upto
      <4>1. Says(l, k) /\ Current(l)
        BY <1>s, <1>t, <2>3, <2>5, <3>1
      <4> QED BY <2>3, <4>1
    <3>2. CASE \E i \in Got(s) : i > l /\ msgs[i].kind = "update" /\ msgs[i].change = k
      <4>1. PICK i \in Got(s) : i > l /\ msgs[i].kind = "update" /\ msgs[i].change = k
        BY <3>2
      <4>2. i \in DOMAIN msgs /\ ~(i < l)
        BY <1>g, <1>t, <2>3, <4>1
      <4> QED BY <1>s, <2>5, <4>1, <4>2
    <3> QED BY <2>2, <2>7, <3>1, <3>2
  <2> QED BY <1>w, <2>6, <2>7
<1> QED BY <1>1, <1>2

LEMMA IInvInit == Init => IInv
<1> SUFFICES ASSUME Init PROVE IInv
  OBVIOUS
<1>1. \A t \in Threads : ~Busy(t) /\ ~IsReply(t) /\ ~IsUpdate(t)
  BY DEF Init, Busy, IsReply, IsUpdate
<1>2. Snapped = {} /\ DOMAIN msgs = {} /\ gs = Nil /\ reply = None /\ ~whole
  BY DEF Init, Snapped
<1> QED BY <1>1, <1>2, TypeInit
        DEF IInv, LapsInv, FeedInv, CrossInv, ReplyInv, HandledReplyInv, WholeInv, Threads

LEMMA IInvStep == IInv /\ [Next]_vars => IInv'
BY TypeStep, LapsStep, FeedStep, CrossStep, ReplyStep, HandledReplyStep, WholeStep DEF IInv

\* BrowserFollows: for every number of browsers, changes of the feed, reconnections
\* and messages in the channel, a browser that has read its queue shows the relay's
\* state, but for what was flushed between its snapshot and its greeting.
THEOREM BrowsersFollow == Spec => []BrowserFollows
<1>1. IInv => BrowserFollows
  BY Follows DEF IInv
<1> QED BY <1>1, IInvInit, IInvStep, PTL DEF Spec
=============================================================================
