-------------------------- MODULE BroadcasterProofs --------------------------
(***************************************************************************)
(* Theorems about Broadcaster for every set of attempts, addresses, limit  *)
(* and channel capacities.                                                 *)
(***************************************************************************)
EXTENDS Broadcaster, FiniteSetTheorems, SequenceTheorems, TLAPS

\* What TypeOK needs to be inductive: no message is in the broadcast channel or
\* the buffer that was not published, so Flushed is a natural number.
TypeInv == TypeOK /\ Len(broadcast) + Len(buffer) <= published

\* Every action keeps every variable in its type.
LEMMA TypeStep == TypeInv /\ [Next]_vars => TypeInv'
<1> SUFFICES ASSUME TypeInv, [Next]_vars PROVE TypeInv'
  OBVIOUS
<1> USE BroadcasterAssumption DEF BroadcasterAssumption
<1> USE DEF TypeInv, TypeOK, Handler, HandlerStates, ReaderStates, WriterStates, ConnStates,
            runVars, chanVars, pumpVars, auxVars
<1>1. CASE Publish
  BY <1>1 DEF Publish
<1>2. CASE RunBroadcast
  BY <1>2 DEF RunBroadcast
<1>3. CASE RunTick
  <2>1. send' \in [Clients -> Seq(Seq(Nat))]
    BY <1>3 DEF RunTick
  <2>2. \A c \in Clients : Len(send'[c]) <= SendCap
    <3> TAKE c \in Clients
    <3>1. Len(send[c]) \in Nat
      OBVIOUS
    <3>2. CASE c \in clients \ Full
      <4>1. Len(send[c]) < SendCap
        BY <3>1, <3>2 DEF Full
      <4>2. send'[c] = Append(send[c], buffer)
        BY <1>3, <3>2 DEF RunTick
      <4> QED BY <3>1, <4>1, <4>2
    <3>3. CASE c \notin clients \ Full
      BY <1>3, <3>3 DEF RunTick
    <3> QED BY <3>2, <3>3
  <2>3. clients' \subseteq Clients /\ closed' \subseteq Clients /\ evicted' \subseteq Clients
    BY <1>3 DEF RunTick, Full, AfterTick
  <2>4. buffer' = <<>>
    BY <1>3 DEF RunTick
  <2> QED BY <1>3, <2>1, <2>2, <2>3, <2>4 DEF RunTick
<1>4. ASSUME NEW c \in Clients, HandlerStep(c) PROVE TypeInv'
  <2>1. CASE Admit(c)
    <3>1. ips' \in [IPs -> Nat]
      BY <2>1 DEF Admit, Acquired
    <3>2. hpc' \in [Clients -> HandlerStates]
      BY <2>1 DEF Admit
    <3> QED BY <2>1, <3>1, <3>2 DEF Admit
  <2>2. CASE Reject(c)
    BY <2>2 DEF Reject
  <2>3. CASE UpgradeOk(c)
    BY <2>3 DEF UpgradeOk
  <2>4. CASE UpgradeFails(c)
    <3>1. ips' \in [IPs -> Nat]
      BY <2>4 DEF UpgradeFails, Released
    <3>2. hpc' \in [Clients -> HandlerStates]
      BY <2>4 DEF UpgradeFails
    <3> QED BY <2>4, <3>1, <3>2 DEF UpgradeFails
  <2>5. CASE StartPumps(c)
    BY <2>5 DEF StartPumps
  <2>6. CASE Greet(c)
    <3>1. send' = [send EXCEPT ![c] = Append(@, <<Snapshot>>)] /\ Len(send[c]) < SendCap
      BY <2>6 DEF Greet
    <3>2. <<Snapshot>> \in Seq(Nat)
      BY DEF Snapshot
    <3>3. Append(send[c], <<Snapshot>>) \in Seq(Seq(Nat))
          /\ Len(Append(send[c], <<Snapshot>>)) <= SendCap
      <4>1. send[c] \in Seq(Seq(Nat))
        OBVIOUS
      <4> HIDE DEF TypeInv, TypeOK
      <4> QED BY <3>1, <3>2, <4>1, AppendProperties, LenProperties
    <3>4. send' \in [Clients -> Seq(Seq(Nat))] /\ \A d \in Clients : Len(send'[d]) <= SendCap
      BY <3>1, <3>3
    <3>5. hpc' \in [Clients -> HandlerStates]
      BY <2>6 DEF Greet
    <3> QED BY <2>6, <3>4, <3>5 DEF Greet
  <2>7. CASE GreetPanics(c)
    BY <2>7 DEF GreetPanics
  <2> QED BY <1>4, <2>1, <2>2, <2>3, <2>4, <2>5, <2>6, <2>7 DEF HandlerStep
<1>5. ASSUME NEW c \in Clients, RunRegister(c) PROVE TypeInv'
  BY <1>5 DEF RunRegister, Flushed
<1>6. ASSUME NEW c \in Clients, RunUnregister(c) PROVE TypeInv'
  <2>1. ips' \in [IPs -> Nat]
    <3>1. Released(IpOf[c]) \in [IPs -> Nat]
      BY DEF Released
    <3> QED BY <1>6, <3>1 DEF RunUnregister
  <2>2. clients' \subseteq Clients /\ closed' \subseteq Clients
    <3>1. CASE c \in clients
      BY <1>6, <3>1 DEF RunUnregister
    <3>2. CASE c \notin clients
      BY <1>6, <3>2 DEF RunUnregister
    <3> QED BY <3>1, <3>2
  <2>3. reader' \in [Clients -> ReaderStates]
    BY <1>6 DEF RunUnregister
  <2> QED BY <1>6, <2>1, <2>2, <2>3 DEF RunUnregister
<1>7. ASSUME NEW c \in Clients, WriterStep(c) PROVE TypeInv'
  <2>0. ASSUME send[c] # <<>>
        PROVE  /\ Head(send[c]) \in Seq(Nat)
               /\ Tail(send[c]) \in Seq(Seq(Nat))
               /\ Len(Tail(send[c])) <= SendCap
    <3>1. send[c] \in Seq(Seq(Nat)) /\ Len(send[c]) <= SendCap
      OBVIOUS
    <3> HIDE DEF TypeInv, TypeOK
    <3> QED BY <2>0, <3>1, HeadTailProperties, LenProperties
  <2>1. CASE WriterSend(c)
    <3>1. received' = [received EXCEPT ![c] = @ \o Messages(Head(send[c]))]
          /\ send' = [send EXCEPT ![c] = Tail(@)] /\ send[c] # <<>>
      BY <2>1 DEF WriterSend
    <3>2. received[c] \o Messages(Head(send[c])) \in Seq(Nat)
      <4>1. Messages(Head(send[c])) \in Seq(Nat)
        BY <2>0, <3>1 DEF Messages
      <4> QED BY <4>1, ConcatProperties
    <3>3. received' \in [Clients -> Seq(Nat)]
      BY <3>1, <3>2
    <3>4. send' \in [Clients -> Seq(Seq(Nat))] /\ \A d \in Clients : Len(send'[d]) <= SendCap
      BY <2>0, <3>1
    <3> QED BY <2>1, <3>3, <3>4 DEF WriterSend
  <2>2. CASE WriteFails(c)
    <3>1. send' = [send EXCEPT ![c] = Tail(@)] /\ send[c] # <<>>
      BY <2>2 DEF WriteFails
    <3>2. send' \in [Clients -> Seq(Seq(Nat))] /\ \A d \in Clients : Len(send'[d]) <= SendCap
      BY <2>0, <3>1
    <3> QED BY <2>2, <3>2 DEF WriteFails, WriterExit
  <2>3. CASE PingFails(c)
    BY <2>3 DEF PingFails, WriterExit
  <2>4. CASE WriterHangsUp(c)
    BY <2>4 DEF WriterHangsUp, WriterExit
  <2> QED BY <1>7, <2>1, <2>2, <2>3, <2>4 DEF WriterStep
<1>8. ASSUME NEW c \in Clients, PeerGone(c) PROVE TypeInv'
  BY <1>8 DEF PeerGone
<1>9. ASSUME NEW c \in Clients, ReadFails(c) PROVE TypeInv'
  BY <1>9 DEF ReadFails
<1>10. ASSUME NEW c \in Clients, ReaderCloses(c) PROVE TypeInv'
  BY <1>10 DEF ReaderCloses
<1>11. CASE UNCHANGED vars
  BY <1>11 DEF vars
<1> QED
  BY <1>1, <1>2, <1>3, <1>4, <1>5, <1>6, <1>7, <1>8, <1>9, <1>10, <1>11 DEF Next

\* TypeOK: the channels never exceed their capacities and every variable keeps
\* the type the code gives it.
THEOREM TypeCorrect == Spec => []TypeOK
<1>1. Init => TypeInv
  BY BroadcasterAssumption DEF BroadcasterAssumption, Init, TypeInv, TypeOK, HandlerStates, ReaderStates, WriterStates, ConnStates
<1>2. TypeInv => TypeOK
  BY DEF TypeInv
<1> QED
  BY <1>1, <1>2, TypeStep, PTL DEF Spec

-----------------------------------------------------------------------------
(* The register of clients, the limiter and evictions.                     *)

Accepted == {c \in Clients : hpc[c] \in {"starting", "greeting", "done", "panicked"}}

Holders == Pending \cup clients \cup evicted

\* Only accepted attempts are registered or have a closed channel; a closed
\* channel belongs to nobody registered; an evicted client's channel is closed;
\* the counters never exceed the limit.
IInv ==
  /\ TypeInv
  /\ clients \subseteq Accepted
  /\ closed \subseteq Accepted
  /\ clients \cap closed = {}
  /\ evicted \subseteq closed
  /\ \A ip \in IPs : ips[ip] <= Limit
  /\ SlotsAccounted

LEMMA HoldersFinite ==
  ASSUME IInv, NEW ip
  PROVE  IsFiniteSet(From(Holders, ip)) /\ Cardinality(From(Holders, ip)) \in Nat
<1>1. From(Holders, ip) \subseteq Clients
  BY DEF From, Holders, Pending, IInv, TypeInv, TypeOK
<1> QED
  BY <1>1, FS_Subset, FS_CardinalityType, BroadcasterAssumption DEF BroadcasterAssumption

\* The set of slot holders and the counters move together, or not at all.
LEMMA SlotsSame ==
  ASSUME SlotsAccounted, Holders' = Holders, ips' = ips
  PROVE  SlotsAccounted'
<1>1. \A ip \in IPs : From(Holders, ip)' = From(Holders, ip)
  BY DEF From
<1> QED
  BY <1>1 DEF SlotsAccounted, Holders

LEMMA SlotTaken ==
  ASSUME IInv, NEW c \in Clients, c \notin Holders,
         Holders' = Holders \cup {c}, ips' = Acquired(IpOf[c])
  PROVE  SlotsAccounted'
<1> SUFFICES ASSUME NEW ip \in IPs
             PROVE  ips'[ip] = Cardinality(From(Holders', ip))
  BY DEF SlotsAccounted, Holders, From
<1>1. ips[ip] = Cardinality(From(Holders, ip)) /\ ips \in [IPs -> Nat]
  BY DEF IInv, SlotsAccounted, Holders, TypeInv, TypeOK
<1>2. CASE IpOf[c] = ip
  <2>1. From(Holders', ip) = From(Holders, ip) \cup {c} /\ c \notin From(Holders, ip)
    BY <1>2 DEF From
  <2>2. Cardinality(From(Holders', ip)) = Cardinality(From(Holders, ip)) + 1
    <3>1. IsFiniteSet(From(Holders, ip))
      BY HoldersFinite
    <3> QED BY <2>1, <3>1, FS_AddElement
  <2> QED BY <1>1, <1>2, <2>2 DEF Acquired
<1>3. CASE IpOf[c] # ip
  <2>1. From(Holders', ip) = From(Holders, ip)
    BY <1>3 DEF From
  <2> QED BY <1>1, <1>3, <2>1 DEF Acquired
<1> QED BY <1>2, <1>3

LEMMA SlotFreed ==
  ASSUME IInv, NEW c \in Clients, c \in Holders,
         Holders' = Holders \ {c}, ips' = Released(IpOf[c])
  PROVE  SlotsAccounted'
<1> SUFFICES ASSUME NEW ip \in IPs
             PROVE  ips'[ip] = Cardinality(From(Holders', ip))
  BY DEF SlotsAccounted, Holders, From
<1>1. ips[ip] = Cardinality(From(Holders, ip)) /\ ips \in [IPs -> Nat]
  BY DEF IInv, SlotsAccounted, Holders, TypeInv, TypeOK
<1>2. CASE IpOf[c] = ip
  <2>1. From(Holders', ip) = From(Holders, ip) \ {c} /\ c \in From(Holders, ip)
    BY <1>2 DEF From
  <2>2. Cardinality(From(Holders', ip)) = Cardinality(From(Holders, ip)) - 1
    <3>1. IsFiniteSet(From(Holders, ip))
      BY HoldersFinite
    <3> QED BY <2>1, <3>1, FS_RemoveElement
  <2>3. Cardinality(From(Holders, ip)) # 0
    <3>1. IsFiniteSet(From(Holders, ip))
      BY HoldersFinite
    <3> QED BY <2>1, <3>1, FS_EmptySet
  <2> QED BY <1>1, <1>2, <2>2, <2>3 DEF Released
<1>3. CASE IpOf[c] # ip
  <2>1. From(Holders', ip) = From(Holders, ip)
    BY <1>3 DEF From
  <2> QED BY <1>1, <1>3, <2>1 DEF Released
<1> QED BY <1>2, <1>3

\* Releasing a slot never raises a counter.
LEMMA ReleasedBounded ==
  ASSUME ips \in [IPs -> Nat], \A ip \in IPs : ips[ip] <= Limit, NEW jp \in IPs
  PROVE  \A ip \in IPs : Released(jp)[ip] <= Limit
BY BroadcasterAssumption DEF Released, BroadcasterAssumption

LEMMA IInvStep == IInv /\ [Next]_vars => IInv'
<1> SUFFICES ASSUME IInv, [Next]_vars PROVE IInv'
  OBVIOUS
<1>0. TypeInv' /\ TypeInv
  BY TypeStep DEF IInv
<1> DEFINE Rest == /\ clients \subseteq Accepted
                   /\ closed \subseteq Accepted
                   /\ clients \cap closed = {}
                   /\ evicted \subseteq closed
                   /\ \A ip \in IPs : ips[ip] <= Limit
<1> SUFFICES Rest' /\ SlotsAccounted'
  BY <1>0 DEF IInv
<1>a. Rest /\ SlotsAccounted
  BY DEF IInv
<1> USE DEF Accepted, Holders, Pending, Handler, TypeInv, TypeOK,
            runVars, chanVars, pumpVars, auxVars
\* Steps that touch neither the handlers, the clients nor the limiter.
<1>1. ASSUME UNCHANGED <<ips, hpc, clients, closed, evicted>>
      PROVE  Rest' /\ SlotsAccounted'
  BY <1>1, <1>a, SlotsSame
<1>2. CASE Publish
  BY <1>1, <1>2 DEF Publish
<1>3. CASE RunBroadcast
  BY <1>1, <1>3 DEF RunBroadcast
<1>4. CASE RunTick
  <2>1. Holders' = Holders /\ ips' = ips
    BY <1>4 DEF RunTick, Full, AfterTick
  <2> QED BY <1>a, <1>4, <2>1, SlotsSame DEF RunTick, Full, AfterTick
<1>5. ASSUME NEW c \in Clients, HandlerStep(c) PROVE Rest' /\ SlotsAccounted'
  <2>1. CASE Admit(c)
    <3>1. c \notin Holders /\ Holders' = Holders \cup {c}
      <4>1. c \notin Pending /\ c \notin clients /\ c \notin evicted
        BY <1>a, <2>1 DEF Admit
      <4>2. Pending' = Pending \cup {c}
        BY <1>0, <2>1 DEF Admit
      <4>3. clients' = clients /\ evicted' = evicted
        BY <2>1 DEF Admit
      <4> QED BY <4>1, <4>2, <4>3 DEF Holders
    <3>2. SlotsAccounted'
      <4>1. ips' = Acquired(IpOf[c])
        BY <2>1 DEF Admit
      <4> HIDE DEF Holders, Pending, TypeInv, TypeOK
      <4> QED BY <3>1, <4>1, SlotTaken
    <3>3. \A ip \in IPs : ips'[ip] <= Limit
      BY <1>0, <1>a, <2>1, BroadcasterAssumption
      DEF Admit, HasRoom, Acquired, BroadcasterAssumption
    <3> QED BY <1>0, <1>a, <2>1, <3>2, <3>3 DEF Admit
  <2>2. CASE Reject(c)
    <3>1. Holders' = Holders /\ ips' = ips
      BY <1>0, <1>a, <2>2 DEF Reject
    <3> QED BY <1>0, <1>a, <2>2, <3>1, SlotsSame DEF Reject
  <2>3. CASE UpgradeOk(c)
    <3>1. Holders' = Holders /\ ips' = ips
      BY <1>0, <1>a, <2>3 DEF UpgradeOk
    <3> QED BY <1>0, <1>a, <2>3, <3>1, SlotsSame DEF UpgradeOk
  <2>4. CASE UpgradeFails(c)
    <3>1. c \in Holders /\ Holders' = Holders \ {c}
      BY <1>0, <1>a, <2>4 DEF UpgradeFails
    <3>2. SlotsAccounted'
      <4>1. ips' = Released(IpOf[c])
        BY <2>4 DEF UpgradeFails
      <4> HIDE DEF Holders, Pending, TypeInv, TypeOK
      <4> QED BY <3>1, <4>1, SlotFreed
    <3>3. \A ip \in IPs : ips'[ip] <= Limit
      <4>1. ips' = Released(IpOf[c]) /\ IpOf[c] \in IPs
        BY <2>4, BroadcasterAssumption DEF UpgradeFails, BroadcasterAssumption
      <4> QED BY <1>0, <1>a, <4>1, ReleasedBounded
    <3> QED BY <1>0, <1>a, <2>4, <3>2, <3>3 DEF UpgradeFails
  <2>5. CASE StartPumps(c)
    <3>1. Holders' = Holders /\ ips' = ips
      BY <1>0, <1>a, <2>5 DEF StartPumps
    <3> QED BY <1>0, <1>a, <2>5, <3>1, SlotsSame DEF StartPumps
  <2>6. CASE Greet(c)
    <3>1. Holders' = Holders /\ ips' = ips
      BY <1>0, <1>a, <2>6 DEF Greet
    <3> QED BY <1>0, <1>a, <2>6, <3>1, SlotsSame DEF Greet
  <2>7. CASE GreetPanics(c)
    <3>1. Holders' = Holders /\ ips' = ips
      BY <1>0, <1>a, <2>7 DEF GreetPanics
    <3> QED BY <1>0, <1>a, <2>7, <3>1, SlotsSame DEF GreetPanics
  <2> QED BY <1>5, <2>1, <2>2, <2>3, <2>4, <2>5, <2>6, <2>7 DEF HandlerStep
<1>6. ASSUME NEW c \in Clients, RunRegister(c) PROVE Rest' /\ SlotsAccounted'
  <2>1. Holders' = Holders /\ ips' = ips
    BY <1>0, <1>a, <1>6 DEF RunRegister
  <2> QED BY <1>0, <1>a, <1>6, <2>1, SlotsSame DEF RunRegister
<1>7. ASSUME NEW c \in Clients, RunUnregister(c) PROVE Rest' /\ SlotsAccounted'
  <2>1. CASE c \in clients
    <3>1. c \in Holders /\ Holders' = Holders \ {c}
      <4>1. Pending' = Pending /\ evicted' = evicted
        BY <1>7 DEF RunUnregister
      <4>2. clients' = clients \ {c}
        BY <1>7, <2>1 DEF RunUnregister
      <4>3. c \notin Pending /\ c \notin evicted
        BY <1>a, <2>1
      <4> HIDE DEF Pending
      <4> QED BY <2>1, <4>1, <4>2, <4>3 DEF Holders
    <3>2. SlotsAccounted'
      <4>1. ips' = Released(IpOf[c])
        BY <1>7, <2>1 DEF RunUnregister
      <4> HIDE DEF Holders, Pending, TypeInv, TypeOK
      <4> QED BY <3>1, <4>1, SlotFreed
    <3>3. \A ip \in IPs : ips'[ip] <= Limit
      <4>1. ips' = Released(IpOf[c]) /\ IpOf[c] \in IPs
        BY <1>7, <2>1, BroadcasterAssumption DEF RunUnregister, BroadcasterAssumption
      <4> QED BY <1>0, <1>a, <4>1, ReleasedBounded
    <3> QED BY <1>0, <1>a, <1>7, <2>1, <3>2, <3>3 DEF RunUnregister
  <2>2. CASE c \notin clients
    BY <1>1, <1>7, <2>2 DEF RunUnregister
  <2> QED BY <2>1, <2>2
<1>8. ASSUME NEW c \in Clients, WriterStep(c) PROVE Rest' /\ SlotsAccounted'
  BY <1>1, <1>8 DEF WriterStep, WriterSend, WriteFails, PingFails, WriterHangsUp
<1>9. ASSUME NEW c \in Clients, PeerGone(c) \/ ReadFails(c) \/ ReaderCloses(c)
      PROVE  Rest' /\ SlotsAccounted'
  BY <1>1, <1>9 DEF PeerGone, ReadFails, ReaderCloses
<1>10. CASE UNCHANGED vars
  BY <1>1, <1>10 DEF vars
<1> QED
  BY <1>2, <1>3, <1>4, <1>5, <1>6, <1>7, <1>8, <1>9, <1>10 DEF Next

LEMMA IInvInit == Init => IInv
<1> SUFFICES ASSUME Init PROVE IInv
  OBVIOUS
<1>1. TypeInv
  BY BroadcasterAssumption DEF BroadcasterAssumption, Init, TypeInv, TypeOK,
     HandlerStates, ReaderStates, WriterStates, ConnStates
<1>2. \A ip \in IPs : From(Pending \cup clients \cup evicted, ip) = {}
  BY DEF Init, From, Pending
<1>3. SlotsAccounted
  BY <1>2, FS_EmptySet DEF Init, SlotsAccounted
<1> QED
  BY <1>1, <1>3, BroadcasterAssumption DEF Init, IInv, Accepted, BroadcasterAssumption

LEMMA Invariant == Spec => []IInv
BY IInvInit, IInvStep, PTL DEF Spec

\* RunNeverPanics: no interleaving of registrations, unregistrations and ticks
\* makes run() send on, or close, a channel that is already closed.
THEOREM NeverPanics == Spec => []RunNeverPanics
<1>1. IInv => RunNeverPanics
  BY DEF IInv, RunNeverPanics
<1> QED BY <1>1, Invariant, PTL

\* SlotsAccounted: the only slots of the limiter that no live connection holds
\* are those of evicted clients.
THEOREM SlotsAreAccounted == Spec => []SlotsAccounted
<1>1. IInv => SlotsAccounted
  BY DEF IInv
<1> QED BY <1>1, Invariant, PTL

\* LimitRespected: an address never has more than Limit connections.
THEOREM LimitIsRespected == Spec => []LimitRespected
<1>1. IInv => LimitRespected
  <2> SUFFICES ASSUME IInv, NEW ip \in IPs
               PROVE  Cardinality(From(Pending \cup clients, ip)) <= Limit
    BY DEF LimitRespected
  <2>1. From(Pending \cup clients, ip) \in SUBSET From(Holders, ip)
    BY DEF From, Holders
  <2>2. /\ Cardinality(From(Pending \cup clients, ip)) <= Cardinality(From(Holders, ip))
        /\ Cardinality(From(Pending \cup clients, ip)) \in Nat
    <3>1. IsFiniteSet(From(Holders, ip))
      BY HoldersFinite
    <3>2. IsFiniteSet(From(Pending \cup clients, ip))
      BY <2>1, <3>1, FS_Subset
    <3> QED BY <2>1, <3>1, <3>2, FS_Subset, FS_CardinalityType
  <2>3. Cardinality(From(Holders, ip)) = ips[ip] /\ ips[ip] <= Limit
    BY DEF IInv, SlotsAccounted, Holders
  <2>4. Cardinality(From(Holders, ip)) \in Nat /\ Limit \in Nat
    BY HoldersFinite, BroadcasterAssumption DEF BroadcasterAssumption
  <2> QED BY <2>2, <2>3, <2>4
<1> QED BY <1>1, Invariant, PTL
-----------------------------------------------------------------------------
(* The stream. *)

LEMMA StreamNone == ASSUME NEW n \in Nat PROVE Stream(n, 0) = <<>>
<1>1. 1 .. 0 = {}
  OBVIOUS
<1> QED BY <1>1 DEF Stream

LEMMA StreamIsSeq ==
  ASSUME NEW n \in Nat, NEW k \in Nat
  PROVE  /\ Stream(n, k) \in Seq(Nat) /\ Len(Stream(n, k)) = k
         /\ \A i \in 1 .. k : Stream(n, k)[i] = n + i
BY DEF Stream

\* A sequence of k messages that has the right ones is the stream.
LEMMA IsStream ==
  ASSUME NEW n \in Nat, NEW s \in Seq(Nat), \A i \in 1 .. Len(s) : s[i] = n + i
  PROVE  s = Stream(n, Len(s))
<1>1. Len(s) \in Nat /\ DOMAIN s = 1 .. Len(s) /\ s = [i \in DOMAIN s |-> s[i]]
  BY LenProperties
<1> QED BY <1>1 DEF Stream

\* The stream goes on where it was left.
LEMMA StreamGoesOn ==
  ASSUME NEW n \in Nat, NEW k \in Nat, NEW m \in Nat
  PROVE  Stream(n, k) \o Stream(n + k, m) = Stream(n, k + m)
<1> DEFINE s == Stream(n, k)
           t == Stream(n + k, m)
<1>0. n + k \in Nat
  OBVIOUS
<1>1. /\ s \in Seq(Nat) /\ Len(s) = k /\ \A i \in 1 .. k : s[i] = n + i
      /\ t \in Seq(Nat) /\ Len(t) = m /\ \A i \in 1 .. m : t[i] = (n + k) + i
  BY <1>0, StreamIsSeq
<1> HIDE DEF s, t
<1>2. /\ s \o t \in Seq(Nat) /\ Len(s \o t) = k + m
      /\ \A i \in 1 .. k + m : (s \o t)[i] = IF i <= k THEN s[i] ELSE t[i - k]
  BY <1>1, ConcatProperties
<1>3. \A i \in 1 .. k + m : (s \o t)[i] = n + i
  BY <1>1, <1>2
<1>4. s \o t = Stream(n, Len(s \o t))
  BY <1>2, <1>3, IsStream
<1> QED BY <1>2, <1>4 DEF s, t

-----------------------------------------------------------------------------
(* Queues of frames. *)

LEMMA ContinuesNone == ASSUME NEW n \in Nat PROVE Continues(<<>>, n, n)
<1> DEFINE pos == [i \in {0} |-> n]
<1>1. 0 .. Len(<<>>) = {0} /\ 1 .. Len(<<>>) = {}
  OBVIOUS
<1>2. pos \in [0 .. Len(<<>>) -> 0 .. n] /\ pos[0] = n /\ pos[Len(<<>>)] = n
  BY <1>1
<1> HIDE DEF pos
<1> QED BY <1>1, <1>2 DEF Continues

\* A frame is queued that carries the messages up to number up.
LEMMA ContinuesAppend ==
  ASSUME NEW q \in Seq(Seq(Nat)), NEW from \in Nat, NEW to \in Nat, NEW up \in Nat,
         to <= up, NEW frame \in Seq(Nat), Messages(frame) = Stream(to, up - to),
         Continues(q, from, to)
  PROVE  Continues(Append(q, frame), from, up)
<1> DEFINE n == Len(q)
<1>1. PICK pos \in [0 .. n -> 0 .. to] :
        /\ pos[0] = from /\ pos[n] = to
        /\ \A i \in 1 .. n : /\ pos[i - 1] <= pos[i]
                             /\ Messages(q[i]) = Stream(pos[i - 1], pos[i] - pos[i - 1])
  BY DEF Continues
<1>2. /\ n \in Nat /\ Len(Append(q, frame)) = n + 1
      /\ \A i \in 1 .. n : Append(q, frame)[i] = q[i]
      /\ Append(q, frame)[n + 1] = frame
  BY AppendProperties, LenProperties
<1> HIDE DEF n
<1> DEFINE new == [i \in 0 .. n + 1 |-> IF i <= n THEN pos[i] ELSE up]
<1>3. new \in [0 .. n + 1 -> 0 .. up]
  <2>1. ASSUME NEW i \in 0 .. n + 1 PROVE (IF i <= n THEN pos[i] ELSE up) \in 0 .. up
    <3>1. CASE i <= n
      <4>1. i \in 0 .. n /\ pos[i] \in 0 .. to
        BY <1>2, <3>1
      <4> QED BY <3>1, <4>1
    <3> QED BY <3>1
  <2> QED BY <2>1
<1>4. (\A i \in 0 .. n : new[i] = pos[i]) /\ new[n + 1] = up
  BY <1>2
<1> HIDE DEF new
<1>5. new[0] = from
  BY <1>1, <1>2, <1>4
<1>6. ASSUME NEW i \in 1 .. n + 1
      PROVE  /\ new[i - 1] <= new[i]
             /\ Messages(Append(q, frame)[i]) = Stream(new[i - 1], new[i] - new[i - 1])
  <2>1. CASE i \in 1 .. n
    <3>1. i \in 0 .. n /\ i - 1 \in 0 .. n
      BY <1>2, <2>1
    <3> QED BY <1>1, <1>2, <1>4, <2>1, <3>1
  <2>2. CASE i = n + 1
    <3>1. i - 1 = n /\ n \in 0 .. n
      BY <1>2, <2>2
    <3> QED BY <1>1, <1>2, <1>4, <2>2, <3>1
  <2> QED BY <1>2, <2>1, <2>2
<1> QED BY <1>2, <1>3, <1>4, <1>5, <1>6 DEF Continues

\* The first frame carries the first messages, the rest of the queue the rest.
LEMMA ContinuesTail ==
  ASSUME NEW q \in Seq(Seq(Nat)), q # <<>>, NEW from \in Nat, NEW to \in Nat,
         Continues(q, from, to)
  PROVE  \E k \in Nat : /\ from + k <= to
                        /\ Messages(Head(q)) = Stream(from, k)
                        /\ Continues(Tail(q), from + k, to)
<1> DEFINE n == Len(q)
<1>1. PICK pos \in [0 .. n -> 0 .. to] :
        /\ pos[0] = from /\ pos[n] = to
        /\ \A i \in 1 .. n : /\ pos[i - 1] <= pos[i]
                             /\ Messages(q[i]) = Stream(pos[i - 1], pos[i] - pos[i - 1])
  BY DEF Continues
<1>2. /\ n \in Nat \ {0} /\ Head(q) = q[1]
      /\ Tail(q) \in Seq(Seq(Nat)) /\ Len(Tail(q)) = n - 1
      /\ \A i \in 1 .. n - 1 : Tail(q)[i] = q[i + 1]
  BY LenProperties, HeadTailProperties, EmptySeq
<1> HIDE DEF n
<1> DEFINE k == pos[1] - from
<1>3. /\ 1 \in 1 .. n /\ 1 \in 0 .. n /\ pos[1] \in 0 .. to /\ pos[0] <= pos[1]
      /\ Messages(q[1]) = Stream(pos[0], pos[1] - pos[0])
  <2>1. 1 \in 1 .. n /\ 1 \in 0 .. n /\ 1 - 1 = 0
    BY <1>2
  <2> QED BY <1>1, <2>1
<1>4. k \in Nat /\ from + k = pos[1] /\ from + k <= to /\ Messages(Head(q)) = Stream(from, k)
  BY <1>1, <1>2, <1>3
<1> HIDE DEF k
<1> DEFINE new == [i \in 0 .. n - 1 |-> pos[i + 1]]
<1>5. new \in [0 .. n - 1 -> 0 .. to]
  <2>1. \A i \in 0 .. n - 1 : i + 1 \in 0 .. n
    BY <1>2
  <2> QED BY <2>1
<1>6. \A i \in 0 .. n - 1 : new[i] = pos[i + 1]
  OBVIOUS
<1> HIDE DEF new
<1>7. new[0] = from + k /\ new[n - 1] = to
  <2>1. 0 \in 0 .. n - 1 /\ n - 1 \in 0 .. n - 1 /\ (n - 1) + 1 = n /\ 0 + 1 = 1
    BY <1>2
  <2> QED BY <1>1, <1>4, <1>6, <2>1
<1>8. ASSUME NEW i \in 1 .. n - 1
      PROVE  /\ new[i - 1] <= new[i]
             /\ Messages(Tail(q)[i]) = Stream(new[i - 1], new[i] - new[i - 1])
  <2>1. /\ i \in 0 .. n - 1 /\ i - 1 \in 0 .. n - 1 /\ (i - 1) + 1 = i
        /\ i + 1 \in 1 .. n /\ (i + 1) - 1 = i
    BY <1>2
  <2>2. new[i - 1] = pos[i] /\ new[i] = pos[i + 1] /\ Tail(q)[i] = q[i + 1]
    BY <1>2, <1>6, <2>1
  <2>3. /\ pos[(i + 1) - 1] <= pos[i + 1]
        /\ Messages(q[i + 1]) = Stream(pos[(i + 1) - 1], pos[i + 1] - pos[(i + 1) - 1])
    BY <1>1, <2>1
  <2> QED BY <2>1, <2>2, <2>3
<1>9. Continues(Tail(q), from + k, to)
  BY <1>2, <1>5, <1>7, <1>8 DEF Continues
<1> QED BY <1>4, <1>9

-----------------------------------------------------------------------------
(* Every client is handed a run of the stream. *)

\* Both pumps have been started.
Started == {c \in Clients : hpc[c] \in {"greeting", "done", "panicked"}}

\* The last message of the stream that client c has been sent.
Position(c) == joinedAt[c] + Len(received[c])

\* What a client was sent, and what its queue holds, goes on from where it was
\* registered; if it still is, up to what has been flushed.
Handed(c) ==
  /\ \A i \in 1 .. Len(received[c]) : received[c][i] = joinedAt[c] + i
  /\ \E to \in 0 .. Flushed :
       /\ c \in clients => to = Flushed
       /\ Continues(send[c], Position(c), to)

StreamInv ==
  /\ \A i \in 1 .. Len(buffer) : buffer[i] = Flushed + i
  /\ \A i \in 1 .. Len(broadcast) : broadcast[i] = Flushed + Len(buffer) + i
  /\ \A c \in Clients :
       /\ writer[c] = "off" <=> c \notin Started
       /\ c \notin Accepted => send[c] = <<>> /\ received[c] = <<>>
       /\ writer[c] # "gone" => Handed(c)
LEMMA FlushedIsNat ==
  ASSUME TypeInv
  PROVE  /\ Flushed \in Nat /\ Len(buffer) \in Nat /\ Len(broadcast) \in Nat
         /\ published = Flushed + Len(buffer) + Len(broadcast)
<1>1. Len(buffer) \in Nat /\ Len(broadcast) \in Nat /\ published \in Nat
  BY LenProperties DEF TypeInv, TypeOK
<1> QED BY <1>1 DEF TypeInv, Flushed

LEMMA StreamInit == Init => StreamInv
<1> SUFFICES ASSUME Init PROVE StreamInv
  OBVIOUS
<1>1. /\ buffer = <<>> /\ broadcast = <<>> /\ published = 0 /\ clients = {}
      /\ \A c \in Clients : /\ hpc[c] = "idle" /\ writer[c] = "off" /\ joinedAt[c] = 0
                            /\ send[c] = <<>> /\ received[c] = <<>>
  BY DEF Init
<1>2. Len(buffer) = 0 /\ Len(broadcast) = 0
  BY <1>1
<1>f. Flushed = 0
  <2>1. published = 0 /\ 0 - 0 - 0 = 0
    BY <1>1
  <2>2. Flushed = 0 - 0 - 0
    BY <1>2, <2>1, Zenon DEF Flushed
  <2> QED BY <2>1, <2>2
<1>3. ASSUME NEW c \in Clients PROVE Handed(c)
  <2>1. Position(c) = 0 /\ Continues(send[c], 0, 0) /\ 0 \in 0 .. Flushed
    BY <1>1, <1>2, <1>f, ContinuesNone DEF Position
  <2> QED BY <1>1, <1>2, <2>1 DEF Handed
<1> QED BY <1>1, <1>2, <1>3 DEF StreamInv, Started, Accepted

\* What leaves c and what is flushed alone leaves c's part of the stream alone.
LEMMA HandedStays ==
  ASSUME TypeInv, NEW c \in Clients, Handed(c), Flushed' = Flushed,
         send'[c] = send[c], received'[c] = received[c], joinedAt'[c] = joinedAt[c],
         c \in clients' => c \in clients
  PROVE  Handed(c)'
BY DEF Handed, Position

LEMMA StreamStays ==
  ASSUME TypeInv, StreamInv,
         UNCHANGED <<buffer, broadcast, published, send, received, joinedAt>>,
         clients' \subseteq clients, Accepted' = Accepted,
         \A c \in Clients : /\ writer'[c] = "off" <=> c \notin Started'
                            /\ writer'[c] # "gone" => writer[c] # "gone"
  PROVE  StreamInv'
<1>1. Flushed' = Flushed
  BY DEF Flushed
<1>2. \A c \in Clients : writer'[c] # "gone" => Handed(c)'
  BY <1>1, HandedStays DEF StreamInv
<1> QED BY <1>1, <1>2 DEF StreamInv

\* What changes neither the handlers' places nor the writers'.
LEMMA PlacesStay ==
  ASSUME StreamInv, UNCHANGED <<hpc, writer>>
  PROVE  /\ Accepted' = Accepted /\ Started' = Started
         /\ \A c \in Clients : /\ writer'[c] = "off" <=> c \notin Started'
                               /\ writer'[c] # "gone" => writer[c] # "gone"
BY DEF StreamInv, Accepted, Started

LEMMA PublishGoesOn == TypeInv /\ StreamInv /\ Publish => StreamInv'
<1> SUFFICES ASSUME TypeInv, StreamInv, Publish PROVE StreamInv'
  OBVIOUS
<1>1. /\ UNCHANGED <<hpc, clients, buffer, send, writer, received, joinedAt>>
      /\ published' = published + 1 /\ broadcast' = Append(broadcast, published + 1)
      /\ broadcast \in Seq(Nat) /\ published \in Nat
  BY DEF Publish, runVars, pumpVars, auxVars, TypeInv, TypeOK
<1>2. /\ Len(broadcast') = Len(broadcast) + 1
      /\ \A i \in 1 .. Len(broadcast) : broadcast'[i] = broadcast[i]
      /\ broadcast'[Len(broadcast) + 1] = published + 1
  BY <1>1, AppendProperties
<1>3. Flushed' = Flushed
  BY <1>1, <1>2, FlushedIsNat DEF Flushed
<1>4. \A i \in 1 .. Len(broadcast') : broadcast'[i] = Flushed' + Len(buffer') + i
  <2> TAKE i \in 1 .. Len(broadcast')
  <2>1. i \in 1 .. Len(broadcast) \/ i = Len(broadcast) + 1
    BY <1>2, FlushedIsNat
  <2>2. \A j \in 1 .. Len(broadcast) : broadcast[j] = Flushed + Len(buffer) + j
    BY DEF StreamInv
  <2>3. buffer' = buffer /\ published = Flushed + Len(buffer) + Len(broadcast)
    BY <1>1, FlushedIsNat
  <2>4. Flushed \in Nat /\ Len(buffer) \in Nat /\ Len(broadcast) \in Nat
    BY FlushedIsNat
  <2>5. CASE i \in 1 .. Len(broadcast)
    BY <1>2, <1>3, <2>2, <2>3, <2>5
  <2>6. CASE i = Len(broadcast) + 1
    <3>1. broadcast'[i] = published + 1
      BY <1>2, <2>6
    <3>2. published + 1 = Flushed + Len(buffer) + i
      BY <2>3, <2>4, <2>6
    <3> QED BY <1>3, <2>3, <3>1, <3>2
  <2> QED BY <2>1, <2>5, <2>6
<1>5. \A c \in Clients : writer'[c] # "gone" => Handed(c)'
  BY <1>1, <1>3, HandedStays DEF StreamInv
<1>6. \A i \in 1 .. Len(buffer') : buffer'[i] = Flushed' + i
  BY <1>1, <1>3 DEF StreamInv
<1> QED BY <1>1, <1>4, <1>5, <1>6, PlacesStay DEF StreamInv

LEMMA BroadcastGoesOn == TypeInv /\ StreamInv /\ RunBroadcast => StreamInv'
<1> SUFFICES ASSUME TypeInv, StreamInv, RunBroadcast PROVE StreamInv'
  OBVIOUS
<1>1. /\ UNCHANGED <<hpc, clients, send, writer, published, received, joinedAt>>
      /\ broadcast # <<>> /\ buffer' = Append(buffer, Head(broadcast)) /\ broadcast' = Tail(broadcast)
      /\ broadcast \in Seq(Nat) /\ buffer \in Seq(Nat)
  BY DEF RunBroadcast, pumpVars, auxVars, TypeInv, TypeOK
<1>2. /\ Len(broadcast) # 0 /\ Head(broadcast) = broadcast[1] /\ Head(broadcast) \in Nat
      /\ Len(broadcast') = Len(broadcast) - 1
      /\ \A i \in 1 .. Len(broadcast) - 1 : broadcast'[i] = broadcast[i + 1]
  BY <1>1, HeadTailProperties, EmptySeq
<1>3. /\ Len(buffer') = Len(buffer) + 1
      /\ \A i \in 1 .. Len(buffer) : buffer'[i] = buffer[i]
      /\ buffer'[Len(buffer) + 1] = broadcast[1]
  BY <1>1, <1>2, AppendProperties
<1>4. Flushed' = Flushed
  BY <1>1, <1>2, <1>3, FlushedIsNat DEF Flushed
<1>5. \A i \in 1 .. Len(buffer') : buffer'[i] = Flushed' + i
  <2> TAKE i \in 1 .. Len(buffer')
  <2>1. CASE i \in 1 .. Len(buffer)
    BY <1>3, <1>4, <2>1 DEF StreamInv
  <2>2. CASE i = Len(buffer) + 1
    <3>1. 1 \in 1 .. Len(broadcast)
      BY <1>2, FlushedIsNat
    <3>2. broadcast[1] = Flushed + Len(buffer) + 1
      BY <3>1 DEF StreamInv
    <3> QED BY <1>3, <1>4, <2>2, <3>2, FlushedIsNat
  <2> QED BY <1>3, <2>1, <2>2, FlushedIsNat
<1>6. \A i \in 1 .. Len(broadcast') : broadcast'[i] = Flushed' + Len(buffer') + i
  <2> TAKE i \in 1 .. Len(broadcast')
  <2>1. i \in 1 .. Len(broadcast) - 1 /\ i + 1 \in 1 .. Len(broadcast)
    BY <1>2, FlushedIsNat
  <2>2. broadcast[i + 1] = Flushed + Len(buffer) + (i + 1)
    BY <2>1 DEF StreamInv
  <2> QED BY <1>2, <1>3, <1>4, <2>1, <2>2, FlushedIsNat
<1>7. \A c \in Clients : writer'[c] # "gone" => Handed(c)'
  BY <1>1, <1>4, HandedStays DEF StreamInv
<1> QED BY <1>1, <1>5, <1>6, <1>7, PlacesStay DEF StreamInv

\* The frame of a tick carries the messages from what was flushed to what is.
LEMMA TickGoesOn == IInv /\ StreamInv /\ RunTick => StreamInv'
<1> SUFFICES ASSUME IInv, StreamInv, RunTick PROVE StreamInv'
  OBVIOUS
<1>1. /\ UNCHANGED <<hpc, writer, broadcast, published, received, joinedAt>>
      /\ buffer # <<>> /\ buffer' = <<>> /\ clients' = clients \ Full
      /\ \A c \in Clients : send'[c] = IF c \in clients \ Full THEN Append(send[c], buffer) ELSE send[c]
  BY DEF RunTick, AfterTick, chanVars, pumpVars
<1>2. TypeInv /\ clients \subseteq Accepted /\ buffer \in Seq(Nat)
  BY DEF IInv, TypeInv, TypeOK
<1>3. Len(buffer') = 0 /\ Flushed' = Flushed + Len(buffer)
  BY <1>1, <1>2, FlushedIsNat DEF Flushed
<1>4. Messages(buffer) = Stream(Flushed, Len(buffer))
  <2>1. buffer = Stream(Flushed, Len(buffer))
    BY <1>2, FlushedIsNat, IsStream DEF StreamInv
  <2>2. buffer # <<Snapshot>>
    <3>1. 1 \in 1 .. Len(buffer)
      BY <1>1, <1>2, FlushedIsNat, EmptySeq
    <3>2. buffer[1] = Flushed + 1 /\ <<Snapshot>>[1] = 0
      BY <3>1 DEF StreamInv, Snapshot
    <3> QED BY <1>2, <3>2, FlushedIsNat
  <2> QED BY <2>1, <2>2 DEF Messages
<1>5. ASSUME NEW c \in Clients, writer'[c] # "gone" PROVE Handed(c)'
  <2>1. PICK to \in 0 .. Flushed :
          /\ c \in clients => to = Flushed
          /\ Continues(send[c], Position(c), to)
    BY <1>1, <1>5 DEF StreamInv, Handed
  <2>2. Position(c)' = Position(c) /\ Position(c) \in Nat
    BY <1>1, <1>2, LenProperties DEF Position, TypeInv, TypeOK
  <2>3. \A i \in 1 .. Len(received'[c]) : received'[c][i] = joinedAt'[c] + i
    BY <1>1, <1>5 DEF StreamInv, Handed
  <2>4. to \in 0 .. Flushed'
    BY <1>2, <1>3, FlushedIsNat
  <2>5. CASE c \in clients \ Full
    <3>1. to = Flushed /\ Flushed' \in Nat /\ Flushed' - to = Len(buffer) /\ to <= Flushed' /\ to \in Nat
      BY <1>2, <1>3, <2>1, <2>5, FlushedIsNat
    <3>2. send[c] \in Seq(Seq(Nat)) /\ send'[c] = Append(send[c], buffer)
      BY <1>1, <1>2, <2>5 DEF TypeInv, TypeOK
    <3>3. Messages(buffer) = Stream(to, Flushed' - to)
      BY <1>4, <3>1
    <3>4. Continues(send'[c], Position(c), Flushed')
      BY <1>2, <2>1, <2>2, <3>1, <3>2, <3>3, ContinuesAppend
    <3>5. Flushed' \in 0 .. Flushed'
      BY <3>1
    <3> QED BY <2>2, <2>3, <3>4, <3>5 DEF Handed
  <2>6. CASE c \notin clients \ Full
    BY <1>1, <2>1, <2>2, <2>3, <2>4, <2>6 DEF Handed
  <2> QED BY <2>5, <2>6
<1>6. \A c \in Clients : c \notin Accepted' => send'[c] = <<>> /\ received'[c] = <<>>
  BY <1>1, <1>2, PlacesStay DEF StreamInv
<1>7. \A i \in 1 .. Len(broadcast') : broadcast'[i] = Flushed' + Len(buffer') + i
  BY <1>1, <1>2, <1>3, FlushedIsNat DEF StreamInv
<1>8. \A i \in 1 .. Len(buffer') : buffer'[i] = Flushed' + i
  BY <1>3
<1> QED BY <1>1, <1>5, <1>6, <1>7, <1>8, PlacesStay DEF StreamInv
LEMMA RegisterGoesOn ==
  ASSUME IInv, StreamInv, NEW c \in Clients, RunRegister(c)
  PROVE  StreamInv'
<1>1. /\ UNCHANGED <<broadcast, published, buffer, send, writer, received>>
      /\ hpc[c] = "registering" /\ hpc' = [hpc EXCEPT ![c] = "starting"]
      /\ clients' = clients \cup {c} /\ joinedAt' = [joinedAt EXCEPT ![c] = Flushed]
  BY DEF RunRegister, Handler, chanVars, pumpVars
<1>2. TypeInv /\ hpc \in [Clients -> HandlerStates] /\ joinedAt \in [Clients -> Nat]
  BY DEF IInv, TypeInv, TypeOK
<1>3. Accepted' = Accepted \cup {c} /\ Started' = Started /\ c \notin Accepted
  BY <1>1, <1>2 DEF Accepted, Started
<1>4. Flushed' = Flushed /\ Flushed \in Nat
  BY <1>1, <1>2, FlushedIsNat DEF Flushed
<1>5. Handed(c)'
  <2>1. /\ send'[c] = <<>> /\ received'[c] = <<>> /\ joinedAt'[c] = Flushed /\ Len(<<>>) = 0
        /\ Flushed \in 0 .. Flushed
    BY <1>1, <1>2, <1>3, <1>4 DEF StreamInv
  <2>2. Position(c)' = Flushed'
    BY <1>4, <2>1 DEF Position
  <2>3. Continues(send'[c], Position(c)', Flushed')
    BY <1>4, <2>1, <2>2, ContinuesNone
  <2> QED BY <1>4, <2>1, <2>3 DEF Handed
<1>6. ASSUME NEW d \in Clients \ {c}, writer'[d] # "gone" PROVE Handed(d)'
  BY <1>1, <1>2, <1>4, <1>6, HandedStays DEF StreamInv
<1>7. \A d \in Clients : writer'[d] # "gone" => Handed(d)'
  BY <1>5, <1>6
<1> QED BY <1>1, <1>3, <1>4, <1>7 DEF StreamInv

\* The greeting says no message, wherever it gets into the queue.
LEMMA GreetGoesOn ==
  ASSUME IInv, StreamInv, NEW c \in Clients, Greet(c)
  PROVE  StreamInv'
<1>1. /\ UNCHANGED <<broadcast, published, buffer, clients, writer, received, joinedAt>>
      /\ hpc[c] = "greeting" /\ hpc' = [hpc EXCEPT ![c] = "done"]
      /\ send' = [send EXCEPT ![c] = Append(@, <<Snapshot>>)]
  BY DEF Greet, Handler, runVars, chanVars, pumpVars, auxVars
<1>2. /\ TypeInv /\ hpc \in [Clients -> HandlerStates] /\ send \in [Clients -> Seq(Seq(Nat))]
      /\ \A d \in Clients : received[d] \in Seq(Nat) /\ joinedAt[d] \in Nat
  BY DEF IInv, TypeInv, TypeOK
<1>3. Accepted' = Accepted /\ Started' = Started /\ c \in Accepted
  BY <1>1, <1>2 DEF Accepted, Started
<1>4. Flushed' = Flushed /\ Flushed \in Nat
  BY <1>1, <1>2, FlushedIsNat DEF Flushed
<1>5. ASSUME writer'[c] # "gone" PROVE Handed(c)'
  <2>1. PICK to \in 0 .. Flushed :
          /\ c \in clients => to = Flushed
          /\ Continues(send[c], Position(c), to)
    BY <1>1, <1>5 DEF StreamInv, Handed
  <2>2. Position(c)' = Position(c) /\ Position(c) \in Nat
    BY <1>1, <1>2, LenProperties DEF Position
  <2>3. \A i \in 1 .. Len(received'[c]) : received'[c][i] = joinedAt'[c] + i
    BY <1>1, <1>5 DEF StreamInv, Handed
  <2>4. Messages(<<Snapshot>>) = Stream(to, to - to) /\ to \in Nat /\ to <= to
    BY <1>4, StreamNone DEF Messages
  <2>5. <<Snapshot>> \in Seq(Nat) /\ send[c] \in Seq(Seq(Nat))
    BY <1>2 DEF Snapshot
  <2>6. Continues(send'[c], Position(c), to)
    BY <1>1, <1>2, <2>1, <2>2, <2>4, <2>5, ContinuesAppend
  <2> QED BY <1>1, <1>4, <2>1, <2>2, <2>3, <2>6 DEF Handed
<1>6. ASSUME NEW d \in Clients \ {c}, writer'[d] # "gone" PROVE Handed(d)'
  <2>1. send'[d] = send[d]
    BY <1>1, <1>2
  <2> QED BY <1>1, <1>2, <1>4, <1>6, <2>1, HandedStays DEF StreamInv
<1>7. \A d \in Clients : writer'[d] # "gone" => Handed(d)'
  BY <1>5, <1>6
<1>8. \A d \in Clients : d \notin Accepted' => send'[d] = <<>> /\ received'[d] = <<>>
  BY <1>1, <1>2, <1>3 DEF StreamInv
<1> QED BY <1>1, <1>3, <1>4, <1>7, <1>8 DEF StreamInv

\* What a writer takes from the queue is what comes next.
LEMMA SendsNext ==
  ASSUME IInv, StreamInv, NEW c \in Clients, WriterSend(c)
  PROVE  \E k \in Nat, to \in 0 .. Flushed :
           /\ c \in clients => to = Flushed
           /\ Position(c) + k <= to /\ Position(c) \in Nat
           /\ received' = [received EXCEPT ![c] = @ \o Stream(Position(c), k)]
           /\ Continues(send'[c], Position(c) + k, to)
<1>1. /\ writer[c] = "running" /\ send[c] # <<>>
      /\ received' = [received EXCEPT ![c] = @ \o Messages(Head(send[c]))]
      /\ send' = [send EXCEPT ![c] = Tail(@)]
  BY DEF WriterSend
<1>2. /\ TypeInv /\ send \in [Clients -> Seq(Seq(Nat))]
      /\ received[c] \in Seq(Nat) /\ joinedAt[c] \in Nat
  BY DEF IInv, TypeInv, TypeOK
<1>3. PICK to \in 0 .. Flushed :
        /\ c \in clients => to = Flushed
        /\ Continues(send[c], Position(c), to)
  BY <1>1 DEF StreamInv, Handed
<1>4. Position(c) \in Nat /\ to \in Nat /\ send[c] \in Seq(Seq(Nat)) /\ send'[c] = Tail(send[c])
  BY <1>1, <1>2, LenProperties, FlushedIsNat DEF Position
<1>5. PICK k \in Nat : /\ Position(c) + k <= to
                       /\ Messages(Head(send[c])) = Stream(Position(c), k)
                       /\ Continues(Tail(send[c]), Position(c) + k, to)
  BY <1>1, <1>3, <1>4, ContinuesTail
<1> QED BY <1>1, <1>3, <1>4, <1>5

LEMMA SendGoesOn ==
  ASSUME IInv, StreamInv, NEW c \in Clients, WriterSend(c)
  PROVE  StreamInv'
<1>1. /\ UNCHANGED <<hpc, broadcast, published, buffer, clients, writer, joinedAt>>
      /\ writer[c] = "running" /\ send' = [send EXCEPT ![c] = Tail(@)]
  BY DEF WriterSend, runVars, chanVars, pumpVars, auxVars
<1>2. /\ TypeInv /\ send \in [Clients -> Seq(Seq(Nat))] /\ received \in [Clients -> Seq(Nat)]
      /\ joinedAt[c] \in Nat
  BY DEF IInv, TypeInv, TypeOK
<1>3. Flushed' = Flushed /\ Flushed \in Nat
  BY <1>1, <1>2, FlushedIsNat DEF Flushed
<1>4. PICK k \in Nat, to \in 0 .. Flushed :
        /\ c \in clients => to = Flushed
        /\ Position(c) + k <= to /\ Position(c) \in Nat
        /\ received' = [received EXCEPT ![c] = @ \o Stream(Position(c), k)]
        /\ Continues(send'[c], Position(c) + k, to)
  BY SendsNext
<1>5. /\ Len(received[c]) \in Nat
      /\ \A i \in 1 .. Len(received[c]) : received[c][i] = joinedAt[c] + i
      /\ received[c] \in Seq(Nat)
  BY <1>1, <1>2, LenProperties DEF StreamInv, Handed
<1>6. received[c] = Stream(joinedAt[c], Len(received[c]))
  BY <1>2, <1>5, IsStream
<1>7. received'[c] = Stream(joinedAt[c], Len(received[c]) + k)
  <2>1. received'[c] = received[c] \o Stream(joinedAt[c] + Len(received[c]), k)
    BY <1>2, <1>4 DEF Position
  <2>2. Stream(joinedAt[c], Len(received[c])) \o Stream(joinedAt[c] + Len(received[c]), k)
          = Stream(joinedAt[c], Len(received[c]) + k)
    BY <1>2, <1>5, StreamGoesOn
  <2> QED BY <1>6, <2>1, <2>2
<1>8. /\ Len(received'[c]) = Len(received[c]) + k
      /\ \A i \in 1 .. Len(received'[c]) : received'[c][i] = joinedAt[c] + i
  <2> DEFINE m == Len(received[c]) + k
  <2>1. m \in Nat /\ received'[c] = Stream(joinedAt[c], m)
    BY <1>5, <1>7
  <2> HIDE DEF m
  <2>2. /\ Len(Stream(joinedAt[c], m)) = m
        /\ \A i \in 1 .. m : Stream(joinedAt[c], m)[i] = joinedAt[c] + i
    BY <1>2, <2>1, StreamIsSeq
  <2>3. Len(received'[c]) = m /\ \A i \in 1 .. m : received'[c][i] = joinedAt[c] + i
    BY <2>1, <2>2
  <2> QED BY <2>3 DEF m
<1>9. Handed(c)'
  <2>1. Position(c)' = Position(c) + k
    BY <1>1, <1>2, <1>5, <1>8 DEF Position
  <2> QED BY <1>1, <1>3, <1>4, <1>8, <2>1 DEF Handed
<1>10. ASSUME NEW d \in Clients \ {c}
       PROVE  send'[d] = send[d] /\ received'[d] = received[d]
  BY <1>1, <1>2, <1>4
<1>11. \A d \in Clients : writer'[d] # "gone" => Handed(d)'
  <2> SUFFICES ASSUME NEW d \in Clients, d # c, writer'[d] # "gone" PROVE Handed(d)'
    BY <1>9
  <2> QED BY <1>1, <1>2, <1>3, <1>10, HandedStays DEF StreamInv
<1>12. c \in Accepted
  BY <1>1 DEF StreamInv, Started, Accepted
<1>13. \A d \in Clients : d \notin Accepted' => send'[d] = <<>> /\ received'[d] = <<>>
  BY <1>1, <1>10, <1>12, PlacesStay DEF StreamInv
<1> QED BY <1>1, <1>3, <1>11, <1>13, PlacesStay DEF StreamInv

\* A writer that ends leaves its queue to nobody.
LEMMA LeaveGoesOn ==
  ASSUME IInv, StreamInv, NEW c \in Clients, WriteFails(c) \/ PingFails(c) \/ WriterHangsUp(c)
  PROVE  StreamInv'
<1>1. /\ UNCHANGED <<hpc, broadcast, published, buffer, clients, received, joinedAt>>
      /\ writer[c] = "running" /\ writer' = [writer EXCEPT ![c] = "gone"]
      /\ \A d \in Clients \ {c} : send'[d] = send[d]
  BY DEF WriteFails, PingFails, WriterHangsUp, WriterExit, IInv, TypeInv, TypeOK,
         runVars, chanVars, auxVars
<1>2. TypeInv /\ writer \in [Clients -> WriterStates]
  BY DEF IInv, TypeInv, TypeOK
<1>3. Flushed' = Flushed
  BY <1>1 DEF Flushed
<1>4. Accepted' = Accepted /\ Started' = Started /\ c \in Accepted /\ c \in Started
  BY <1>1 DEF StreamInv, Accepted, Started
<1>5. \A d \in Clients : writer'[d] = "off" <=> d \notin Started'
  BY <1>1, <1>2, <1>4 DEF StreamInv
<1>6. ASSUME NEW d \in Clients, writer'[d] # "gone" PROVE Handed(d)'
  <2>1. d # c /\ writer[d] # "gone"
    BY <1>1, <1>2, <1>6
  <2> QED BY <1>1, <1>2, <1>3, <2>1, HandedStays DEF StreamInv
<1>7. \A d \in Clients : d \notin Accepted' => send'[d] = <<>> /\ received'[d] = <<>>
  BY <1>1, <1>4 DEF StreamInv
<1> QED BY <1>1, <1>3, <1>5, <1>6, <1>7 DEF StreamInv

\* The handlers' steps that neither register nor greet.
LEMMA HandlerGoesOn ==
  ASSUME IInv, StreamInv, NEW c \in Clients, HandlerStep(c), ~Greet(c)
  PROVE  StreamInv'
<1>1. TypeInv /\ hpc \in [Clients -> HandlerStates] /\ writer \in [Clients -> WriterStates]
  BY DEF IInv, TypeInv, TypeOK
<1>2. /\ UNCHANGED <<buffer, broadcast, published, send, received, joinedAt>>
      /\ clients' \subseteq clients
  BY DEF HandlerStep, Admit, Reject, UpgradeOk, UpgradeFails, StartPumps, GreetPanics,
         runVars, chanVars, auxVars
<1>3. Accepted' = Accepted
  BY <1>1 DEF HandlerStep, Admit, Reject, UpgradeOk, UpgradeFails, StartPumps, GreetPanics,
              Handler, Accepted
<1>4. CASE StartPumps(c)
  <2>1. /\ Started' = Started \cup {c} /\ c \notin Started
        /\ writer' = [writer EXCEPT ![c] = "running"]
    BY <1>1, <1>4 DEF StartPumps, Handler, Started
  <2>2. \A d \in Clients : /\ writer'[d] = "off" <=> d \notin Started'
                           /\ writer'[d] # "gone" => writer[d] # "gone"
    BY <1>1, <2>1 DEF StreamInv
  <2> QED BY <1>1, <1>2, <1>3, <2>2, StreamStays
<1>5. CASE ~StartPumps(c)
  <2>1. Started' = Started /\ writer' = writer
    BY <1>1, <1>5 DEF HandlerStep, Admit, Reject, UpgradeOk, UpgradeFails, GreetPanics,
                      Handler, Started, pumpVars
  <2>2. \A d \in Clients : /\ writer'[d] = "off" <=> d \notin Started'
                           /\ writer'[d] # "gone" => writer[d] # "gone"
    BY <2>1 DEF StreamInv
  <2> QED BY <1>1, <1>2, <1>3, <2>2, StreamStays
<1> QED BY <1>4, <1>5

LEMMA StreamStep == IInv /\ StreamInv /\ [Next]_vars => StreamInv'
<1> SUFFICES ASSUME IInv, StreamInv, [Next]_vars PROVE StreamInv'
  OBVIOUS
<1>0. TypeInv
  BY DEF IInv
<1>1. ASSUME UNCHANGED <<hpc, writer, buffer, broadcast, published, send, received, joinedAt>>,
             clients' \subseteq clients
      PROVE  StreamInv'
  BY <1>0, <1>1, PlacesStay, StreamStays
<1>2. CASE Publish \/ RunBroadcast \/ RunTick
  BY <1>0, <1>2, PublishGoesOn, BroadcastGoesOn, TickGoesOn
<1>3. ASSUME NEW c \in Clients, HandlerStep(c) \/ RunRegister(c) PROVE StreamInv'
  BY <1>3, HandlerGoesOn, GreetGoesOn, RegisterGoesOn
<1>4. ASSUME NEW c \in Clients, WriterStep(c) PROVE StreamInv'
  BY <1>4, SendGoesOn, LeaveGoesOn DEF WriterStep
<1>5. ASSUME NEW c \in Clients, RunUnregister(c) PROVE StreamInv'
  BY <1>1, <1>5 DEF RunUnregister, chanVars, auxVars
<1>6. ASSUME NEW c \in Clients, PeerGone(c) \/ ReadFails(c) \/ ReaderCloses(c) PROVE StreamInv'
  BY <1>1, <1>6 DEF PeerGone, ReadFails, ReaderCloses, runVars, chanVars, auxVars
<1>7. CASE UNCHANGED vars
  BY <1>1, <1>7 DEF vars
<1> QED BY <1>2, <1>3, <1>4, <1>5, <1>6, <1>7 DEF Next

\* StreamComplete: a registered client's websocket, its queue and run()'s buffer
\* hold the stream from where it was registered, nothing lost, repeated or
\* reordered, whenever it was greeted and whoever else was evicted.
THEOREM StreamIsComplete == Spec => []StreamComplete
<1>1. IInv /\ StreamInv => StreamComplete
  <2> SUFFICES ASSUME IInv, StreamInv PROVE StreamComplete
    OBVIOUS
  <2>1. TypeInv /\ buffer \in Seq(Nat) /\ broadcast \in Seq(Nat) /\ clients \subseteq Clients
    BY DEF IInv, TypeInv, TypeOK
  <2>2. buffer \o broadcast = Stream(Flushed, published - Flushed)
    <3>1. /\ Flushed \in Nat /\ Len(buffer) \in Nat /\ Len(broadcast) \in Nat
          /\ Flushed + Len(buffer) \in Nat /\ published - Flushed = Len(buffer) + Len(broadcast)
      BY <2>1, FlushedIsNat
    <3>2. buffer = Stream(Flushed, Len(buffer))
      BY <2>1, <3>1, IsStream DEF StreamInv
    <3>3. broadcast = Stream(Flushed + Len(buffer), Len(broadcast))
      BY <2>1, <3>1, IsStream DEF StreamInv
    <3> DEFINE m == Len(buffer)
               n == Len(broadcast)
    <3>4. /\ m \in Nat /\ n \in Nat /\ buffer = Stream(Flushed, m)
          /\ broadcast = Stream(Flushed + m, n) /\ published - Flushed = m + n
      BY <3>1, <3>2, <3>3
    <3> HIDE DEF StreamInv, m, n
    <3>5. Stream(Flushed, m) \o Stream(Flushed + m, n) = Stream(Flushed, m + n)
      <4>1. Flushed \in Nat /\ m \in Nat /\ n \in Nat
        BY <3>1, <3>4
      <4> QED BY <4>1, StreamGoesOn
    <3> QED BY <3>4, <3>5
  <2>3. ASSUME NEW c \in clients, writer[c] # "gone"
        PROVE  /\ received[c] = Stream(joinedAt[c], Len(received[c]))
               /\ Continues(send[c], joinedAt[c] + Len(received[c]), Flushed)
    <3>1. Handed(c) /\ received[c] \in Seq(Nat) /\ joinedAt[c] \in Nat
      BY <2>1, <2>3 DEF StreamInv, TypeInv, TypeOK
    <3>2. received[c] = Stream(joinedAt[c], Len(received[c]))
      BY <3>1, IsStream DEF Handed
    <3> QED BY <3>1, <3>2 DEF Handed, Position
  <2> QED BY <2>2, <2>3 DEF StreamComplete
<1> QED BY <1>1, Invariant, IInvInit, IInvStep, StreamInit, StreamStep, PTL DEF Spec

-----------------------------------------------------------------------------
(* The broadcaster implements Fanout. *)

LEMMA FanoutInit == Init => Abstract!Init
<1> SUFFICES ASSUME Init PROVE Abstract!Init
  OBVIOUS
<1>1. \A c \in Clients : Phase(c) = "new"
  BY DEF Init, Phase
<1> QED BY <1>1 DEF Init, Abstract!Init

\* Most steps are none of the subscribers' business.
LEMMA FanoutStutters ==
  ASSUME UNCHANGED <<published, joinedAt, received>>,
         \A c \in Clients : Phase(c)' = Phase(c)
  PROVE  UNCHANGED Abstract!vars
BY DEF Abstract!vars

LEMMA PhaseOfHandler ==
  ASSUME IInv, StreamInv, NEW c \in Clients, HandlerStep(c)
  PROVE  \A d \in Clients : Phase(d)' = Phase(d)
<1>1. hpc \in [Clients -> HandlerStates] /\ writer \in [Clients -> WriterStates]
  BY DEF IInv, TypeInv, TypeOK
<1>2. CASE StartPumps(c)
  <2>1. /\ hpc[c] = "starting" /\ hpc'[c] \in {"greeting", "done"}
        /\ \A d \in Clients \ {c} : hpc'[d] = hpc[d] /\ writer'[d] = writer[d]
        /\ writer'[c] = "running"
    BY <1>1, <1>2 DEF StartPumps, Handler
  <2>2. writer[c] = "off"
    BY <2>1 DEF StreamInv, Started
  <2>3. Phase(c) = "live" /\ Phase(c)' = "live"
    BY <2>1, <2>2 DEF Phase
  <2>4. \A d \in Clients \ {c} : Phase(d)' = Phase(d)
    BY <2>1 DEF Phase
  <2> QED BY <2>3, <2>4
<1>3. CASE ~StartPumps(c)
  <2>1. writer' = writer
    BY <1>3 DEF HandlerStep, Admit, Reject, UpgradeOk, UpgradeFails, Greet, GreetPanics, pumpVars
  <2> DEFINE New == {"idle", "upgrading", "registering", "rejected", "failed"}
  <2>2. \A d \in Clients : hpc'[d] \in New <=> hpc[d] \in New
    BY <1>1, <1>3 DEF HandlerStep, Admit, Reject, UpgradeOk, UpgradeFails, Greet, GreetPanics, Handler
  <2> QED BY <2>1, <2>2 DEF Phase
<1> QED BY <1>2, <1>3

LEMMA RegisterJoins ==
  ASSUME IInv, StreamInv, NEW c \in Clients, RunRegister(c)
  PROVE  Abstract!Join(c)
<1>1. /\ hpc[c] = "registering" /\ hpc' = [hpc EXCEPT ![c] = "starting"]
      /\ joinedAt' = [joinedAt EXCEPT ![c] = Flushed]
      /\ UNCHANGED <<writer, published, received>>
      /\ hpc \in [Clients -> HandlerStates]
  BY DEF RunRegister, Handler, chanVars, pumpVars, IInv, TypeInv, TypeOK
<1>2. writer[c] = "off"
  BY <1>1 DEF StreamInv, Started
<1>3. Phase(c) = "new" /\ Phase(c)' = "live" /\ \A d \in Clients \ {c} : Phase(d)' = Phase(d)
  BY <1>1, <1>2 DEF Phase
<1>4. Flushed \in 0 .. published
  <2>1. TypeInv
    BY DEF IInv
  <2> QED BY <2>1, FlushedIsNat
<1>5. [d \in Clients |-> Phase(d)'] = [[d \in Clients |-> Phase(d)] EXCEPT ![c] = "live"]
  BY <1>3
<1> QED BY <1>1, <1>3, <1>4, <1>5 DEF Abstract!Join

LEMMA SendDelivers ==
  ASSUME IInv, StreamInv, NEW c \in Clients, WriterSend(c)
  PROVE  Abstract!Deliver(c) \/ UNCHANGED Abstract!vars
<1>1. UNCHANGED <<hpc, writer, published, joinedAt>> /\ writer[c] = "running"
  BY DEF WriterSend, chanVars, pumpVars, auxVars
<1>2. \A d \in Clients : Phase(d)' = Phase(d)
  BY <1>1 DEF Phase
<1>3. Phase(c) = "live"
  BY <1>1 DEF StreamInv, Started, Phase
<1>4. PICK k \in Nat, to \in 0 .. Flushed :
        /\ Position(c) + k <= to /\ Position(c) \in Nat
        /\ received' = [received EXCEPT ![c] = @ \o Stream(Position(c), k)]
  BY SendsNext
<1>5. Flushed \in Nat /\ published \in Nat /\ Flushed <= published
  <2>1. TypeInv
    BY DEF IInv
  <2> QED BY <2>1, FlushedIsNat
<1>6. CASE k = 0
  <2>1. received[c] \in Seq(Nat) /\ received \in [Clients -> Seq(Nat)]
    BY DEF IInv, TypeInv, TypeOK
  <2>2. received[c] \o Stream(Position(c), 0) = received[c]
    BY <1>4, <2>1, StreamNone, ConcatEmptySeq
  <2>3. received' = received
    BY <1>4, <1>6, <2>1, <2>2
  <2> QED BY <1>1, <1>2, <2>3, FanoutStutters
<1>7. CASE k > 0
  <2>1. k \in 1 .. published - Position(c)
    BY <1>4, <1>5, <1>7
  <2>2. Abstract!Position(c) = Position(c)
    BY DEF Abstract!Position, Position
  <2>3. [d \in Clients |-> Phase(d)'] = [d \in Clients |-> Phase(d)]
    BY <1>2
  <2> QED BY <1>1, <1>3, <1>4, <2>1, <2>2, <2>3 DEF Abstract!Deliver, Stream
<1> QED BY <1>4, <1>6, <1>7

LEMMA ExitLeaves ==
  ASSUME IInv, StreamInv, NEW c \in Clients, WriteFails(c) \/ PingFails(c) \/ WriterHangsUp(c)
  PROVE  Abstract!Leave(c)
<1>1. /\ UNCHANGED <<hpc, published, received, joinedAt>>
      /\ writer[c] = "running" /\ writer' = [writer EXCEPT ![c] = "gone"]
      /\ writer \in [Clients -> WriterStates]
  BY DEF WriteFails, PingFails, WriterHangsUp, WriterExit, IInv, TypeInv, TypeOK, chanVars, auxVars
<1>2. Phase(c) = "live" /\ Phase(c)' = "gone" /\ \A d \in Clients \ {c} : Phase(d)' = Phase(d)
  BY <1>1 DEF StreamInv, Started, Phase
<1>3. [d \in Clients |-> Phase(d)'] = [[d \in Clients |-> Phase(d)] EXCEPT ![c] = "gone"]
  BY <1>2
<1> QED BY <1>1, <1>2, <1>3 DEF Abstract!Leave

LEMMA FanoutStep == IInv /\ StreamInv /\ [Next]_vars => [Abstract!Next]_(Abstract!vars)
<1> SUFFICES ASSUME IInv, StreamInv, [Next]_vars
             PROVE  Abstract!Next \/ UNCHANGED Abstract!vars
  OBVIOUS
<1>1. ASSUME UNCHANGED <<hpc, writer, published, joinedAt, received>>
      PROVE  UNCHANGED Abstract!vars
  BY <1>1, FanoutStutters DEF Phase
<1>2. CASE Publish
  <2>1. /\ UNCHANGED <<hpc, writer, joinedAt, received>>
        /\ published < MaxMsgs /\ published' = published + 1
    BY <1>2 DEF Publish, pumpVars, auxVars
  <2>2. [c \in Clients |-> Phase(c)'] = [c \in Clients |-> Phase(c)]
    BY <2>1 DEF Phase
  <2> QED BY <2>1, <2>2 DEF Abstract!Publish, Abstract!Next
<1>3. CASE RunBroadcast \/ RunTick
  BY <1>1, <1>3 DEF RunBroadcast, RunTick, chanVars, pumpVars, auxVars
<1>4. ASSUME NEW c \in Clients, HandlerStep(c) PROVE UNCHANGED Abstract!vars
  <2>1. UNCHANGED <<published, joinedAt, received>>
    BY <1>4 DEF HandlerStep, Admit, Reject, UpgradeOk, UpgradeFails, StartPumps, Greet, GreetPanics,
                chanVars, auxVars
  <2> QED BY <1>4, <2>1, PhaseOfHandler, FanoutStutters
<1>5. ASSUME NEW c \in Clients, RunRegister(c) PROVE Abstract!Next
  BY <1>5, RegisterJoins DEF Abstract!Next
<1>6. ASSUME NEW c \in Clients, WriterStep(c) PROVE Abstract!Next \/ UNCHANGED Abstract!vars
  BY <1>6, SendDelivers, ExitLeaves DEF WriterStep, Abstract!Next
<1>7. ASSUME NEW c \in Clients,
             RunUnregister(c) \/ PeerGone(c) \/ ReadFails(c) \/ ReaderCloses(c)
      PROVE  UNCHANGED Abstract!vars
  BY <1>1, <1>7 DEF RunUnregister, PeerGone, ReadFails, ReaderCloses, chanVars, auxVars
<1>8. CASE UNCHANGED vars
  BY <1>1, <1>8 DEF vars
<1> QED BY <1>2, <1>3, <1>4, <1>5, <1>6, <1>7, <1>8 DEF Next

\* The broadcaster implements Fanout: with its channels, its buffer and its
\* goroutines it hands each client a gapless run of the stream.
THEOREM BroadcasterFansOut == Spec => ImplementsFanout
<1>1. Init => IInv /\ StreamInv /\ Abstract!Init
  BY IInvInit, StreamInit, FanoutInit
<1>2. IInv /\ StreamInv /\ [Next]_vars => (IInv /\ StreamInv)'
  BY IInvStep, StreamStep
<1> QED BY <1>1, <1>2, FanoutStep, PTL DEF Spec, ImplementsFanout, Abstract!Spec
=============================================================================
