----------------------------- MODULE Broadcaster -----------------------------
(***************************************************************************)
(* The fan-out of upstream updates to browser websockets                   *)
(* (broadcaster/broadcaster.go) together with the per-IP connection        *)
(* limiter it holds (ratelimiter/ratelimiter.go).                          *)
(*                                                                         *)
(* Processes: publishers calling Broadcast, one HTTP handler goroutine per *)
(* connection attempt (HandleConnections), the single run() goroutine,     *)
(* and per accepted client a readPump and a writePump.  A message is its   *)
(* number in the order in which it entered the broadcast channel; a frame  *)
(* is the sequence of messages one websocket write carries; the greeting   *)
(* frame carries the state snapshot, written Snapshot.                     *)
(*                                                                         *)
(* One tick of run() visits the clients one after the other while the      *)
(* pumps keep running.  It is one step here: what it does to a client      *)
(* depends only on that client's queue, and the pumps and the handler of   *)
(* another client touch neither that queue nor the set of clients, so each *)
(* of their steps commutes to before or after the whole tick.              *)
(***************************************************************************)
EXTENDS Naturals, Sequences, FiniteSets

CONSTANTS
  Clients,     \* connection attempts, each made once
  IPs,         \* remote addresses
  IpOf,        \* the address an attempt comes from
  Limit,       \* connections allowed per address (100 in main.go)
  SendCap,     \* capacity of a client's send channel (256)
  BcastCap,    \* capacity of the broadcast channel (256)
  MaxMsgs      \* bound: messages published in a behaviour

ASSUME BroadcasterAssumption ==
  /\ IsFiniteSet(Clients)
  /\ IpOf \in [Clients -> IPs]
  /\ Limit \in Nat
  /\ SendCap \in Nat \ {0}
  /\ BcastCap \in Nat \ {0}
  /\ MaxMsgs \in Nat

VARIABLES
  ips,         \* ConnectionLimiter.ips, 0 where the map has no entry
  hpc,         \* where the HandleConnections call of an attempt is
  clients,     \* Broadcaster.clients
  broadcast,   \* the broadcast channel
  buffer,      \* Broadcaster.messageBuffer
  send,        \* Client.send, frames not yet received by the writePump
  closed,      \* clients whose send channel is closed
  reader,      \* where the readPump is
  writer,      \* where the writePump is
  conn,        \* the websocket: "dead" when the peer is gone but our end is open
  \* Bookkeeping the program does not keep.
  published,   \* messages that entered the broadcast channel
  received,    \* the messages written to each websocket, the greeting aside
  joinedAt,    \* messages already flushed when the client was registered
  evicted      \* clients dropped by a tick because their queue was full

runVars     == <<clients, buffer, closed>>
chanVars    == <<broadcast, published>>
pumpVars    == <<reader, writer, conn>>
auxVars     == <<joinedAt, evicted>>
vars == <<ips, hpc, clients, broadcast, buffer, send, closed, reader, writer,
          conn, published, received, joinedAt, evicted>>

Snapshot == 0

HandlerStates == {"idle", "upgrading", "registering", "starting", "greeting",
                  "done", "rejected", "failed", "panicked"}
ReaderStates  == {"off", "reading", "leaving", "closing", "gone"}
WriterStates  == {"off", "running", "gone"}
ConnStates    == {"none", "open", "dead", "closed"}

\* The frames of client c are queued, flushed and numbered consistently with
\* the channels' capacities; everything has the type the code gives it.
TypeOK ==
  /\ ips \in [IPs -> Nat]
  /\ hpc \in [Clients -> HandlerStates]
  /\ clients \subseteq Clients
  /\ broadcast \in Seq(Nat) /\ Len(broadcast) <= BcastCap
  /\ buffer \in Seq(Nat)
  /\ send \in [Clients -> Seq(Seq(Nat))]
  /\ \A c \in Clients : Len(send[c]) <= SendCap
  /\ closed \subseteq Clients
  /\ reader \in [Clients -> ReaderStates]
  /\ writer \in [Clients -> WriterStates]
  /\ conn \in [Clients -> ConnStates]
  /\ published \in Nat
  /\ received \in [Clients -> Seq(Nat)]
  /\ joinedAt \in [Clients -> Nat]
  /\ evicted \subseteq Clients

Init ==
  /\ ips = [ip \in IPs |-> 0]
  /\ hpc = [c \in Clients |-> "idle"]
  /\ clients = {}
  /\ broadcast = <<>>
  /\ buffer = <<>>
  /\ send = [c \in Clients |-> <<>>]
  /\ closed = {}
  /\ reader = [c \in Clients |-> "off"]
  /\ writer = [c \in Clients |-> "off"]
  /\ conn = [c \in Clients |-> "none"]
  /\ published = 0
  /\ received = [c \in Clients |-> <<>>]
  /\ joinedAt = [c \in Clients |-> 0]
  /\ evicted = {}

Handler(c, from, to) == hpc[c] = from /\ hpc' = [hpc EXCEPT ![c] = to]

-----------------------------------------------------------------------------
(* ConnectionLimiter.  Each method holds the limiter's mutex throughout. *)

Mut_HasRoomForOneMore(ip) == ips[ip] <= Limit

HasRoom(ip) == ips[ip] < Limit

Acquired(ip) == [ips EXCEPT ![ip] = @ + 1]

Mut_ReleasedButLast(ip) == [ips EXCEPT ![ip] = IF @ > 1 THEN @ - 1 ELSE @]

Released(ip) == [ips EXCEPT ![ip] = IF @ > 1 THEN @ - 1 ELSE 0]

-----------------------------------------------------------------------------
(* HandleConnections, one goroutine per attempt. *)

Admit(c) ==
  /\ Handler(c, "idle", "upgrading")
  /\ HasRoom(IpOf[c])
  /\ ips' = Acquired(IpOf[c])
  /\ UNCHANGED <<runVars, chanVars, send, pumpVars, received, auxVars>>

Reject(c) ==
  /\ Handler(c, "idle", "rejected")
  /\ ~HasRoom(IpOf[c])
  /\ UNCHANGED <<ips, runVars, chanVars, send, pumpVars, received, auxVars>>

UpgradeOk(c) ==
  /\ Handler(c, "upgrading", "registering")
  /\ conn' = [conn EXCEPT ![c] = "open"]
  /\ UNCHANGED <<ips, runVars, chanVars, send, reader, writer, received, auxVars>>

UpgradeFails(c) ==
  /\ Handler(c, "upgrading", "failed")
  /\ ips' = Released(IpOf[c])
  /\ UNCHANGED <<runVars, chanVars, send, pumpVars, received, auxVars>>

\* Both pumps start; a nil initial message ends the handler here.
StartPumps(c) ==
  /\ Handler(c, "starting", "greeting") \/ Handler(c, "starting", "done")
  /\ reader' = [reader EXCEPT ![c] = "reading"]
  /\ writer' = [writer EXCEPT ![c] = "running"]
  /\ UNCHANGED <<ips, runVars, chanVars, send, conn, received, auxVars>>

\* The handler queues the snapshot itself; it blocks while the queue is full.
Greet(c) ==
  /\ Handler(c, "greeting", "done")
  /\ c \notin closed
  /\ Len(send[c]) < SendCap
  /\ send' = [send EXCEPT ![c] = Append(@, <<Snapshot>>)]
  /\ UNCHANGED <<ips, runVars, chanVars, pumpVars, received, auxVars>>

\* A send on a closed channel panics, also when the handler was already blocked
\* in it; net/http recovers the panic and the handler is abandoned.
GreetPanics(c) ==
  /\ Handler(c, "greeting", "panicked")
  /\ c \in closed
  /\ UNCHANGED <<ips, runVars, chanVars, send, pumpVars, received, auxVars>>

-----------------------------------------------------------------------------
(* run(): one goroutine, one select case per step.  The register and       *)
(* unregister channels are unbuffered: the step is the rendezvous.         *)

Flushed == published - Len(broadcast) - Len(buffer)

RunRegister(c) ==
  /\ Handler(c, "registering", "starting")
  /\ clients' = clients \cup {c}
  /\ joinedAt' = [joinedAt EXCEPT ![c] = Flushed]
  /\ UNCHANGED <<ips, chanVars, buffer, send, closed, pumpVars, received, evicted>>

Mut_UnregisterLeavesChannelOpen(c) ==
  /\ reader[c] = "leaving"
  /\ reader' = [reader EXCEPT ![c] = "closing"]
  /\ ips' = IF c \in clients THEN Released(IpOf[c]) ELSE ips
  /\ clients' = clients \ {c}
  /\ UNCHANGED <<hpc, chanVars, buffer, send, closed, writer, conn, received, auxVars>>

RunUnregister(c) ==
  /\ reader[c] = "leaving"
  /\ reader' = [reader EXCEPT ![c] = "closing"]
  /\ IF c \in clients
     THEN /\ ips' = Released(IpOf[c])
          /\ clients' = clients \ {c}
          /\ closed' = closed \cup {c}
     ELSE UNCHANGED <<ips, clients, closed>>
  /\ UNCHANGED <<hpc, chanVars, buffer, send, writer, conn, received, auxVars>>

Mut_BufferNewestFirst ==
  /\ broadcast # <<>>
  /\ buffer' = <<Head(broadcast)>> \o buffer
  /\ broadcast' = Tail(broadcast)
  /\ UNCHANGED <<ips, hpc, clients, closed, send, pumpVars, published, received, auxVars>>

RunBroadcast ==
  /\ broadcast # <<>>
  /\ buffer' = Append(buffer, Head(broadcast))
  /\ broadcast' = Tail(broadcast)
  /\ UNCHANGED <<ips, hpc, clients, closed, send, pumpVars, published, received, auxVars>>

\* Clients whose queue has no room for one more frame.
Mut_FullTooLate == {c \in clients : Len(send[c]) > SendCap}

Full == {c \in clients : Len(send[c]) >= SendCap}

Mut_KeepsEvicted == clients

AfterTick == clients \ Full

Mut_BufferKept ==
  /\ buffer # <<>>
  /\ send' = [c \in Clients |-> IF c \in clients \ Full
                                THEN Append(send[c], buffer) ELSE send[c]]
  /\ closed' = closed \cup Full
  /\ clients' = AfterTick
  /\ evicted' = evicted \cup Full
  /\ UNCHANGED <<ips, hpc, chanVars, buffer, pumpVars, received, joinedAt>>

RunTick ==
  /\ buffer # <<>>
  /\ send' = [c \in Clients |-> IF c \in clients \ Full
                                THEN Append(send[c], buffer) ELSE send[c]]
  /\ closed' = closed \cup Full
  /\ clients' = AfterTick
  /\ evicted' = evicted \cup Full
  /\ buffer' = <<>>
  /\ UNCHANGED <<ips, hpc, chanVars, pumpVars, received, joinedAt>>

-----------------------------------------------------------------------------
(* Broadcast(): blocks while the channel is full. *)

Publish ==
  /\ published < MaxMsgs
  /\ Len(broadcast) < BcastCap
  /\ published' = published + 1
  /\ broadcast' = Append(broadcast, published + 1)
  /\ UNCHANGED <<ips, hpc, runVars, send, pumpVars, received, auxVars>>

-----------------------------------------------------------------------------
(* writePump.  A frame taken from the queue is written or the write fails  *)
(* (error, or the write deadline); a ping fails only on a broken socket.   *)

Mut_ExitWithoutClose(c) ==
  /\ writer' = [writer EXCEPT ![c] = "gone"]
  /\ UNCHANGED conn

WriterExit(c) ==
  /\ writer' = [writer EXCEPT ![c] = "gone"]
  /\ conn' = [conn EXCEPT ![c] = "closed"]

Messages(frame) == IF frame = <<Snapshot>> THEN <<>> ELSE frame

WriterSend(c) ==
  /\ writer[c] = "running" /\ send[c] # <<>> /\ conn[c] # "closed"
  /\ received' = [received EXCEPT ![c] = @ \o Messages(Head(send[c]))]
  /\ send' = [send EXCEPT ![c] = Tail(@)]
  /\ UNCHANGED <<ips, hpc, runVars, chanVars, pumpVars, auxVars>>

Mut_WriteErrorIgnored(c) ==
  /\ writer[c] = "running" /\ send[c] # <<>>
  /\ send' = [send EXCEPT ![c] = Tail(@)]
  /\ UNCHANGED <<ips, hpc, runVars, chanVars, pumpVars, received, auxVars>>

WriteFails(c) ==
  /\ writer[c] = "running" /\ send[c] # <<>>
  /\ send' = [send EXCEPT ![c] = Tail(@)]
  /\ WriterExit(c)
  /\ UNCHANGED <<ips, hpc, runVars, chanVars, reader, received, auxVars>>

PingFails(c) ==
  /\ writer[c] = "running" /\ conn[c] # "open"
  /\ WriterExit(c)
  /\ UNCHANGED <<ips, hpc, runVars, chanVars, send, reader, received, auxVars>>

\* A closed channel is drained first; only then does the receive report it.
WriterHangsUp(c) ==
  /\ writer[c] = "running" /\ send[c] = <<>> /\ c \in closed
  /\ WriterExit(c)
  /\ UNCHANGED <<ips, hpc, runVars, chanVars, send, reader, received, auxVars>>

WriterStep(c) ==
  WriterSend(c) \/ WriteFails(c) \/ PingFails(c) \/ WriterHangsUp(c)

-----------------------------------------------------------------------------
(* readPump, and the peer. *)

\* The browser closes, its network vanishes, it stops answering pings, or it
\* sends more than maxMessageSize bytes: the next read will fail.
PeerGone(c) ==
  /\ conn[c] = "open"
  /\ conn' = [conn EXCEPT ![c] = "dead"]
  /\ UNCHANGED <<ips, hpc, runVars, chanVars, send, reader, writer, received, auxVars>>

ReadFails(c) ==
  /\ reader[c] = "reading" /\ conn[c] # "open"
  /\ reader' = [reader EXCEPT ![c] = "leaving"]
  /\ UNCHANGED <<ips, hpc, runVars, chanVars, send, writer, conn, received, auxVars>>

ReaderCloses(c) ==
  /\ reader[c] = "closing"
  /\ reader' = [reader EXCEPT ![c] = "gone"]
  /\ conn' = [conn EXCEPT ![c] = "closed"]
  /\ UNCHANGED <<ips, hpc, runVars, chanVars, send, writer, received, auxVars>>

-----------------------------------------------------------------------------
HandlerStep(c) ==
  \/ Admit(c) \/ Reject(c) \/ UpgradeOk(c) \/ UpgradeFails(c)
  \/ StartPumps(c) \/ Greet(c) \/ GreetPanics(c)

Next ==
  \/ Publish
  \/ RunBroadcast
  \/ RunTick
  \/ \E c \in Clients :
       \/ HandlerStep(c)
       \/ RunRegister(c) \/ RunUnregister(c)
       \/ WriterStep(c)
       \/ PeerGone(c) \/ ReadFails(c) \/ ReaderCloses(c)

Spec == Init /\ [][Next]_vars

\* run() never blocks, so each ready case of its select is taken; goroutines
\* that can step do; a failed read and a failed ping are noticed (pongWait,
\* pingPeriod, writeWait).  A sender blocked on a full channel is served before
\* later senders, hence the strong fairness of Greet.  Nothing obliges anybody
\* to connect, to publish, or a peer to leave.
Fairness ==
  /\ WF_vars(RunBroadcast) /\ WF_vars(RunTick)
  /\ \A c \in Clients :
       /\ WF_vars(UpgradeOk(c) \/ UpgradeFails(c))
       /\ WF_vars(RunRegister(c)) /\ WF_vars(RunUnregister(c))
       /\ WF_vars(StartPumps(c))
       /\ SF_vars(Greet(c)) /\ WF_vars(GreetPanics(c))
       /\ WF_vars(WriterStep(c))
       /\ WF_vars(ReadFails(c)) /\ WF_vars(ReaderCloses(c))

FairSpec == Spec /\ Fairness

-----------------------------------------------------------------------------
(* Properties. *)

\* Attempts that hold a limiter slot and are not registered yet.
Pending == {c \in Clients : hpc[c] \in {"upgrading", "registering"}}

From(S, ip) == {c \in S : IpOf[c] = ip}

\* Registered clients never have a closed send channel: neither the send of a
\* tick nor the close of an eviction or of an unregistration can hit a closed
\* channel, which would panic in run() and take the process down.
RunNeverPanics == clients \cap closed = {}

\* Every limiter slot is held by an attempt being set up, by a registered
\* client, or - for good - by a client that a tick evicted: the eviction closes
\* and deletes the client without RemoveConnection, and the unregistration
\* that follows finds it gone.
SlotsAccounted ==
  \A ip \in IPs : ips[ip] = Cardinality(From(Pending \cup clients \cup evicted, ip))

\* An address never has more than Limit connections set up or registered,
\* whatever the interleaving of admissions, failed upgrades, evictions and
\* disconnects.
LimitRespected ==
  \A ip \in IPs : Cardinality(From(Pending \cup clients, ip)) <= Limit

\* The messages of the stream after number n, k of them.
Stream(n, k) == [i \in 1 .. k |-> n + i]

\* The frames of a queue carry the messages after number from, up to number to,
\* each once and in order: pos[i] is the last that was said by frame i.  The
\* greeting, wherever it is, says none.
Continues(frames, from, to) ==
  \E pos \in [0 .. Len(frames) -> 0 .. to] :
    /\ pos[0] = from /\ pos[Len(frames)] = to
    /\ \A i \in 1 .. Len(frames) :
         /\ pos[i - 1] <= pos[i]
         /\ Messages(frames[i]) = Stream(pos[i - 1], pos[i] - pos[i - 1])

\* What a registered client with a running writePump has been sent, what waits
\* in its queue, and what is still buffered, is the stream from the point at
\* which it was registered, each message once and in order.
StreamComplete ==
  /\ buffer \o broadcast = Stream(Flushed, published - Flushed)
  /\ \A c \in clients : writer[c] # "gone" =>
       /\ received[c] = Stream(joinedAt[c], Len(received[c]))
       /\ Continues(send[c], joinedAt[c] + Len(received[c]), Flushed)

\* The broadcaster hands every client a gapless run of the stream: it
\* implements Fanout, a client being live from its registration until its
\* writePump ends (an evicted client still drains its queue).
Phase(c) ==
  CASE writer[c] = "gone" -> "gone"
    [] hpc[c] \in {"idle", "upgrading", "registering", "rejected", "failed"} -> "new"
    [] OTHER -> "live"

Abstract == INSTANCE Fanout WITH
  Subscribers <- Clients,
  phase <- [c \in Clients |-> Phase(c)],
  base  <- joinedAt,
  log   <- received

ImplementsFanout == Abstract!Spec

\* Both pumps have ended, the socket is closed and run() has dropped the client.
TornDown(c) ==
  c \notin clients /\ reader[c] = "gone" /\ writer[c] = "gone" /\ conn[c] = "closed"

\* The connections that exist in any sense: an attempt on its way to the
\* upgrade, a registered client, an open socket, a pump that still runs.
Existing == Pending \cup {c \in Clients : conn[c] # "none" /\ ~TornDown(c)}

\* The comment of ConnectionLimiter calls it a "total connection per IP
\* tracker" and a refused browser is told "Too many connections from your
\* IP": a refusal would mean that Limit connections of that address exist.
RefusalMeansTooMany ==
  [][\A c \in Clients : hpc[c] = "idle" /\ hpc'[c] = "rejected" =>
       Cardinality(From(Existing, IpOf[c])) >= Limit]_vars

\* Once a connection breaks, or the broadcaster closes a client's queue, both
\* pumps end, the socket is closed and the client is unregistered, whichever
\* of the three goroutines noticed first and however full the queue is.
GoroutinesReclaimed ==
  \A c \in Clients :
    (c \in closed \/ conn[c] \in {"dead", "closed"}) ~> TornDown(c)

\* No HandleConnections call hangs: not on the unbuffered register channel,
\* and not on the queue of a client whose writePump is already gone.
HandlerReturns ==
  \A c \in Clients :
    hpc[c] # "idle" ~> hpc[c] \in {"done", "rejected", "failed", "panicked"}

\* A message published while a client is registered is written to it, unless
\* that client's connection is taken down.
DeliveredOrDropped ==
  \A c \in Clients, m \in 1 .. MaxMsgs :
    (c \in clients /\ joinedAt[c] < m /\ m <= published)
      ~> ((\E i \in DOMAIN received[c] : received[c][i] = m) \/ TornDown(c))
=============================================================================
