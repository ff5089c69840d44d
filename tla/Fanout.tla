------------------------------- MODULE Fanout -------------------------------
(***************************************************************************)
(* What the broadcaster promises its subscribers, without its channels,    *)
(* buffers and goroutines.  Messages are numbered in the order in which    *)
(* they were handed to Broadcast.  A subscriber joins once, at a position  *)
(* of the stream that is at most the number of messages published so far,  *)
(* and from there it is handed runs of consecutive messages: nothing is    *)
(* skipped, repeated, reordered or invented, until it leaves.              *)
(***************************************************************************)
EXTENDS Naturals, Sequences

CONSTANTS
  Subscribers,
  MaxMsgs        \* bound: messages published in a behaviour

VARIABLES
  published,     \* number of messages published
  phase,         \* per subscriber: "new", "live", "gone"
  base,          \* per subscriber: position at which it joined
  log            \* per subscriber: the messages handed to it, in order

vars == <<published, phase, base, log>>

Init ==
  /\ published = 0
  /\ phase = [s \in Subscribers |-> "new"]
  /\ base = [s \in Subscribers |-> 0]
  /\ log = [s \in Subscribers |-> <<>>]

Publish ==
  /\ published < MaxMsgs
  /\ published' = published + 1
  /\ UNCHANGED <<phase, base, log>>

Join(s) ==
  /\ phase[s] = "new"
  /\ phase' = [phase EXCEPT ![s] = "live"]
  /\ \E k \in 0 .. published : base' = [base EXCEPT ![s] = k]
  /\ UNCHANGED <<published, log>>

Position(s) == base[s] + Len(log[s])

Deliver(s) ==
  /\ phase[s] = "live"
  /\ \E k \in 1 .. published - Position(s) :
       log' = [log EXCEPT ![s] = @ \o [i \in 1 .. k |-> Position(s) + i]]
  /\ UNCHANGED <<published, phase, base>>

Leave(s) ==
  /\ phase[s] = "live"
  /\ phase' = [phase EXCEPT ![s] = "gone"]
  /\ UNCHANGED <<published, base, log>>

Next ==
  \/ Publish
  \/ \E s \in Subscribers : Join(s) \/ Deliver(s) \/ Leave(s)

Spec == Init /\ [][Next]_vars
=============================================================================
