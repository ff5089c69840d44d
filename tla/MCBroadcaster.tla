---------------------------- MODULE MCBroadcaster ----------------------------
(***************************************************************************)
(* Small instances of Broadcaster for TLC.  All attempts share address a;  *)
(* queues of one or two frames make eviction happen after a few ticks.     *)
(***************************************************************************)
EXTENDS Broadcaster, TLC

CONSTANTS c1, c2, c3, a

MCIPs == {a}

MCThree   == {c1, c2, c3}
MCThreeIp == [c \in MCThree |-> a]

MCTwo   == {c1, c2}
MCTwoIp == [c \in MCTwo |-> a]

\* Clients meet only in the limiter and in run(), which never waits for one of
\* them, so the liveness of a connection is checked for one connection, with a
\* longer stream.
MCOne   == {c1}
MCOneIp == [c \in MCOne |-> a]

\* The attempts are interchangeable: same address, no order between them.
MCSymmetryThree == Permutations(MCThree)
=============================================================================
