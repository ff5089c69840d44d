------------------------------- MODULE Caches -------------------------------
(***************************************************************************)
(* The token cache and the season loader, side by side under one clock:    *)
(* the two parts of the relay that keep something in Valkey for a time.    *)
(***************************************************************************)
EXTENDS TokenCache

\* SeasonLoader's parameters.
CONSTANTS Interval, Ttl, Slow

ASSUME SeasonAssumption ==
  Interval \in Nat \ {0} /\ Ttl \in Nat \ {0} /\ Slow \in 1 .. Interval

\* SeasonLoader's variables.
VARIABLES schedule, ready, loader, due, copy, drop, begun, failed

S == INSTANCE SeasonLoader

loaderVars == <<schedule, ready, loader, due, copy, drop, begun, failed>>
cacheVars == <<now, tokenVars, loaderVars>>

CachesInit == Init /\ S!Init

\* A start of the process empties what both keep in memory.
CachesRestart ==
  /\ S!Restart
  /\ mem' = None /\ lock' = None
  /\ step' = [c \in Callers |-> "idle"]
  /\ session' = [c \in Callers |-> None]
  /\ since' = [c \in Callers |-> 0]
  /\ UNCHANGED <<now, kept, env, spoilt>>

CachesNext ==
  \/ TokenStep /\ UNCHANGED <<now, loaderVars>>
  \/ S!SeasonStep /\ UNCHANGED <<now, tokenVars>>
  \/ CachesRestart
  \/ S!MayPass /\ Tick /\ UNCHANGED loaderVars

CachesSpec == CachesInit /\ [][CachesNext]_cacheVars

\* The state of both.
CachesTypeOK == TypeOK /\ S!TypeOK

\* While fetches succeed, the schedule that the manager and /season read is
\* younger than a life of the copy, an interval and two loads.  The ticker reloads
\* once in an interval, but a copy saved at the end of a load outlives the next
\* tick.
ScheduleAge ==
  schedule # None /\ ~failed => now < schedule + Ttl + Interval + 2 * Slow
=============================================================================
