---------------------------- MODULE SeasonLoader ----------------------------
(***************************************************************************)
(* The season's schedule (api/seasons.go, and valkeyclient/client.go's     *)
(* copy of it).  The loader loads at its start and then at each tick of a  *)
(* ticker: from Valkey, where a schedule is kept for Ttl, or else from its *)
(* source, whose answer it saves.  A schedule is the time at which it was  *)
(* fetched.  A load takes at most Slow (external: the request has no       *)
(* timeout of its own).                                                    *)
(***************************************************************************)
EXTENDS Naturals

CONSTANTS
  Interval,  \* the ticker's period (24 h)
  Ttl,       \* how long Valkey keeps a schedule (24 h)
  Slow,      \* the longest load
  None,      \* no schedule
  MaxTime    \* bound: the clock

VARIABLES
  now,
  schedule,  \* SeasonLoader.schedule
  ready,     \* readyChan is closed
  loader,    \* where run() is
  due,       \* when the ticker fires next
  copy,      \* the schedule in Valkey
  drop,      \* when Valkey drops it
  \* Bookkeeping the program does not keep.
  begun,     \* when the load under way began
  failed     \* the last load failed, and left an older schedule

seasonVars == <<schedule, ready, loader, due, copy, drop, begun, failed>>

Times == 0 .. MaxTime

TypeOK ==
  /\ now \in Times
  /\ schedule \in Times \cup {None} /\ copy \in Times \cup {None}
  /\ ready \in BOOLEAN /\ failed \in BOOLEAN
  /\ loader \in {"loading", "fetching", "saving", "waiting"}
  /\ loader = "saving" => schedule # None
  /\ due \in 0 .. MaxTime + Interval /\ drop \in 0 .. MaxTime + Ttl
  /\ begun \in Times

Init ==
  /\ now = 0
  /\ schedule = None /\ ready = FALSE /\ loader = "loading" /\ due = Interval
  /\ copy = None /\ drop = 0
  /\ begun = 0 /\ failed = FALSE

-----------------------------------------------------------------------------
\* The load is over; the first one makes the loader ready, and the ticker.
Done ==
  /\ loader' = "waiting"
  /\ ready' = TRUE
  /\ due' = IF ready THEN due ELSE now + Interval
  /\ begun' = 0

\* The copy in Valkey.
UseCopy ==
  /\ loader = "loading"
  /\ copy # None /\ now < drop
  /\ schedule' = copy /\ failed' = FALSE
  /\ Done
  /\ UNCHANGED <<copy, drop>>

\* There is none, or Valkey cannot be reached.
NoCopy ==
  /\ loader = "loading"
  /\ loader' = "fetching"
  /\ UNCHANGED <<schedule, ready, due, copy, drop, begun, failed>>

Fetch ==
  /\ loader = "fetching"
  /\ schedule' = now /\ failed' = FALSE
  /\ loader' = "saving"
  /\ UNCHANGED <<ready, due, copy, drop, begun>>

\* The schedule stays what it was.
FetchFails ==
  /\ loader = "fetching"
  /\ failed' = (schedule # None)
  /\ Done
  /\ UNCHANGED <<schedule, copy, drop>>

Mut_KeptForever ==
  /\ loader = "saving"
  /\ \/ copy' = schedule /\ drop' = MaxTime + Ttl
     \/ UNCHANGED <<copy, drop>>
  /\ Done
  /\ UNCHANGED <<schedule, failed>>

\* SaveSeasonSchedule, which may fail.
Save ==
  /\ loader = "saving"
  /\ \/ copy' = schedule /\ drop' = now + Ttl
     \/ UNCHANGED <<copy, drop>>
  /\ Done
  /\ UNCHANGED <<schedule, failed>>

Reload ==
  /\ loader = "waiting" /\ now >= due
  /\ loader' = "loading" /\ begun' = now
  /\ due' = due + Interval
  /\ UNCHANGED <<schedule, ready, copy, drop, failed>>

\* Stop, at any time, and the next start of the process.
Restart ==
  /\ schedule' = None /\ ready' = FALSE /\ loader' = "loading"
  /\ due' = now + Interval /\ begun' = now /\ failed' = FALSE
  /\ UNCHANGED <<copy, drop>>

SeasonStep == UseCopy \/ NoCopy \/ Fetch \/ FetchFails \/ Save \/ Reload

\* Time stands still for what is due.
MayPass ==
  /\ loader = "waiting" => now < due
  /\ loader # "waiting" => now < begun + Slow

Tick == now < MaxTime /\ MayPass /\ now' = now + 1 /\ UNCHANGED seasonVars

Next == ((SeasonStep \/ Restart) /\ UNCHANGED now) \/ Tick

Spec == Init /\ [][Next]_<<now, seasonVars>>

=============================================================================
