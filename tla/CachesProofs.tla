---------------------------- MODULE CachesProofs ----------------------------
(***************************************************************************)
(* Theorems about the two caches, for any number of callers, any lifetimes *)
(* of tokens, and any intervals.                                           *)
(***************************************************************************)
EXTENDS Caches, TLAPS

\* What Valkey gave a caller outlasts the moment at which it called.
SessionInv == \A c \in Callers : step[c] = "taking" => since[c] < session[c]

TokenInv == TypeOK /\ SessionInv /\ ~spoilt

\* The load under way.
LoadInv ==
  /\ loader = "waiting" => ready /\ now <= due
  /\ loader # "waiting" => begun <= now /\ now <= begun + Slow
  /\ loader # "waiting" /\ ready => due = begun + Interval
  /\ ~ready => schedule = None \/ loader = "saving"
  /\ loader = "saving" => begun <= schedule /\ schedule <= now /\ ~failed

\* The age of the copy when Valkey drops it, and of the schedule at the next
\* tick, or at the load under way, which is late by no more than Slow.
AgeInv ==
  /\ copy # None => drop <= copy + Slow + Ttl
  /\ schedule # None /\ ~failed /\ loader = "waiting" => due < schedule + Slow + Ttl + Interval
  /\ schedule # None /\ ~failed /\ loader # "waiting" => begun < schedule + Slow + Ttl + Interval

SeasonInv == S!TypeOK /\ LoadInv /\ AgeInv

\* A time and an intact record of it, from which the arithmetic starts.
LEMMA TokensAreTimes == Tokens \subseteq Nat /\ None \notin Tokens
<1>1. Tokens \subseteq Nat
  BY TokenAssumption DEF TokenAssumption, Tokens, Forever
<1> QED BY <1>1, TokenAssumption DEF TokenAssumption

\* Both hold at the start.
LEMMA TokenInvInit == Init => TokenInv
<1> SUFFICES ASSUME Init PROVE TokenInv
  OBVIOUS
<1> USE TokenAssumption DEF TokenAssumption, Init
<1>1. now \in 0 .. MaxTime /\ since \in [Callers -> 0 .. now]
  OBVIOUS
<1>2. step \in [Callers -> {"idle", "asking", "taking", "waiting", "fetching"}]
  OBVIOUS
<1>3. \A c \in Callers : step[c] = "idle" /\ lock # c
  OBVIOUS
<1>4. mem = None /\ kept = None /\ lock = None /\ env \in BOOLEAN
  OBVIOUS
<1>5. session \in [Callers -> Tokens \cup {None}]
  OBVIOUS
<1>6. spoilt = FALSE
  OBVIOUS
<1>7. TypeOK
  BY ONLY <1>1, <1>2, <1>3, <1>4, <1>5, <1>6 DEF TypeOK
<1> QED BY ONLY <1>3, <1>6, <1>7 DEF TokenInv, SessionInv

LEMMA SeasonInvInit == S!Init => SeasonInv
<1> SUFFICES ASSUME S!Init PROVE SeasonInv
  OBVIOUS
<1> USE TokenAssumption, SeasonAssumption DEF TokenAssumption, SeasonAssumption, S!Init
<1>1. S!TypeOK
  <2>1. now \in S!Times /\ begun \in S!Times /\ copy = None /\ schedule = None
    BY DEF S!Times
  <2>2. ready \in BOOLEAN /\ failed \in BOOLEAN /\ loader = "loading"
    OBVIOUS
  <2>3. due \in 0 .. MaxTime + Interval /\ drop \in 0 .. MaxTime + Ttl
    OBVIOUS
  <2> QED BY ONLY <2>1, <2>2, <2>3 DEF S!TypeOK
<1>2. LoadInv /\ AgeInv
  BY DEF LoadInv, AgeInv
<1> QED BY <1>1, <1>2 DEF SeasonInv

\* The steps of Authenticate, one after the other.
LEMMA CallKeeps ==
  ASSUME TokenInv, NEW c \in Callers, CallFresh(c) \/ Call(c), UNCHANGED now
  PROVE  TokenInv'
<1>1. CASE CallFresh(c)
  BY <1>1, TokensAreTimes, TokenAssumption
  DEF TokenAssumption, TokenInv, TypeOK, SessionInv, CallFresh, Fresh
<1>2. CASE Call(c)
  BY <1>2, TokensAreTimes, TokenAssumption
  DEF TokenAssumption, TokenInv, TypeOK, SessionInv, Call, Goes
<1> QED BY <1>1, <1>2

LEMMA AskKeeps ==
  ASSUME TokenInv, NEW c \in Callers, AskValkey(c), UNCHANGED now
  PROVE  TokenInv'
<1>1. CASE Goes(c, "asking", "taking")
  BY <1>1, TokensAreTimes, TokenAssumption
  DEF TokenAssumption, TokenInv, TypeOK, SessionInv, AskValkey, Goes
<1>2. CASE Goes(c, "asking", "waiting")
  BY <1>2, TokensAreTimes, TokenAssumption
  DEF TokenAssumption, TokenInv, TypeOK, SessionInv, AskValkey, Goes
<1> QED BY <1>1, <1>2 DEF AskValkey

LEMMA TakeKeeps ==
  ASSUME TokenInv, NEW c \in Callers, TakeSession(c), UNCHANGED now
  PROVE  TokenInv'
<1>1. /\ session[c] \in Tokens /\ session[c] \in Nat /\ since[c] \in Nat
      /\ since[c] < session[c] /\ mem' \in {mem, session[c]}
  <2>1. session[c] \in Tokens /\ since[c] \in Nat /\ since[c] < session[c]
    BY DEF TokenInv, TypeOK, SessionInv, TakeSession, Goes
  <2>2. mem' \in {mem, session[c]}
    BY DEF TakeSession
  <2> QED BY <2>1, <2>2, TokensAreTimes
<1>2. mem' \in Tokens /\ ~(mem' <= since[c])
  <2>1. CASE mem = None \/ mem < session[c]
    BY <1>1, <2>1 DEF TakeSession
  <2>2. CASE mem \in Tokens /\ ~(mem < session[c])
    <3>1. mem' = mem /\ mem \in Nat
      BY <2>2, TokensAreTimes, TokenAssumption DEF TokenAssumption, TakeSession
    <3> QED BY <1>1, <2>2, <3>1
  <2> QED BY <2>1, <2>2 DEF TokenInv, TypeOK
<1>3. ~spoilt'
  BY <1>2 DEF TokenInv, TakeSession, Returns
<1> QED
  BY <1>2, <1>3, TokensAreTimes, TokenAssumption
  DEF TokenAssumption, TokenInv, TypeOK, SessionInv, TakeSession, Goes, Returns

LEMMA LockKeeps ==
  ASSUME TokenInv, NEW c \in Callers, Lock(c), UNCHANGED now
  PROVE  TokenInv'
<1> USE TokensAreTimes, TokenAssumption DEF TokenAssumption
<1>0. since[c] \in Nat /\ since[c] <= now /\ now \in 0 .. MaxTime
  BY DEF TokenInv, TypeOK
<1>1. CASE Fresh /\ Goes(c, "waiting", "idle") /\ Returns(c, mem) /\ UNCHANGED <<mem, lock>>
  <2>1. mem \in Nat /\ ~(mem <= since[c])
    BY <1>0, <1>1 DEF TokenInv, TypeOK, Fresh
  <2>2. ~spoilt'
    BY <1>1, <2>1 DEF TokenInv, Returns
  <2> QED BY <1>1, <2>2 DEF TokenInv, TypeOK, SessionInv, Lock, Goes, Returns
<1>2. CASE Goes(c, "waiting", "idle") /\ mem' = Forever /\ Returns(c, Forever) /\ UNCHANGED lock
  <2>1. Forever \in Tokens /\ ~(Forever <= since[c])
    BY <1>0 DEF Tokens, Forever
  <2>2. ~spoilt'
    BY <1>2, <2>1 DEF TokenInv, Returns
  <2> QED BY <1>2, <2>1, <2>2 DEF TokenInv, TypeOK, SessionInv, Lock, Goes, Returns
<1>3. CASE Goes(c, "waiting", "fetching") /\ lock' = c /\ UNCHANGED <<mem, since, spoilt>>
  BY <1>3 DEF TokenInv, TypeOK, SessionInv, Lock, Goes
<1> QED BY <1>1, <1>2, <1>3 DEF Lock

LEMMA FetchKeeps ==
  ASSUME TokenInv, NEW c \in Callers, Fetch(c), UNCHANGED now
  PROVE  TokenInv'
<1> USE TokensAreTimes, TokenAssumption DEF TokenAssumption
<1>0. since[c] \in Nat /\ since[c] <= now /\ now \in 0 .. MaxTime
  BY DEF TokenInv, TypeOK
<1>1. CASE Fails(c) /\ UNCHANGED <<mem, kept>>
  BY <1>1 DEF TokenInv, TypeOK, SessionInv, Fetch, Goes, Fails
<1>2. ASSUME NEW life \in Lifetimes,
             mem' = now + life, kept' \in {kept, now + life}, Returns(c, now + life)
      PROVE  TokenInv'
  <2>1. now + life \in Tokens
    BY <1>0 DEF Tokens
  <2>2. ~(now + life <= since[c])
    BY <1>0
  <2>3. ~spoilt'
    BY <1>2, <2>2 DEF TokenInv, Returns
  <2> QED BY <1>2, <2>1, <2>3 DEF TokenInv, TypeOK, SessionInv, Fetch, Goes, Returns
<1> QED BY <1>1, <1>2 DEF Fetch

\* A step of the tokens' side, whoever makes it.
LEMMA TokenStepKeeps ==
  ASSUME TokenInv, TokenStep, UNCHANGED now
  PROVE  TokenInv'
<1>1. CASE Expire
  BY <1>1 DEF TokenInv, TypeOK, SessionInv, Expire, callVars
<1>2. ASSUME NEW c \in Callers, Authenticate(c)
      PROVE  TokenInv'
  BY <1>2, CallKeeps, AskKeeps, TakeKeeps, LockKeeps, FetchKeeps DEF Authenticate
<1> QED BY <1>1, <1>2 DEF TokenStep

\* Time passes for the tokens.
LEMMA TickKeepsTokens ==
  ASSUME TokenInv, Tick
  PROVE  TokenInv'
<1>1. now \in 0 .. MaxTime /\ now' = now + 1 /\ now' \in 0 .. MaxTime
  BY TokenAssumption DEF TokenAssumption, TokenInv, TypeOK, Tick
<1>2. since' \in [Callers -> 0 .. now']
  BY <1>1, TokenAssumption DEF TokenAssumption, TokenInv, TypeOK, Tick, tokenVars, callVars
<1> QED BY <1>1, <1>2 DEF TokenInv, TypeOK, SessionInv, Tick, tokenVars, callVars

LEMMA RestartKeepsTokens ==
  ASSUME TokenInv, CachesRestart
  PROVE  TokenInv'
<1>1. since' \in [Callers -> 0 .. now'] /\ session' \in [Callers -> Tokens \cup {None}]
  BY TokenAssumption DEF TokenAssumption, TokenInv, TypeOK, CachesRestart
<1>2. \A c \in Callers : step'[c] = "idle" /\ lock' # c
  BY TokenAssumption DEF TokenAssumption, CachesRestart
<1> QED BY <1>1, <1>2 DEF TokenInv, TypeOK, SessionInv, CachesRestart

\* The steps of a load.
LEMMA SeasonStepKeeps ==
  ASSUME SeasonInv, S!SeasonStep, UNCHANGED now
  PROVE  SeasonInv'
<1> USE TokenAssumption, SeasonAssumption DEF TokenAssumption, SeasonAssumption
<1> USE DEF SeasonInv, S!TypeOK, S!Times, LoadInv, AgeInv
<1>1. CASE S!UseCopy
  <2>1. S!TypeOK'
    <3>1. schedule' \in S!Times /\ copy' = copy /\ drop' = drop /\ begun' \in S!Times
      BY <1>1 DEF S!UseCopy, S!Done
    <3>2. due' \in 0 .. MaxTime + Interval /\ loader' = "waiting" /\ ready' = TRUE /\ failed' = FALSE
      BY <1>1 DEF S!UseCopy, S!Done
    <3>3. S!TypeOK /\ now' = now
      OBVIOUS
    <3> QED BY ONLY <3>1, <3>2, <3>3 DEF S!TypeOK, S!Times
  <2>2. LoadInv'
    BY <1>1 DEF S!UseCopy, S!Done
  <2>3. AgeInv'
    BY <1>1 DEF S!UseCopy, S!Done
  <2> QED BY <2>1, <2>2, <2>3 DEF SeasonInv
<1>2. CASE S!NoCopy
  <2>1. S!TypeOK'
    BY <1>2 DEF S!NoCopy
  <2>2. LoadInv'
    BY <1>2 DEF S!NoCopy
  <2>3. AgeInv'
    BY <1>2 DEF S!NoCopy
  <2> QED BY <2>1, <2>2, <2>3 DEF SeasonInv
<1>3. CASE S!Fetch
  <2>1. S!TypeOK'
    <3>1. schedule' = now /\ now # None /\ loader' = "saving" /\ failed' = FALSE
      BY <1>3 DEF S!Fetch
    <3>2. UNCHANGED <<now, ready, due, copy, drop, begun>>
      BY <1>3 DEF S!Fetch
    <3>3. S!TypeOK /\ now' = now
      OBVIOUS
    <3> QED BY ONLY <3>1, <3>2, <3>3 DEF S!TypeOK, S!Times
  <2>2. LoadInv'
    BY <1>3 DEF S!Fetch
  <2>3. AgeInv'
    BY <1>3 DEF S!Fetch
  <2> QED BY <2>1, <2>2, <2>3 DEF SeasonInv
<1>4. CASE S!FetchFails
  <2>1. S!TypeOK'
    BY <1>4 DEF S!FetchFails, S!Done
  <2>2. LoadInv'
    BY <1>4 DEF S!FetchFails, S!Done
  <2>3. AgeInv'
    BY <1>4 DEF S!FetchFails, S!Done
  <2> QED BY <2>1, <2>2, <2>3 DEF SeasonInv
<1>5. CASE S!Save
  <2>1. S!TypeOK'
    BY <1>5 DEF S!Save, S!Done
  <2>2. LoadInv'
    BY <1>5 DEF S!Save, S!Done
  <2>3. AgeInv'
    BY <1>5 DEF S!Save, S!Done
  <2> QED BY <2>1, <2>2, <2>3 DEF SeasonInv
<1>6. CASE S!Reload
  <2>1. S!TypeOK'
    BY <1>6 DEF S!Reload
  <2>2. LoadInv'
    BY <1>6 DEF S!Reload
  <2>3. AgeInv'
    BY <1>6 DEF S!Reload
  <2> QED BY <2>1, <2>2, <2>3 DEF SeasonInv
<1> QED BY <1>1, <1>2, <1>3, <1>4, <1>5, <1>6 DEF S!SeasonStep

LEMMA TickKeepsSeason ==
  ASSUME SeasonInv, S!MayPass, Tick, UNCHANGED loaderVars
  PROVE  SeasonInv'
<1> USE TokenAssumption, SeasonAssumption DEF TokenAssumption, SeasonAssumption
<1> USE DEF SeasonInv, S!TypeOK, S!Times, LoadInv, AgeInv, S!MayPass, Tick, loaderVars
<1>1. S!TypeOK'
  OBVIOUS
<1>2. LoadInv'
  OBVIOUS
<1>3. AgeInv'
  OBVIOUS
<1> QED BY <1>1, <1>2, <1>3

LEMMA RestartKeepsSeason ==
  ASSUME SeasonInv, CachesRestart
  PROVE  SeasonInv'
<1> USE TokenAssumption, SeasonAssumption DEF TokenAssumption, SeasonAssumption
<1> USE DEF SeasonInv, S!TypeOK, S!Times, LoadInv, AgeInv, CachesRestart, S!Restart
<1>1. S!TypeOK'
  <2>1. schedule' = None /\ ready' = FALSE /\ loader' = "loading" /\ failed' = FALSE
    OBVIOUS
  <2>2. due' \in 0 .. MaxTime + Interval /\ begun' \in S!Times
    OBVIOUS
  <2>3. UNCHANGED <<now, copy, drop>>
    OBVIOUS
  <2> QED BY <2>1, <2>2, <2>3
<1>2. LoadInv'
  OBVIOUS
<1>3. AgeInv'
  OBVIOUS
<1> QED BY <1>1, <1>2, <1>3

\* The two invariants, through every step of either side.
LEMMA Invariants == CachesSpec => [](TokenInv /\ SeasonInv)
<1>1. CachesInit => TokenInv /\ SeasonInv
  BY TokenInvInit, SeasonInvInit DEF CachesInit
<1>2. TokenInv /\ SeasonInv /\ [CachesNext]_cacheVars => (TokenInv /\ SeasonInv)'
  <2> SUFFICES ASSUME TokenInv, SeasonInv, [CachesNext]_cacheVars
               PROVE  TokenInv' /\ SeasonInv'
    OBVIOUS
  <2>1. CASE TokenStep /\ UNCHANGED <<now, loaderVars>>
    <3>1. TokenInv'
      BY <2>1, TokenStepKeeps
    <3>2. SeasonInv'
      BY <2>1 DEF SeasonInv, S!TypeOK, LoadInv, AgeInv, loaderVars
    <3> QED BY <3>1, <3>2
  <2>2. CASE S!SeasonStep /\ UNCHANGED <<now, tokenVars>>
    <3>1. TokenInv'
      BY <2>2 DEF TokenInv, TypeOK, SessionInv, tokenVars, callVars
    <3>2. SeasonInv'
      BY <2>2, SeasonStepKeeps
    <3> QED BY <3>1, <3>2
  <2>3. CASE CachesRestart
    BY <2>3, RestartKeepsTokens, RestartKeepsSeason
  <2>4. CASE S!MayPass /\ Tick /\ UNCHANGED loaderVars
    BY <2>4, TickKeepsTokens, TickKeepsSeason
  <2>5. CASE UNCHANGED cacheVars
    BY <2>5 DEF TokenInv, TypeOK, SessionInv, SeasonInv, S!TypeOK, LoadInv, AgeInv,
                cacheVars, tokenVars, callVars, loaderVars
  <2> QED BY <2>1, <2>2, <2>3, <2>4, <2>5 DEF CachesNext
<1> QED BY <1>1, <1>2, PTL DEF CachesSpec

-----------------------------------------------------------------------------
\* The write lock has at most the one holder that is fetching, and the rest of
\* the state is what the types say.
THEOREM CachesTyped == CachesSpec => []CachesTypeOK
<1>1. TokenInv /\ SeasonInv => CachesTypeOK
  BY DEF TokenInv, SeasonInv, CachesTypeOK
<1> QED BY <1>1, Invariants, PTL

\* Authenticate never returns a token that had expired when it was called, for
\* any number of callers at once.
THEOREM TokensAreUsable == CachesSpec => []UsableToken
<1>1. TokenInv => UsableToken
  BY DEF TokenInv, UsableToken
<1> QED BY <1>1, Invariants, PTL

\* The schedule's age is bounded while fetches succeed.
THEOREM ScheduleIsYoung == CachesSpec => []ScheduleAge
<1>1. SeasonInv => ScheduleAge
  BY TokenAssumption, SeasonAssumption
  DEF TokenAssumption, SeasonAssumption, SeasonInv, S!TypeOK, S!Times, LoadInv, AgeInv, ScheduleAge
<1> QED BY <1>1, Invariants, PTL

\* No step outside the write lock replaces the token in memory by one that
\* expires sooner.
THEOREM MemoryGrows == CachesSpec => MemoryNeverOlder
<1>1. TokenInv /\ [CachesNext]_cacheVars =>
        [None \notin {mem, mem'} /\ lock = None => mem <= mem']_<<now, tokenVars>>
  <2> SUFFICES ASSUME TokenInv, [CachesNext]_cacheVars,
                      None \notin {mem, mem'}, lock = None
               PROVE  mem <= mem'
    OBVIOUS
  <2>1. mem \in Nat
    BY TokensAreTimes DEF TokenInv, TypeOK
  <2>2. CASE UNCHANGED mem
    BY <2>1, <2>2
  <2>3. CASE TokenStep
    <3>1. CASE Expire
      BY <2>1, <3>1 DEF Expire
    <3>2. ASSUME NEW c \in Callers, Authenticate(c)
          PROVE  mem <= mem'
      <4>1. CASE CallFresh(c) \/ Call(c) \/ AskValkey(c)
        BY <2>1, <4>1 DEF CallFresh, Call, AskValkey
      <4>2. CASE TakeSession(c)
        BY <2>1, <4>2, TokensAreTimes DEF TakeSession, Goes, TokenInv, TypeOK
      <4>3. CASE Lock(c)
        <5>1. now \in 0 .. MaxTime /\ mem # None
          BY TokensAreTimes, <2>1, TokenAssumption DEF TokenAssumption, TokenInv, TypeOK
        <5> QED BY <2>1, <4>3, <5>1, TokenAssumption DEF TokenAssumption, Lock, Fresh, Forever
      <4>4. CASE Fetch(c)
        BY <4>4, TokenAssumption DEF TokenAssumption, Fetch
      <4> QED BY <3>2, <4>1, <4>2, <4>3, <4>4 DEF Authenticate
    <3> QED BY <2>3, <3>1, <3>2 DEF TokenStep
  <2>4. CASE CachesRestart
    BY <2>4 DEF CachesRestart
  <2> QED BY <2>2, <2>3, <2>4 DEF CachesNext, Tick, cacheVars, tokenVars
<1> QED BY <1>1, Invariants, PTL DEF CachesSpec, MemoryNeverOlder
=============================================================================
