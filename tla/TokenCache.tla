----------------------------- MODULE TokenCache -----------------------------
(***************************************************************************)
(* The login token (auth/authenticator.go), cached in memory and in        *)
(* Valkey.  Authenticate looks into memory under the read lock, then into  *)
(* Valkey under no lock, and fetches a new token under the write lock,     *)
(* after another look.  Memory gives a token up Margin before it expires,  *)
(* Valkey only when it does.  A token is the time at which it expires.     *)
(*                                                                         *)
(* The lock is the code's answer to callers at the same time; the relay    *)
(* itself authenticates from one goroutine at a time.                      *)
(***************************************************************************)
EXTENDS Naturals

CONSTANTS
  Callers,    \* goroutines that call Authenticate
  Margin,     \* one hour
  Lifetimes,  \* of the tokens that the service gives
  None,       \* no token, no holder of the lock
  MaxTime     \* bound: the clock

ASSUME TokenAssumption ==
  /\ Margin \in Nat /\ MaxTime \in Nat
  /\ Lifetimes \subseteq Nat \ {0}
  /\ None \notin Nat /\ None \notin Callers

VARIABLES
  now,
  mem,      \* tokenCache.token
  lock,     \* who holds tokenCache's write lock
  kept,     \* the login session in Valkey
  env,      \* F1_TV_TOKEN is set
  step,     \* per caller: where it is in Authenticate
  session,  \* per caller: what Valkey gave it
  \* Bookkeeping the program does not keep.
  since,    \* per caller: when it called
  spoilt    \* a call returned a token that had expired when it was made

callVars == <<step, session, since, spoilt>>
tokenVars == <<mem, lock, kept, env, callVars>>

Forever == MaxTime + Margin + 1
Tokens == {t + l : t \in 0 .. MaxTime, l \in Lifetimes} \cup {Forever}

TypeOK ==
  /\ now \in 0 .. MaxTime
  /\ mem \in Tokens \cup {None} /\ kept \in Tokens \cup {None}
  /\ lock \in Callers \cup {None} /\ env \in BOOLEAN
  /\ step \in [Callers -> {"idle", "asking", "taking", "waiting", "fetching"}]
  /\ session \in [Callers -> Tokens \cup {None}]
  /\ \A c \in Callers : step[c] = "taking" => session[c] # None
  /\ \A c \in Callers : (lock = c <=> step[c] = "fetching")
  /\ since \in [Callers -> 0 .. now] /\ spoilt \in BOOLEAN

Init ==
  /\ now = 0 /\ mem = None /\ lock = None /\ kept = None /\ env \in BOOLEAN
  /\ step = [c \in Callers |-> "idle"]
  /\ session = [c \in Callers |-> None]
  /\ since = [c \in Callers |-> 0]
  /\ spoilt = FALSE

-----------------------------------------------------------------------------
\* The token in memory is good for more than Margin.
Fresh == mem # None /\ now + Margin < mem

Goes(c, from, to) == step[c] = from /\ step' = [step EXCEPT ![c] = to]

Fails(c) == since' = [since EXCEPT ![c] = 0] /\ UNCHANGED spoilt

Returns(c, token) ==
  /\ since' = [since EXCEPT ![c] = 0]
  /\ spoilt' = (spoilt \/ token <= since[c])

\* A call, and its look into memory under the read lock: it returns at once ...
CallFresh(c) ==
  /\ lock = None /\ step[c] = "idle" /\ Fresh
  /\ spoilt' = (spoilt \/ mem <= now)
  /\ UNCHANGED <<mem, lock, kept, env, step, session, since>>

\* ... or goes on to Valkey.
Call(c) ==
  /\ lock = None /\ Goes(c, "idle", "asking") /\ ~Fresh
  /\ since' = [since EXCEPT ![c] = now]
  /\ UNCHANGED <<mem, lock, kept, env, session, spoilt>>

Mut_AnySession(c) ==
  /\ \/ /\ kept # None
        /\ Goes(c, "asking", "taking")
        /\ session' = [session EXCEPT ![c] = kept]
     \/ Goes(c, "asking", "waiting") /\ UNCHANGED session
  /\ UNCHANGED <<mem, lock, kept, env, since, spoilt>>

\* GetLoginSession: a token that has not expired; or an error, or none.
AskValkey(c) ==
  /\ \/ /\ kept # None /\ now < kept
        /\ Goes(c, "asking", "taking")
        /\ session' = [session EXCEPT ![c] = kept]
     \/ Goes(c, "asking", "waiting") /\ UNCHANGED session
  /\ UNCHANGED <<mem, lock, kept, env, since, spoilt>>

Mut_TakesAlways(c) ==
  /\ lock = None /\ Goes(c, "taking", "idle")
  /\ mem' = session[c]
  /\ Returns(c, mem')
  /\ session' = [session EXCEPT ![c] = None]
  /\ UNCHANGED <<lock, kept, env>>

\* Valkey's token goes to memory unless the one there lasts longer, which is
\* returned then.
TakeSession(c) ==
  /\ lock = None /\ Goes(c, "taking", "idle")
  /\ mem' = IF mem = None \/ mem < session[c] THEN session[c] ELSE mem
  /\ Returns(c, mem')
  /\ session' = [session EXCEPT ![c] = None]
  /\ UNCHANGED <<lock, kept, env>>

\* The write lock, and another look into memory; then the token of the
\* environment, or the service's.
Lock(c) ==
  /\ lock = None
  /\ \/ Fresh /\ Goes(c, "waiting", "idle") /\ Returns(c, mem) /\ UNCHANGED <<mem, lock>>
     \/ /\ ~Fresh /\ env /\ Goes(c, "waiting", "idle")
        /\ mem' = Forever /\ Returns(c, Forever) /\ UNCHANGED lock
     \/ /\ ~Fresh /\ ~env /\ Goes(c, "waiting", "fetching")
        /\ lock' = c /\ UNCHANGED <<mem, since, spoilt>>
  /\ UNCHANGED <<kept, env, session>>

Mut_LockKept(c) ==
  /\ lock = c /\ Goes(c, "fetching", "idle")
  /\ \/ Fails(c) /\ UNCHANGED <<mem, kept>>
     \/ \E life \in Lifetimes :
          /\ mem' = now + life /\ kept' \in {kept, now + life}
          /\ Returns(c, now + life)
  /\ UNCHANGED <<lock, env, session>>

\* The fetch, under the lock, fails or gives a token, which Valkey keeps if it
\* can be reached.
Fetch(c) ==
  /\ lock = c /\ Goes(c, "fetching", "idle")
  /\ lock' = None
  /\ \/ Fails(c) /\ UNCHANGED <<mem, kept>>
     \/ \E life \in Lifetimes :
          /\ mem' = now + life /\ kept' \in {kept, now + life}
          /\ Returns(c, now + life)
  /\ UNCHANGED <<env, session>>

\* StoreLoginSession set a time to live: Valkey drops the session at its end, or
\* some time later.
Expire ==
  /\ kept # None /\ kept <= now
  /\ kept' = None
  /\ UNCHANGED <<mem, lock, env, callVars>>

Authenticate(c) == CallFresh(c) \/ Call(c) \/ AskValkey(c) \/ TakeSession(c) \/ Lock(c) \/ Fetch(c)

TokenStep == (\E c \in Callers : Authenticate(c)) \/ Expire

Tick == now < MaxTime /\ now' = now + 1 /\ UNCHANGED tokenVars

Next == (TokenStep /\ UNCHANGED now) \/ Tick

Spec == Init /\ [][Next]_<<now, tokenVars>>

-----------------------------------------------------------------------------
(* Properties. *)

\* A token that Authenticate returned had not expired when it was called,
\* whichever cache it came from and whatever happened in between.
UsableToken == ~spoilt

\* What is taken over from Valkey never makes the token in memory one that
\* expires sooner, even if it was read before a fetch and is used after it.
MemoryNeverOlder ==
  [][None \notin {mem, mem'} /\ lock = None => mem <= mem']_<<now, tokenVars>>
=============================================================================
