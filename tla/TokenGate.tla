------------------------------ MODULE TokenGate ------------------------------
(***************************************************************************)
(* The one-request-at-a-time gate of a data_api token: the redis lock and  *)
(* conflict keys that src/app/auth.py keeps for it, the AuthContext object *)
(* the requests of one process share through the token cache, and the      *)
(* conflict checks of the endpoints in src/app/main.py.                    *)
(*                                                                         *)
(* The dependency runs in a thread of the server's pool, so its steps      *)
(* interleave with those of other requests; a Lua script is one step.  The *)
(* checks of an endpoint run on the event loop; here they interleave too.  *)
(* A request id, and the context a request read from the database, are     *)
(* named after the request.  Time is counted in ticks: the two redis keys  *)
(* and the cache entry carry the ticks they have left.                     *)
(***************************************************************************)
EXTENDS Integers, FiniteSets

CONSTANTS
  Requests,   \* requests of one token
  NumChecks,  \* how often an endpoint checks for a conflict
  LockTTL,    \* CONCURRENT_KEY_TTL_SECONDS, of both keys
  CacheTTL,   \* TOKEN_CACHE_TTL_SECONDS
  MaxDelay,   \* bound on the time from the cache lookup to the grant
  None

ASSUME ChecksAssumption == NumChecks \subseteq Nat \ {0}
ASSUME NoneAssumption == None \notin Requests
ASSUME TimeAssumption ==
  /\ LockTTL \in Nat /\ CacheTTL \in Nat \ {0} /\ MaxDelay \in Nat
  /\ LockTTL > CacheTTL + MaxDelay

VARIABLES
  pc,           \* where each request is
  checks,       \* conflict checks it still has to pass
  outcome,      \* how it ended
  waited,       \* ticks since its cache lookup, until its grant
  ctx,          \* the context object it holds, by the request that read it
  active,       \* active_request_id of each context object
  cacheCtx,     \* the context in the token cache
  cacheLeft,    \* ticks until that entry expires
  lock,         \* data_api:concurrent:<token>
  lockLeft,
  conflict,     \* data_api:concurrent:conflict:<token>
  conflictLeft,
  overrun,      \* history: requests whose lock expired under them
  accused       \* history: holders accused while a check was still ahead

reqVars   == <<pc, checks, outcome, waited, ctx>>
cacheVars == <<cacheCtx, cacheLeft>>
lockVars  == <<lock, lockLeft>>
markVars  == <<conflict, conflictLeft>>
histVars  == <<overrun, accused>>
vars == <<reqVars, active, cacheVars, lockVars, markVars, histVars>>

PcStates == {"idle", "loading", "loaded", "granted", "ready", "owned",
             "accused", "leaving", "done"}
Outcomes == {"none", "served", "aborted", "refused", "error", "crashed"}

TypeOK ==
  /\ pc \in [Requests -> PcStates]
  /\ checks \in [Requests -> Nat]
  /\ outcome \in [Requests -> Outcomes]
  /\ waited \in [Requests -> 0..MaxDelay]
  /\ ctx \in [Requests -> Requests \cup {None}]
  /\ active \in [Requests -> Requests \cup {None}]
  /\ cacheCtx \in Requests \cup {None}
  /\ cacheLeft \in 0..CacheTTL
  /\ lock \in Requests \cup {None}
  /\ lockLeft \in 0..LockTTL
  /\ conflict \in Requests \cup {None}
  /\ conflictLeft \in 0..LockTTL
  /\ overrun \in SUBSET Requests
  /\ accused \in SUBSET Requests

Init ==
  /\ pc = [r \in Requests |-> "idle"]
  /\ checks = [r \in Requests |-> 0]
  /\ outcome = [r \in Requests |-> "none"]
  /\ waited = [r \in Requests |-> 0]
  /\ ctx = [r \in Requests |-> None]
  /\ active = [c \in Requests |-> None]
  /\ cacheCtx = None /\ cacheLeft = 0
  /\ lock = None /\ lockLeft = 0
  /\ conflict = None /\ conflictLeft = 0
  /\ overrun = {} /\ accused = {}

Goto(r, state) == pc' = [pc EXCEPT ![r] = state]

\* Before and after the grant, up to the release.
Entering == {"loading", "loaded", "granted"}
Working  == {"ready", "owned", "accused"}
Active(r) == pc[r] \in {"granted", "leaving"} \cup Working

\* The request ends without having entered the dependency's try block.
EndsEarly(r, how) ==
  /\ Goto(r, "done")
  /\ outcome' = [outcome EXCEPT ![r] = how]
  /\ UNCHANGED <<checks, waited, ctx>>

\* The endpoint returns or raises; the finally clause is still to run.
Leaves(r, how) ==
  /\ Goto(r, "leaving")
  /\ outcome' = [outcome EXCEPT ![r] = how]
  /\ UNCHANGED <<checks, waited, ctx>>

-----------------------------------------------------------------------------
(* load_token_context, and what comes before the gate *)

\* Faulty variant: an expired entry is still served.
CachedForever == cacheCtx # None

Cached == cacheCtx # None /\ cacheLeft > 0

CacheHit(r) ==
  /\ pc[r] = "idle"
  /\ Cached
  /\ Goto(r, "loaded")
  /\ ctx' = [ctx EXCEPT ![r] = cacheCtx]
  /\ UNCHANGED <<checks, outcome, waited, active, cacheVars, lockVars,
                 markVars, histVars>>

CacheMiss(r) ==
  /\ pc[r] = "idle"
  /\ ~Cached
  /\ Goto(r, "loading")
  /\ UNCHANGED <<checks, outcome, waited, ctx, active, cacheVars, lockVars,
                 markVars, histVars>>

\* The row has been read: a new context is made and cached, over whatever a
\* concurrent miss has stored.
StoreContext(r) ==
  /\ pc[r] = "loading"
  /\ Goto(r, "loaded")
  /\ ctx' = [ctx EXCEPT ![r] = r]
  /\ cacheCtx' = r /\ cacheLeft' = CacheTTL
  /\ UNCHANGED <<checks, outcome, waited, active, lockVars, markVars, histVars>>

\* A bind or rebind of the device drops the cache entry.
Invalidate(r) ==
  /\ pc[r] = "loaded"
  /\ cacheCtx' = None /\ cacheLeft' = 0
  /\ UNCHANGED <<reqVars, active, lockVars, markVars, histVars>>

\* The row cannot be read, or a check of the token's state, scope, tables,
\* device or rate refuses the request.
Refuse(r) ==
  /\ pc[r] \in {"loading", "loaded"}
  /\ EndsEarly(r, "refused")
  /\ UNCHANGED <<active, cacheVars, lockVars, markVars, histVars>>

-----------------------------------------------------------------------------
(* _acquire_concurrent *)

\* Faulty variants of the script's grant: the key is set without EX; the key
\* is set whoever holds it.
TakeLockForever(r) ==
  /\ lock \in {None, r}
  /\ lock' = r /\ lockLeft' = 0
  /\ conflict' = None /\ conflictLeft' = 0

StealLock(r) ==
  /\ lock' = r /\ lockLeft' = LockTTL
  /\ conflict' = None /\ conflictLeft' = 0

\* The script when the key is free or already holds this request's id.
TakeLock(r) ==
  /\ lock \in {None, r}
  /\ lock' = r /\ lockLeft' = LockTTL
  /\ conflict' = None /\ conflictLeft' = 0

Grant(r) ==
  /\ pc[r] = "loaded"
  /\ TakeLock(r)
  /\ Goto(r, "granted")
  /\ \E n \in NumChecks : checks' = [checks EXCEPT ![r] = n]
  /\ UNCHANGED <<outcome, waited, ctx, active, cacheVars, histVars>>

\* The script runs but its reply is lost: the client sends it again, or the
\* call raises outside the try block and nothing releases the lock.
GrantReplyLost(r) ==
  /\ pc[r] = "loaded"
  /\ TakeLock(r)
  /\ \/ UNCHANGED reqVars
     \/ EndsEarly(r, "error")
  /\ UNCHANGED <<active, cacheVars, histVars>>

\* Another request holds the key: it is accused, and this one refused.
Conflict(r) ==
  /\ pc[r] = "loaded"
  /\ lock \notin {None, r}
  /\ conflict' = lock /\ conflictLeft' = LockTTL
  /\ accused' = IF pc[lock] \in {"granted", "ready", "owned"}
                THEN accused \cup {lock} ELSE accused
  /\ EndsEarly(r, "refused")
  /\ UNCHANGED <<active, cacheVars, lockVars, overrun>>

\* The id is stored in the context object, which other requests may hold too.
SetActive(r) ==
  /\ pc[r] = "granted"
  /\ active' = [active EXCEPT ![ctx[r]] = r]
  /\ Goto(r, "ready")
  /\ UNCHANGED <<checks, outcome, waited, ctx, cacheVars, lockVars, markVars,
                 histVars>>

-----------------------------------------------------------------------------
(* ensure_request_not_conflicted, and the endpoint around it *)

MyId(r) == active[ctx[r]]

CheckOwner(r) ==
  /\ pc[r] = "ready"
  /\ \/ lock \notin {None, MyId(r)} /\ Leaves(r, "aborted")
     \/ /\ lock \in {None, MyId(r)}
        /\ Goto(r, "owned")
        /\ UNCHANGED <<checks, outcome, waited, ctx>>
  /\ UNCHANGED <<active, cacheVars, lockVars, markVars, histVars>>

\* Faulty variant: the mark is never looked at.
IgnoreConflict(r) ==
  /\ pc[r] = "owned"
  /\ \/ checks[r] = 1 /\ Leaves(r, "served")
     \/ /\ checks[r] > 1
        /\ Goto(r, "ready")
        /\ checks' = [checks EXCEPT ![r] = @ - 1]
        /\ UNCHANGED <<outcome, waited, ctx>>
  /\ UNCHANGED <<active, cacheVars, lockVars, markVars, histVars>>

\* The last check passed lets the endpoint return its payload.
CheckConflict(r) ==
  /\ pc[r] = "owned"
  /\ \/ /\ conflict = MyId(r)
        /\ Goto(r, "accused")
        /\ UNCHANGED <<checks, outcome, waited, ctx>>
     \/ /\ conflict # MyId(r) /\ checks[r] = 1
        /\ Leaves(r, "served")
     \/ /\ conflict # MyId(r) /\ checks[r] > 1
        /\ Goto(r, "ready")
        /\ checks' = [checks EXCEPT ![r] = @ - 1]
        /\ UNCHANGED <<outcome, waited, ctx>>
  /\ UNCHANGED <<active, cacheVars, lockVars, markVars, histVars>>

\* The mark is deleted whatever it says by now.
ClearConflict(r) ==
  /\ pc[r] = "accused"
  /\ conflict' = None /\ conflictLeft' = 0
  /\ Leaves(r, "aborted")
  /\ UNCHANGED <<active, cacheVars, lockVars, histVars>>

\* A redis call or the endpoint's own work raises.
Raise(r) ==
  /\ pc[r] \in Working
  /\ Leaves(r, "error")
  /\ UNCHANGED <<active, cacheVars, lockVars, markVars, histVars>>

-----------------------------------------------------------------------------
(* _release_concurrent *)

\* Faulty variant: the key is deleted whoever holds it.
DropAnyLock(r) == lock' = None /\ lockLeft' = 0

DropLock(r) ==
  IF lock = MyId(r) THEN lock' = None /\ lockLeft' = 0 ELSE UNCHANGED lockVars

\* An exception of the script is logged and swallowed.
Release(r) ==
  /\ pc[r] = "leaving"
  /\ DropLock(r) \/ UNCHANGED lockVars
  /\ Goto(r, "done")
  /\ UNCHANGED <<checks, outcome, waited, ctx, active, cacheVars, markVars,
                 histVars>>

-----------------------------------------------------------------------------
(* Time, and the death of the process *)

Less(n) == IF n > 0 THEN n - 1 ELSE 0

\* What happens before the grant takes at most MaxDelay; an endpoint, or the
\* release after it, may take any time.
Tick ==
  /\ \A r \in Requests : pc[r] \in Entering => waited[r] < MaxDelay
  /\ waited' = [r \in Requests |->
                  IF pc[r] \in Entering THEN waited[r] + 1 ELSE waited[r]]
  /\ cacheLeft' = Less(cacheLeft)
  /\ lockLeft' = Less(lockLeft)
  /\ lock' = IF lockLeft = 1 THEN None ELSE lock
  /\ overrun' = IF lockLeft = 1 /\ Active(lock) THEN overrun \cup {lock} ELSE overrun
  /\ conflictLeft' = Less(conflictLeft)
  /\ conflict' = IF conflictLeft = 1 THEN None ELSE conflict
  /\ UNCHANGED <<pc, checks, outcome, ctx, active, cacheCtx, accused>>

Crash ==
  /\ \E r \in Requests : pc[r] \notin {"idle", "done"}
  /\ pc' = [r \in Requests |-> IF pc[r] = "idle" THEN "idle" ELSE "done"]
  /\ outcome' = [r \in Requests |->
                   IF pc[r] \in {"idle", "leaving", "done"} THEN outcome[r]
                   ELSE "crashed"]
  /\ cacheCtx' = None /\ cacheLeft' = 0
  /\ UNCHANGED <<checks, waited, ctx, active, lockVars, markVars, histVars>>

Enter(r) == CacheHit(r) \/ CacheMiss(r) \/ StoreContext(r) \/ Refuse(r)
Acquire(r) == Grant(r) \/ Conflict(r)
Work(r) == SetActive(r) \/ CheckOwner(r) \/ CheckConflict(r) \/ ClearConflict(r)

Next ==
  \/ \E r \in Requests :
       \/ Enter(r) \/ Invalidate(r)
       \/ Acquire(r) \/ GrantReplyLost(r)
       \/ Work(r) \/ Raise(r) \/ Release(r)
  \/ Tick
  \/ Crash

Spec == Init /\ [][Next]_vars

-----------------------------------------------------------------------------
(* What the gate promises *)

\* Two requests of a token are active together only if the lock of one of them
\* ran out while it was at work (auth.py 614-626, 647-657): neither a lost
\* reply, a late release nor a crash ever admits a second one by itself.
Exclusive ==
  \A p, q \in Requests :
    Active(p) /\ Active(q) /\ p # q => p \in overrun \/ q \in overrun

\* A request at work finds its own id in the context object it shares with
\* others through the cache (auth.py 149, 676), so its checks and its release
\* speak of its own lock.  This rests on the lock outliving a cache entry.
ContextIsMine ==
  \A r \in Requests : pc[r] \in Working \cup {"leaving"} => MyId(r) = r

\* A holder that was caught with a second connection before its last check is
\* not served, as long as no lock ever ran out (auth.py 617, 642-645).
AccusedNotServed ==
  overrun = {} => \A r \in accused : outcome[r] # "served"
=============================================================================
