---------------------------- MODULE DeviceBinding ----------------------------
(***************************************************************************)
(* Device binding of one data_api token (src/app/auth.py): the row of      *)
(* auth_token, the cached AuthContext objects, and the requests that       *)
(* compare, bind and rebind a device fingerprint in threads of the         *)
(* server's pool, before the one-request-at-a-time gate is reached.        *)
(*                                                                         *)
(* A context is named after the request that read it; requests that find   *)
(* it in the token cache share the object and its later mutations.         *)
(* Between line 543 and the UPDATE of a first bind nothing leaves the      *)
(* process, and a thread switch there has no effect of its own, so Inspect *)
(* covers them in one step.  A mismatch is recorded in the database before *)
(* the remaining rebinds are looked at.                                    *)
(***************************************************************************)
EXTENDS Integers, FiniteSets

CONSTANTS
  Requests,      \* requests of one token
  Devices,       \* fingerprint digests
  Modes,         \* values of fingerprint_binding_mode to consider
  Budget,        \* device_rebind_remaining of the unused token
  CommitMayLie,  \* whether a commit may succeed and still raise
  None

ASSUME NoneAssumption == None \notin Requests /\ None \notin Devices
ASSUME ModeAssumption ==
  Modes \subseteq {"disabled", "optional", "required", "bind_on_first_use"}
ASSUME NumberAssumption == Budget \in Nat
ASSUME CommitAssumption == CommitMayLie \in BOOLEAN

VARIABLES
  mode,       \* fingerprint_binding_mode of the token
  dbDevice,   \* auth_token.device_fingerprint_hash
  dbRemain,   \* auth_token.device_rebind_remaining
  cached,     \* the context in the token cache
  objDevice,  \* device_fingerprint_hash of each context object
  objRemain,  \* device_rebind_remaining of each context object
  pc,
  device,     \* X-Device-Fingerprint, or None
  consents,   \* allow_rebind
  ctx,        \* the context a request works with
  before,     \* its remaining_before
  ever,       \* history: devices the row has held
  rebinds,    \* history: rebind UPDATEs committed
  calm        \* history: no request has entered beside another, no commit lied

rowVars == <<dbDevice, dbRemain, ever, rebinds>>
objVars == <<objDevice, objRemain>>
argVars == <<mode, device, consents>>
vars == <<argVars, rowVars, cached, objVars, pc, ctx, before, calm>>

Ended    == {"refused", "turnedAway", "served"}
PcStates == {"idle", "reading", "read", "loaded", "mismatched", "rebinding", "bindUpdate",
             "rebindUpdate", "bound", "rebound", "debiting", "adopted", "admitted"}
            \cup Ended

TypeOK ==
  /\ mode \in Modes
  /\ dbDevice \in Devices \cup {None}
  /\ dbRemain \in 0..Budget
  /\ cached \in Requests \cup {None}
  /\ objDevice \in [Requests -> Devices \cup {None}]
  /\ objRemain \in [Requests -> 0..Budget]
  /\ pc \in [Requests -> PcStates]
  /\ device \in [Requests -> Devices \cup {None}]
  /\ consents \in [Requests -> BOOLEAN]
  /\ ctx \in [Requests -> Requests \cup {None}]
  /\ before \in [Requests -> 0..Budget]
  /\ ever \in SUBSET Devices
  /\ rebinds \in Nat
  /\ calm \in BOOLEAN

\* The token may have been bound in an earlier life of the process.
Init ==
  /\ mode \in Modes
  /\ dbDevice \in Devices \cup {None} /\ dbRemain = Budget
  /\ cached = None
  /\ objDevice = [c \in Requests |-> None]
  /\ objRemain = [c \in Requests |-> 0]
  /\ pc = [r \in Requests |-> "idle"]
  /\ device = [r \in Requests |-> None]
  /\ consents = [r \in Requests |-> FALSE]
  /\ ctx = [r \in Requests |-> None]
  /\ before = [r \in Requests |-> 0]
  /\ ever = {dbDevice} \ {None} /\ rebinds = 0 /\ calm = TRUE

Goto(r, state) == pc' = [pc EXCEPT ![r] = state]
Busy == {r \in Requests : pc[r] \notin {"idle"} \cup Ended}

Less(n) == IF n > 0 THEN n - 1 ELSE 0

-----------------------------------------------------------------------------
(* load_token_context *)

\* The request enters the dependency and looks into the cache.
Load(r) ==
  /\ pc[r] = "idle"
  /\ calm' = (calm /\ Busy = {})
  /\ \E d \in Devices \cup {None}, b \in BOOLEAN :
       /\ device' = [device EXCEPT ![r] = d]
       /\ consents' = [consents EXCEPT ![r] = b]
  /\ \/ cached # None /\ Goto(r, "loaded") /\ ctx' = [ctx EXCEPT ![r] = cached]
     \/ cached = None /\ Goto(r, "reading") /\ UNCHANGED ctx
  /\ UNCHANGED <<mode, rowVars, cached, objVars, before>>

ReadRow(r) ==
  /\ pc[r] = "reading"
  /\ objDevice' = [objDevice EXCEPT ![r] = dbDevice]
  /\ objRemain' = [objRemain EXCEPT ![r] = dbRemain]
  /\ ctx' = [ctx EXCEPT ![r] = r]
  /\ Goto(r, "read")
  /\ UNCHANGED <<argVars, rowVars, cached, before, calm>>

\* The context is cached, even if the row has changed since it was read.
StoreContext(r) ==
  /\ pc[r] = "read"
  /\ cached' = r
  /\ Goto(r, "loaded")
  /\ UNCHANGED <<argVars, rowVars, objVars, ctx, before, calm>>

\* TOKEN_CACHE_TTL_SECONDS have passed.
CacheExpires ==
  /\ cached # None
  /\ cached' = None
  /\ UNCHANGED <<argVars, rowVars, objVars, pc, ctx, before, calm>>

\* The state of the token, its scope or its tables do not allow the request.
Barred(r) ==
  /\ pc[r] = "loaded"
  /\ Goto(r, "refused")
  /\ UNCHANGED <<argVars, rowVars, cached, objVars, ctx, before, calm>>

-----------------------------------------------------------------------------
(* _enforce_fingerprint *)

Binding == mode \in {"required", "bind_on_first_use"}
Mine(r) == objDevice[ctx[r]] = device[r]

\* Faulty variant: any device of the token's owner will do.
InspectLax(r) ==
  /\ pc[r] = "loaded"
  /\ Goto(r, "admitted")
  /\ UNCHANGED <<argVars, rowVars, cached, objVars, ctx, before, calm>>

Inspect(r) ==
  /\ pc[r] = "loaded"
  /\ \/ mode = "disabled" /\ Goto(r, "admitted")
     \/ /\ mode # "disabled" /\ device[r] = None
        /\ Goto(r, IF Binding THEN "refused" ELSE "admitted")
     \/ /\ mode # "disabled" /\ device[r] # None
        /\ \/ Mine(r) /\ Goto(r, "admitted")
           \/ /\ objDevice[ctx[r]] = None
              /\ Goto(r, IF Binding THEN "bindUpdate" ELSE "admitted")
           \/ /\ objDevice[ctx[r]] \notin {None, device[r]}
              /\ Goto(r, "mismatched")
  /\ UNCHANGED <<argVars, rowVars, cached, objVars, ctx, before, calm>>

\* Faulty variant: allow_rebind is not looked at.
ConsiderRebindEagerly(r) ==
  /\ pc[r] = "mismatched"
  /\ Goto(r, IF objRemain[ctx[r]] > 0 THEN "rebinding" ELSE "refused")
  /\ UNCHANGED <<argVars, rowVars, cached, objVars, ctx, before, calm>>

\* The mismatch has been recorded; the context may have changed meanwhile.
ConsiderRebind(r) ==
  /\ pc[r] = "mismatched"
  /\ Goto(r, IF consents[r] /\ objRemain[ctx[r]] > 0 THEN "rebinding" ELSE "refused")
  /\ UNCHANGED <<argVars, rowVars, cached, objVars, ctx, before, calm>>

\* The checks of rebind_fingerprint.
CheckRebind(r) ==
  /\ pc[r] = "rebinding"
  /\ \/ Mine(r) /\ Goto(r, "admitted") /\ UNCHANGED before
     \/ /\ ~Mine(r) /\ objRemain[ctx[r]] = 0
        /\ Goto(r, "refused") /\ UNCHANGED before
     \/ /\ ~Mine(r) /\ objRemain[ctx[r]] > 0
        /\ before' = [before EXCEPT ![r] = objRemain[ctx[r]]]
        /\ Goto(r, "rebindUpdate")
  /\ UNCHANGED <<argVars, rowVars, cached, objVars, ctx, calm>>

SetRow(r) ==
  /\ dbDevice' = device[r]
  /\ ever' = ever \cup {device[r]}

BindRow(r) == SetRow(r) /\ UNCHANGED <<dbRemain, rebinds>>

\* Faulty variant: the new count is computed by the client.
RebindRowFromContext(r) ==
  /\ SetRow(r)
  /\ dbRemain' = Less(before[r])
  /\ rebinds' = rebinds + 1

\* The count is decremented in SQL, from what the row holds.
RebindRow(r) ==
  /\ SetRow(r)
  /\ dbRemain' = Less(dbRemain)
  /\ rebinds' = rebinds + 1

UpdateBind(r) ==
  /\ pc[r] = "bindUpdate"
  /\ BindRow(r)
  /\ Goto(r, "bound")
  /\ UNCHANGED <<argVars, cached, objVars, ctx, before, calm>>

UpdateRebind(r) ==
  /\ pc[r] = "rebindUpdate"
  /\ RebindRow(r)
  /\ Goto(r, "rebound")
  /\ UNCHANGED <<argVars, cached, objVars, ctx, before, calm>>

\* Faulty variant: the context is debited although the UPDATE has failed.
UpdateFailsDebited(r) ==
  /\ pc[r] = "rebindUpdate"
  /\ objRemain' = [objRemain EXCEPT ![ctx[r]] = Less(before[r])]
  /\ Goto(r, "refused")
  /\ UNCHANGED <<argVars, rowVars, cached, objDevice, ctx, before, calm>>

\* Faulty variant: the UPDATE is not rolled back.
UpdateFailsKept(r) ==
  /\ \/ pc[r] = "bindUpdate" /\ BindRow(r)
     \/ pc[r] = "rebindUpdate" /\ RebindRow(r)
  /\ Goto(r, "refused")
  /\ UNCHANGED <<argVars, cached, objVars, ctx, before, calm>>

\* The UPDATE raises: rolled back, or committed with the reply lost.  The
\* context and the cache stay as they are.
UpdateFails(r) ==
  /\ \/ /\ pc[r] \in {"bindUpdate", "rebindUpdate"}
        /\ UNCHANGED <<rowVars, calm>>
     \/ /\ CommitMayLie /\ calm' = FALSE
        /\ \/ pc[r] = "bindUpdate" /\ BindRow(r)
           \/ pc[r] = "rebindUpdate" /\ RebindRow(r)
  /\ Goto(r, "refused")
  /\ UNCHANGED <<argVars, cached, objVars, ctx, before>>

\* The context follows the row: first its device, then its remaining rebinds.
AdoptDevice(r) ==
  /\ pc[r] \in {"bound", "rebound"}
  /\ objDevice' = [objDevice EXCEPT ![ctx[r]] = device[r]]
  /\ Goto(r, IF pc[r] = "bound" THEN "adopted" ELSE "debiting")
  /\ UNCHANGED <<argVars, rowVars, cached, objRemain, ctx, before, calm>>

AdoptRemaining(r) ==
  /\ pc[r] = "debiting"
  /\ objRemain' = [objRemain EXCEPT ![ctx[r]] = Less(before[r])]
  /\ Goto(r, "adopted")
  /\ UNCHANGED <<argVars, rowVars, cached, objDevice, ctx, before, calm>>

\* invalidate_token_cache; the events recorded after it may still raise.
Invalidate(r) ==
  /\ pc[r] = "adopted"
  /\ cached' = None
  /\ \/ Goto(r, "admitted")
     \/ Goto(r, "refused")
  /\ UNCHANGED <<argVars, rowVars, objVars, ctx, before, calm>>

\* The row or the mismatch event cannot be read or written.
DatabaseFails(r) ==
  /\ pc[r] \in {"reading", "mismatched"}
  /\ Goto(r, "refused")
  /\ UNCHANGED <<argVars, rowVars, cached, objVars, ctx, before, calm>>

\* What follows: the rate limits, the gate and the endpoint.
Finish(r) ==
  /\ pc[r] = "admitted"
  /\ \/ Goto(r, "served")
     \/ Goto(r, "turnedAway")
  /\ UNCHANGED <<argVars, rowVars, cached, objVars, ctx, before, calm>>

Terminated == (\A r \in Requests : pc[r] \in Ended) /\ UNCHANGED vars

Next ==
  \/ \E r \in Requests :
       \/ Load(r) \/ ReadRow(r) \/ StoreContext(r)
       \/ Barred(r) \/ Inspect(r) \/ ConsiderRebind(r) \/ CheckRebind(r)
       \/ UpdateBind(r) \/ UpdateRebind(r) \/ UpdateFails(r)
       \/ AdoptDevice(r) \/ AdoptRemaining(r) \/ Invalidate(r)
       \/ DatabaseFails(r) \/ Finish(r)
  \/ CacheExpires
  \/ Terminated

Spec == Init /\ [][Next]_vars

-----------------------------------------------------------------------------
(* Promises kept however many requests run at once *)

\* The row's count of rebinds left is what the rebinds committed so far leave
\* of the budget, although concurrent rebinds act on stale contexts: no
\* decrement is lost (auth.py 325).
RemainingExact == dbRemain = IF rebinds < Budget THEN Budget - rebinds ELSE 0

\* A context errs only in the client's favour: a device is turned down because
\* the rebinds are used up only when the row says so too, whatever UPDATE has
\* failed and whoever else has rebound (auth.py 317-332, 564).
ExhaustedOnlyWhenSpent ==
  \A r \in Requests :
    pc[r] \in {"loaded", "mismatched", "rebinding"} => objRemain[ctx[r]] >= dbRemain

\* A token that insists on a device lets no request in whose device it has
\* never been bound to (auth.py 538-574).
AdmittedWasBound ==
  Binding => \A r \in Requests :
    pc[r] \in {"admitted", "turnedAway", "served"} => device[r] \in ever

-----------------------------------------------------------------------------
(* Promises of the documentation *)

\* A token changes its device by rebinding no more often than its budget
\* allows (auth.py 562, sdk/README.md 234).
BudgetRespected == rebinds <= Budget

\* The code keeps that promise as long as requests enter the dependency one at
\* a time and a commit that raises has not happened: the stale context in the
\* cache never grants a second rebind (auth.py 302-333).
BudgetWhenCalm == calm => BudgetRespected

\* A bound device is replaced only for a request that asks for it, by a rebind
\* (sdk/README.md 233, 235), as long as requests enter the dependency one at a
\* time (auth.py 292, 317-330, 561-574); two first requests at once may replace
\* one another's device.
NoTakeoverWhenCalm ==
  [][calm /\ dbDevice \notin {None, dbDevice'} =>
       \E r \in Requests :
         pc[r] = "rebindUpdate" /\ consents[r] /\ device[r] = dbDevice']_vars
=============================================================================
