----------------------------- MODULE RateLimit -----------------------------
(***************************************************************************)
(* The quota of a data_api token for one path: the counters src/app/auth.py*)
(* keeps in redis for the running minute, hour and day, the check that     *)
(* charges them (_enforce_rate_limits), and the report of what is left     *)
(* (build_usage_snapshot, and /api/token/usage in src/app/main.py).        *)
(*                                                                         *)
(* A request computes its three keys once and then charges the counters    *)
(* one by one; INCR, EXPIRE and GET are separate redis calls, so requests  *)
(* interleave between them, and any call may raise.  Time is counted in    *)
(* ticks since the start of a window of every length; the counters of the  *)
(* i-th window of length w are keyed <<w, i>>.                             *)
(***************************************************************************)
EXTENDS Integers, FiniteSets

CONSTANTS
  Requests,
  NumWindows,  \* minute, hour, day: checked in this order
  Length,      \* length of the windows, in ticks
  KeyTTL,      \* TTL given to the counters of each window
  Profiles,    \* the possible tokens: [admin, limit]
  MaxDelay,    \* bound on the time from computing the keys to the last INCR
  MaxTime      \* bound on the clock

Windows == 1..NumWindows
Keys == Windows \X (0..MaxTime)

ASSUME WindowsAssumption ==
  /\ NumWindows \in Nat \ {0} /\ MaxDelay \in Nat /\ MaxTime \in Nat
  /\ Length \in [Windows -> Nat \ {0}]
  /\ KeyTTL \in [Windows -> Nat]
  /\ \A w \in Windows : KeyTTL[w] >= Length[w] + MaxDelay
ASSUME RequestsAssumption == IsFiniteSet(Requests)
ASSUME ProfilesAssumption ==
  Profiles \subseteq [admin : BOOLEAN, limit : [Windows -> Int]]

VARIABLES
  now,
  profile,  \* the token's role and limits
  pc,       \* where each request is
  window,   \* the window it is charging
  at,       \* when it computed its keys
  outcome,  \* how it ended
  counter,  \* the counters; 0 where redis has no key
  left,     \* ticks to the expiry of a key; 0 where it has none
  resent,   \* <<r, w>>: the client sent the INCR of r for window w twice
  seen      \* the last report of what was left of a window

reqVars   == <<pc, window, at, outcome>>
redisVars == <<counter, left>>
vars == <<now, profile, reqVars, redisVars, resent, seen>>

PcStates == {"idle", "incr", "expire", "done"}
Outcomes == {"none", "admitted", "refused", "unconfigured", "error"}
Unread   == [key |-> <<1, 0>>, remaining |-> -1]

TypeOK ==
  /\ now \in 0..MaxTime
  /\ profile \in Profiles
  /\ pc \in [Requests -> PcStates]
  /\ window \in [Requests -> Windows]
  /\ at \in [Requests -> 0..MaxTime]
  /\ outcome \in [Requests -> Outcomes]
  /\ counter \in [Keys -> Nat]
  /\ left \in [Keys -> Nat]
  /\ resent \in SUBSET (Requests \X Windows)
  /\ seen \in [key : Keys, remaining : Int]

Init ==
  /\ now = 0
  /\ profile \in Profiles
  /\ pc = [r \in Requests |-> "idle"]
  /\ window = [r \in Requests |-> 1]
  /\ at = [r \in Requests |-> 0]
  /\ outcome = [r \in Requests |-> "none"]
  /\ counter = [k \in Keys |-> 0]
  /\ left = [k \in Keys |-> 0]
  /\ resent = {}
  /\ seen = Unread

-----------------------------------------------------------------------------
(* Limits and keys *)

\* A limit of 0 counts as -1, no limit; only admins may go without.
Limit(w) == IF profile.limit[w] = 0 THEN -1 ELSE profile.limit[w]
Unconfigured == ~profile.admin /\ \E w \in Windows : Limit(w) <= 0

\* Faulty variant: the last call of the quota is refused.
OverEarly(count, w) == Limit(w) > 0 /\ count >= Limit(w)

Over(count, w) == Limit(w) > 0 /\ count > Limit(w)

Key(w, time) == <<w, time \div Length[w]>>
MyKey(r) == Key(window[r], at[r])

InFlight(r) == pc[r] \in {"incr", "expire"}

-----------------------------------------------------------------------------
(* _enforce_rate_limits *)

Ends(r, how) ==
  /\ pc' = [pc EXCEPT ![r] = "done"]
  /\ outcome' = [outcome EXCEPT ![r] = how]
  /\ UNCHANGED <<window, at>>

Begin(r) ==
  /\ pc[r] = "idle"
  /\ \/ Unconfigured /\ Ends(r, "unconfigured")
     \/ /\ ~Unconfigured
        /\ pc' = [pc EXCEPT ![r] = "incr"]
        /\ at' = [at EXCEPT ![r] = now]
        /\ UNCHANGED <<window, outcome>>
  /\ UNCHANGED <<now, profile, redisVars, resent, seen>>

\* Faulty variant: the day is charged, and then one window more.
PassBeyond(r) ==
  /\ window' = [window EXCEPT ![r] = @ + 1]
  /\ pc' = [pc EXCEPT ![r] = "incr"]
  /\ UNCHANGED <<at, outcome>>

\* On to the next window, or into the endpoint.
Pass(r) ==
  \/ window[r] = NumWindows /\ Ends(r, "admitted")
  \/ /\ window[r] < NumWindows
     /\ window' = [window EXCEPT ![r] = @ + 1]
     /\ pc' = [pc EXCEPT ![r] = "incr"]
     /\ UNCHANGED <<at, outcome>>

\* INCR, and the comparison of its result; the first count sets the expiry.
Increment(r) ==
  LET count == counter[MyKey(r)] + 1 IN
  /\ pc[r] = "incr"
  /\ counter' = [counter EXCEPT ![MyKey(r)] = count]
  /\ \/ /\ count = 1
        /\ pc' = [pc EXCEPT ![r] = "expire"]
        /\ UNCHANGED <<window, at, outcome>>
     \/ count > 1 /\ Over(count, window[r]) /\ Ends(r, "refused")
     \/ count > 1 /\ ~Over(count, window[r]) /\ Pass(r)
  /\ UNCHANGED <<now, profile, left, resent, seen>>

\* INCR runs but its reply is lost: the client sends each command once more at
\* most, and then raises.
IncrementReplyLost(r) ==
  /\ pc[r] = "incr"
  /\ counter' = [counter EXCEPT ![MyKey(r)] = @ + 1]
  /\ \/ /\ <<r, window[r]>> \notin resent
        /\ resent' = resent \cup {<<r, window[r]>>}
        /\ UNCHANGED reqVars
     \/ Ends(r, "error") /\ UNCHANGED resent
  /\ UNCHANGED <<now, profile, left, seen>>

\* Faulty variants: a counter lives no longer than its window; it never dies.
SetExpiryTight(r) ==
  /\ pc[r] = "expire"
  /\ left' = [left EXCEPT ![MyKey(r)] = Length[window[r]]]
  /\ Pass(r)
  /\ UNCHANGED <<now, profile, counter, resent, seen>>

SetExpirySkipped(r) ==
  /\ pc[r] = "expire"
  /\ Pass(r)
  /\ UNCHANGED <<now, profile, redisVars, resent, seen>>

\* EXPIRE; a count of one is within every limit.
SetExpiry(r) ==
  /\ pc[r] = "expire"
  /\ left' = [left EXCEPT ![MyKey(r)] = KeyTTL[window[r]]]
  /\ Pass(r)
  /\ UNCHANGED <<now, profile, counter, resent, seen>>

\* A redis call raises without effect, or the process dies.
Fail(r) ==
  /\ InFlight(r)
  /\ Ends(r, "error")
  /\ UNCHANGED <<now, profile, redisVars, resent, seen>>

-----------------------------------------------------------------------------
(* /api/token/usage *)

\* Faulty variant: the call that reads the report is taken for charged.
RemainingLessOne(w, used) ==
  IF used + 1 < profile.limit[w] THEN profile.limit[w] - used - 1 ELSE 0

\* _window_usage_payload: what is left of a limit, never below 0.
Remaining(w, used) ==
  IF used < profile.limit[w] THEN profile.limit[w] - used ELSE 0

ReadUsage(w) ==
  LET k == Key(w, now) IN
  /\ profile.limit[w] >= 0
  /\ seen' = [key |-> k, remaining |-> Remaining(w, counter[k])]
  /\ UNCHANGED <<now, profile, reqVars, redisVars, resent>>

-----------------------------------------------------------------------------
Tick ==
  /\ now < MaxTime
  /\ \A r \in Requests : InFlight(r) => now - at[r] < MaxDelay
  /\ now' = now + 1
  /\ counter' = [k \in Keys |-> IF left[k] = 1 THEN 0 ELSE counter[k]]
  /\ left' = [k \in Keys |-> IF left[k] > 0 THEN left[k] - 1 ELSE 0]
  /\ UNCHANGED <<profile, reqVars, resent, seen>>

Charge(r) == Increment(r) \/ IncrementReplyLost(r) \/ SetExpiry(r)

Next ==
  \/ \E r \in Requests : Begin(r) \/ Charge(r) \/ Fail(r)
  \/ \E w \in Windows : ReadUsage(w)
  \/ Tick

Spec == Init /\ [][Next]_vars

-----------------------------------------------------------------------------
(* What the quota promises *)

\* Requests that have incremented the counter of a key, those that failed at it
\* before or after, those that incremented it twice, and those it accepts.
Charged(k) ==
  {r \in Requests : /\ pc[r] # "idle" /\ outcome[r] # "unconfigured"
                    /\ Key(k[1], at[r]) = k
                    /\ \/ window[r] > k[1]
                       \/ /\ window[r] = k[1]
                          /\ pc[r] = "expire" \/ outcome[r] \in {"admitted", "refused"}}
Failed(k) == {r \in Requests : outcome[r] = "error" /\ MyKey(r) = k}
Repeated(k) == {r \in Requests : <<r, k[1]>> \in resent /\ Key(k[1], at[r]) = k}
Accepted(k) ==
  {r \in Charged(k) : window[r] > k[1] \/ outcome[r] # "refused"}

\* No window accepts more requests than its limit, however they interleave,
\* fail or are sent twice (auth.py 587-602): the counter outlives every
\* request that computed its key in time.
WithinLimit ==
  \A k \in Keys : Limit(k[1]) > 0 => Cardinality(Accepted(k)) <= Limit(k[1])

\* A request is refused only if the others that used the window or failed at
\* it, and the INCRs sent twice, its own included, make up the limit
\* (auth.py 590-593).
RefusedOnlyWhenSpent ==
  \A r \in Requests :
    outcome[r] = "refused" =>
      Cardinality((Charged(MyKey(r)) \cup Failed(MyKey(r))) \ {r})
        + Cardinality(Repeated(MyKey(r))) >= Limit(window[r])

\* A window reported to have nothing left accepts no further request
\* (main.py 216-224 against auth.py 593).
SpentIsSpent ==
  [][\A k \in Keys :
       seen = [key |-> k, remaining |-> 0] /\ Limit(k[1]) > 0 =>
         Accepted(k)' \subseteq Accepted(k)]_vars

\* A counter is left without an expiry only by a request that is about to set
\* it, failed at that key, or had its first INCR sent twice (auth.py 591).
NoOrphanCounter ==
  \A k \in Keys :
    counter[k] > 0 /\ left[k] = 0 =>
      \E r \in Requests :
        \/ MyKey(r) = k /\ (pc[r] = "expire" \/ outcome[r] = "error")
        \/ r \in Repeated(k)
=============================================================================
