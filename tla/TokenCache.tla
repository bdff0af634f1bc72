----------------------------- MODULE TokenCache -----------------------------
(***************************************************************************)
(* The cache of token contexts in src/app/auth.py, for one token:          *)
(* load_token_context, run by the threads of the requests without a lock,  *)
(* and the answer the dependencies give from what it returns.              *)
(*                                                                         *)
(* The cache also remembers that a token has no row.  Its lookup takes     *)
(* several steps of the dictionary: the item is read, an expired one is    *)
(* removed, and then the token's presence is tested again.  A request is   *)
(* answered as soon as its context is loaded.  The row is changed by the   *)
(* administration outside this process.                                    *)
(***************************************************************************)
EXTENDS Integers

CONSTANTS
  Requests,
  InitialRows,  \* what the row may be at the start
  CacheTTL,     \* TOKEN_CACHE_TTL_SECONDS
  MaxLoad,      \* bound on the time from reading the row to storing it
  MaxTime       \* bound on the clock

ASSUME TimeAssumption ==
  CacheTTL \in Nat /\ MaxLoad \in Nat /\ MaxTime \in Nat
ASSUME RowsAssumption == InitialRows \subseteq {"absent", "active", "barred"}

VARIABLES
  now,
  row,      \* the token's row: absent, active, or in a state that is refused
  lastSeen, \* history: when the row last had each value
  entry,    \* the cached row, or "none" without an entry
  expiry,   \* of the entry
  pc,       \* where each request is in the lookup
  held,     \* the row it has read
  readAt,   \* when it read it
  answer,   \* what it was told
  age,      \* history: how long the row had not been what it was told
  alone     \* history: no lookup has begun beside another

reqVars == <<pc, held, readAt>>
vars == <<now, row, lastSeen, entry, expiry, reqVars, answer, age, alone>>

Rows == {"absent", "active", "barred"}
Never == -1

TypeOK ==
  /\ now \in Nat
  /\ row \in Rows
  /\ lastSeen \in [Rows -> Nat \cup {Never}]
  /\ entry \in Rows \cup {"none"} /\ expiry \in 0..(now + CacheTTL)
  /\ pc \in [Requests -> {"idle", "expired", "missed", "reading", "read", "done"}]
  /\ held \in [Requests -> Rows]
  /\ readAt \in [Requests -> Nat]
  /\ answer \in [Requests -> Rows \cup {"none", "error"}]
  /\ age \in [Requests -> Nat \cup {Never}]
  /\ alone \in BOOLEAN

Init ==
  /\ now = 0
  /\ row \in InitialRows
  /\ lastSeen = [v \in Rows |-> IF v = row THEN 0 ELSE Never]
  /\ entry = "none" /\ expiry = 0
  /\ pc = [r \in Requests |-> "idle"]
  /\ held = [r \in Requests |-> "absent"]
  /\ readAt = [r \in Requests |-> 0]
  /\ answer = [r \in Requests |-> "none"]
  /\ age = [r \in Requests |-> 0]
  /\ alone = TRUE

Goto(r, state) == pc' = [pc EXCEPT ![r] = state]

\* The request is told what the row is, or takes None for an absent row.
Tell(r, what) ==
  /\ Goto(r, "done")
  /\ answer' = [answer EXCEPT ![r] = what]
  /\ age' = [age EXCEPT ![r] = IF lastSeen[what] = Never THEN Never
                               ELSE now - lastSeen[what]]

InFlight(r) == pc[r] \notin {"idle", "done"}

-----------------------------------------------------------------------------
(* load_token_context *)

\* Faulty variant: that a token is unknown is remembered for ever.
LiveUnlessAbsent == entry = "absent" \/ now <= expiry

\* Faulty variant: an entry does not expire.
LiveForever == TRUE

Live == now <= expiry

\* The item is read.  A live context answers at once.
Look(r) ==
  /\ pc[r] = "idle"
  /\ alone' = (alone /\ ~\E q \in Requests : InFlight(q))
  /\ \/ /\ entry \in {"active", "barred"} /\ Live
        /\ Tell(r, entry)
     \/ /\ entry # "none" /\ ~Live
        /\ Goto(r, "expired")
        /\ UNCHANGED <<answer, age>>
     \/ /\ entry = "none" \/ (entry = "absent" /\ Live)
        /\ Goto(r, "missed")
        /\ UNCHANGED <<answer, age>>
  /\ UNCHANGED <<now, row, lastSeen, entry, expiry, held, readAt>>

\* The expired item is removed, or what another request has put there.
Evict(r) ==
  /\ pc[r] = "expired"
  /\ entry' = "none"
  /\ Goto(r, "missed")
  /\ UNCHANGED <<now, row, lastSeen, expiry, held, readAt, answer, age, alone>>

\* A token that is in the cache now, after a lookup that gave None, is taken
\* for one without a row.
TestPresence(r) ==
  /\ pc[r] = "missed"
  /\ \/ entry # "none" /\ Tell(r, "absent")
     \/ entry = "none" /\ Goto(r, "reading") /\ UNCHANGED <<answer, age>>
  /\ UNCHANGED <<now, row, lastSeen, entry, expiry, held, readAt, alone>>

ReadRow(r) ==
  /\ pc[r] = "reading"
  /\ Goto(r, "read")
  /\ held' = [held EXCEPT ![r] = row]
  /\ readAt' = [readAt EXCEPT ![r] = now]
  /\ UNCHANGED <<now, row, lastSeen, entry, expiry, answer, age, alone>>

ReadFails(r) ==
  /\ pc[r] = "reading"
  /\ Goto(r, "done")
  /\ answer' = [answer EXCEPT ![r] = "error"]
  /\ UNCHANGED <<now, row, lastSeen, entry, expiry, held, readAt, age, alone>>

\* The row is stored over whatever is there, and answers the request.
Store(r) ==
  /\ pc[r] = "read"
  /\ entry' = held[r] /\ expiry' = now + CacheTTL
  /\ Tell(r, held[r])
  /\ UNCHANGED <<now, row, lastSeen, held, readAt, alone>>

\* invalidate_token_cache, after a bind or rebind of the device.
Invalidate ==
  /\ entry # "none"
  /\ entry' = "none"
  /\ UNCHANGED <<now, row, lastSeen, expiry, reqVars, answer, age, alone>>

-----------------------------------------------------------------------------
(* The administration, and time *)

\* A row is added as an active one, and is later barred, restored or deleted.
RowChanges ==
  /\ row' \in (IF row = "absent" THEN {"active"} ELSE Rows \ {row})
  /\ lastSeen' = [lastSeen EXCEPT ![row'] = now]
  /\ UNCHANGED <<now, entry, expiry, reqVars, answer, age, alone>>

\* The steps between reading the item and testing its presence take no time.
Tick ==
  /\ now < MaxTime
  /\ \A r \in Requests : pc[r] \notin {"expired", "missed"}
  /\ \A r \in Requests : pc[r] = "read" => now - readAt[r] < MaxLoad
  /\ now' = now + 1
  /\ lastSeen' = [lastSeen EXCEPT ![row] = now + 1]
  /\ UNCHANGED <<row, entry, expiry, reqVars, answer, age, alone>>

Load(r) ==
  \/ Look(r) \/ Evict(r) \/ TestPresence(r)
  \/ ReadRow(r) \/ ReadFails(r) \/ Store(r)

Next ==
  \/ \E r \in Requests : Load(r)
  \/ Invalidate \/ RowChanges \/ Tick

Spec == Init /\ [][Next]_vars

-----------------------------------------------------------------------------
(* What the cache promises *)

\* However lookups, stores and invalidations interleave, a request is admitted
\* or refused for a state its row had at most one cache lifetime and one load
\* ago: a ban takes effect by then (auth.py 135-138, 225).
BoundedStaleness ==
  \A r \in Requests :
    answer[r] \in {"active", "barred"} => age[r] \in 0..(CacheTTL + MaxLoad)

\* A request is told that its token does not exist only if there was no row for
\* it that recently (auth.py 667-668).
MissingOnlyIfAbsent ==
  \A r \in Requests :
    answer[r] = "absent" => age[r] \in 0..(CacheTTL + MaxLoad)

\* As long as lookups run one at a time the code keeps that promise, through
\* the expiry and the eviction of what it has remembered (auth.py 131-150).
MissingWhenAlone == alone => MissingOnlyIfAbsent
=============================================================================
