----------------------------- MODULE QueryQueue -----------------------------
(***************************************************************************)
(* The single-flight refresh queue of src/app/query_queue.py, with the     *)
(* worker tasks, the to_thread jobs they start and the warm-up loop.       *)
(*                                                                         *)
(* The event loop runs one coroutine at a time and nothing suspends inside *)
(* the `async with self._lock` bodies (the queue.put follows a full() test *)
(* made under the same lock), so each such body is one step.  What does    *)
(* interleave: the arrival of requests, their timers, the resumption of    *)
(* the coroutines whose future is done, the workers, and the threads that  *)
(* read the database and store the snapshot.  A thread may store between   *)
(* the cache lookup and the lock body of one get_snapshot; since the lock  *)
(* body does not read the caches, that order equals the one in which the   *)
(* whole call comes first, so the call is one step.                        *)
(*                                                                         *)
(* A request makes one call of get_snapshot.  A pending refresh is named   *)
(* after the request that created it, so `pending[t] = r` stands for       *)
(* self._pending[t] holding the future that r created.                     *)
(***************************************************************************)
EXTENDS Integers, Sequences, FiniteSets

CONSTANTS
  Requests,      \* calls of get_snapshot, each made once
  Tables,        \* keys of TABLES
  Tokens,        \* token ids
  Workers,       \* the query_workers worker tasks
  MaxQueueOf,    \* quota_max_queue of each token; 0 and negatives occur
  QueueMaxSize,  \* query_queue_max_size
  TableSeq,      \* list(TABLES.keys()), the order of the warm loop
  None

ASSUME FiniteAssumption ==
  IsFiniteSet(Requests) /\ IsFiniteSet(Tables) /\ IsFiniteSet(Workers)
ASSUME NoneAssumption == None \notin Requests /\ None \notin Tables
ASSUME QuotaAssumption == MaxQueueOf \in [Tokens -> Int]
ASSUME QueueSizeAssumption == QueueMaxSize \in Nat \ {0}
ASSUME TableSeqAssumption == TableSeq \in Seq(Tables)

VARIABLES
  fresh,        \* tables a cache lookup would find (memory or redis)
  pc,           \* where each request is in get_snapshot
  table,        \* its table_name argument
  token,        \* its token_id argument
  waitsOn,      \* the future it awaits, by creator
  outcome,      \* how its call ended
  future,       \* state of the future each request may have created
  pending,      \* self._pending
  queue,        \* self._queue
  tokenWaiters, \* self._token_waiters; an absent key is 0
  job,          \* table each worker refreshes
  thread,       \* progress of that worker's to_thread call
  zombies,      \* refresh threads nobody awaits any more, by table
  warm,         \* position of the warm loop in TableSeq, 0 while it sleeps
  stopped       \* self._stopped

vars == <<fresh, pc, table, token, waitsOn, outcome, future, pending, queue,
          tokenWaiters, job, thread, zombies, warm, stopped>>

callVars    == <<table, token>>
workVars    == <<job, thread>>
backVars    == <<zombies, warm, stopped>>

PcStates      == {"idle", "waiting", "expired", "done"}
FutureStates  == {"none", "open", "result", "error", "cancelled"}
ThreadStates  == {"idle", "running", "ok", "failed"}
Outcomes      == {"none", "cached", "refreshed", "failed", "timeout",
                  "cancelled", "tokenFull", "queueFull"}

TypeOK ==
  /\ fresh \in SUBSET Tables
  /\ pc \in [Requests -> PcStates]
  /\ table \in [Requests -> Tables \cup {None}]
  /\ token \in [Requests -> Tokens \cup {None}]
  /\ waitsOn \in [Requests -> Requests \cup {None}]
  /\ outcome \in [Requests -> Outcomes]
  /\ future \in [Requests -> FutureStates]
  /\ pending \in [Tables -> Requests \cup {None}]
  /\ queue \in Seq(Tables)
  /\ tokenWaiters \in [Tokens -> Nat]
  /\ job \in [Workers -> Tables \cup {None}]
  /\ thread \in [Workers -> ThreadStates]
  /\ zombies \in [Tables -> Nat]
  /\ warm \in 0..Len(TableSeq)
  /\ stopped \in BOOLEAN

Init ==
  /\ fresh = {}
  /\ pc = [r \in Requests |-> "idle"]
  /\ table = [r \in Requests |-> None]
  /\ token = [r \in Requests |-> None]
  /\ waitsOn = [r \in Requests |-> None]
  /\ outcome = [r \in Requests |-> "none"]
  /\ future = [r \in Requests |-> "none"]
  /\ pending = [t \in Tables |-> None]
  /\ queue = <<>>
  /\ tokenWaiters = [k \in Tokens |-> 0]
  /\ job = [w \in Workers |-> None]
  /\ thread = [w \in Workers |-> "idle"]
  /\ zombies = [t \in Tables |-> 0]
  /\ warm = 0
  /\ stopped = FALSE

-----------------------------------------------------------------------------
(* get_snapshot: the part before the wait *)

SafeMaxQueue(k) == IF MaxQueueOf[k] >= 1 THEN MaxQueueOf[k] ELSE 1

Arrive(r, t, k) ==
  /\ ~stopped
  /\ pc[r] = "idle"
  /\ table' = [table EXCEPT ![r] = t]
  /\ token' = [token EXCEPT ![r] = k]

Answer(r, how) ==
  /\ pc' = [pc EXCEPT ![r] = "done"]
  /\ outcome' = [outcome EXCEPT ![r] = how]

\* get_cached_snapshot answers, or raises because the redis GET fails.
CacheLookupEnds(r, t, k) ==
  /\ Arrive(r, t, k)
  /\ \/ t \in fresh /\ Answer(r, "cached")
     \/ Answer(r, "failed")
  /\ UNCHANGED <<fresh, waitsOn, future, pending, queue, tokenWaiters,
                 workVars, backVars>>

RejectToken(r, t, k) ==
  /\ Arrive(r, t, k)
  /\ t \notin fresh
  /\ tokenWaiters[k] >= SafeMaxQueue(k)
  /\ Answer(r, "tokenFull")
  /\ UNCHANGED <<fresh, waitsOn, future, pending, queue, tokenWaiters,
                 workVars, backVars>>

CountWaiter(k)   == [tokenWaiters EXCEPT ![k] = @ + 1]

UncountWaiter(counts, k) == [counts EXCEPT ![k] = IF @ > 0 THEN @ - 1 ELSE 0]

QueueFull == Len(queue) >= QueueMaxSize

\* Faulty variant: the refused waiter stays counted.
RejectQueueFullLeaky(r, t, k) ==
  /\ Arrive(r, t, k)
  /\ t \notin fresh
  /\ tokenWaiters[k] < SafeMaxQueue(k)
  /\ pending[t] = None
  /\ QueueFull
  /\ tokenWaiters' = CountWaiter(k)
  /\ Answer(r, "queueFull")
  /\ UNCHANGED <<fresh, waitsOn, future, pending, queue, workVars, backVars>>

\* The waiter is counted before the global queue is tested, and uncounted
\* again on this path.
RejectQueueFull(r, t, k) ==
  /\ Arrive(r, t, k)
  /\ t \notin fresh
  /\ tokenWaiters[k] < SafeMaxQueue(k)
  /\ pending[t] = None
  /\ QueueFull
  /\ tokenWaiters' = UncountWaiter(CountWaiter(k), k)
  /\ Answer(r, "queueFull")
  /\ UNCHANGED <<fresh, waitsOn, future, pending, queue, workVars, backVars>>

Wait(r, k, f) ==
  /\ tokenWaiters' = CountWaiter(k)
  /\ waitsOn' = [waitsOn EXCEPT ![r] = f]
  /\ pc' = [pc EXCEPT ![r] = "waiting"]
  /\ UNCHANGED <<fresh, outcome, workVars, backVars>>

\* Faulty variant: the entry of a refresh under way is overwritten.
EnqueueTwice(r, t, k) ==
  /\ Arrive(r, t, k)
  /\ t \notin fresh
  /\ tokenWaiters[k] < SafeMaxQueue(k)
  /\ ~QueueFull
  /\ future' = [future EXCEPT ![r] = "open"]
  /\ pending' = [pending EXCEPT ![t] = r]
  /\ queue' = Append(queue, t)
  /\ Wait(r, k, r)

Enqueue(r, t, k) ==
  /\ Arrive(r, t, k)
  /\ t \notin fresh
  /\ tokenWaiters[k] < SafeMaxQueue(k)
  /\ pending[t] = None
  /\ ~QueueFull
  /\ future' = [future EXCEPT ![r] = "open"]
  /\ pending' = [pending EXCEPT ![t] = r]
  /\ queue' = Append(queue, t)
  /\ Wait(r, k, r)

\* Faulty variant: joining a refresh queues the table once more.
JoinRequeues(r, t, k) ==
  /\ Arrive(r, t, k)
  /\ t \notin fresh
  /\ tokenWaiters[k] < SafeMaxQueue(k)
  /\ pending[t] # None
  /\ ~QueueFull
  /\ queue' = Append(queue, t)
  /\ Wait(r, k, pending[t])
  /\ UNCHANGED <<future, pending>>

\* The future joined may already be cancelled by a peer's timer: the caller
\* is then resumed with that cancellation.
Join(r, t, k) ==
  /\ Arrive(r, t, k)
  /\ t \notin fresh
  /\ tokenWaiters[k] < SafeMaxQueue(k)
  /\ pending[t] # None
  /\ Wait(r, k, pending[t])
  /\ UNCHANGED <<future, pending, queue>>

GetSnapshot(r, t, k) ==
  \/ CacheLookupEnds(r, t, k)
  \/ RejectToken(r, t, k)
  \/ RejectQueueFull(r, t, k)
  \/ Enqueue(r, t, k)
  \/ Join(r, t, k)

-----------------------------------------------------------------------------
(* get_snapshot: the wait.  wait_for awaits the shared future itself, so   *)
(* its timer cancels that future for every waiter.  A timer that fires     *)
(* after the future is done but before its owner runs still wins.          *)

\* Faulty variant: the timer cancels a future that may already be done.
WaitTimeoutLate(r) ==
  /\ pc[r] = "waiting"
  /\ pc' = [pc EXCEPT ![r] = "expired"]
  /\ future' = [future EXCEPT ![waitsOn[r]] = "cancelled"]
  /\ UNCHANGED <<fresh, callVars, waitsOn, outcome, pending, queue,
                 tokenWaiters, workVars, backVars>>

WaitTimeout(r) ==
  /\ pc[r] = "waiting"
  /\ pc' = [pc EXCEPT ![r] = "expired"]
  /\ future' = IF future[waitsOn[r]] = "open"
               THEN [future EXCEPT ![waitsOn[r]] = "cancelled"]
               ELSE future
  /\ UNCHANGED <<fresh, callVars, waitsOn, outcome, pending, queue,
                 tokenWaiters, workVars, backVars>>

\* A future that is done carries a result, an exception or a cancellation.
WaitEnd(r) ==
  IF pc[r] = "expired" THEN "timeout"
  ELSE IF future[waitsOn[r]] = "result" THEN "refreshed"
  ELSE IF future[waitsOn[r]] = "error" THEN "failed"
  ELSE "cancelled"

Resume(r) ==
  /\ \/ pc[r] = "expired"
     \/ pc[r] = "waiting" /\ future[waitsOn[r]] # "open"
  /\ Answer(r, WaitEnd(r))
  /\ tokenWaiters' = UncountWaiter(tokenWaiters, token[r])
  /\ UNCHANGED <<fresh, callVars, waitsOn, future, pending, queue,
                 workVars, backVars>>

-----------------------------------------------------------------------------
(* The worker tasks and their threads *)

\* Faulty variants: the entry is popped and its future left alone; the done()
\* test is missing; an error is delivered as a cancellation.
ResolveSilently(t, how) ==
  /\ pending' = [pending EXCEPT ![t] = None]
  /\ UNCHANGED future

ResolveAgain(t, how) ==
  /\ pending' = [pending EXCEPT ![t] = None]
  /\ future' = IF pending[t] # None THEN [future EXCEPT ![pending[t]] = how]
               ELSE future

ResolveByCancel(t, how) ==
  /\ pending' = [pending EXCEPT ![t] = None]
  /\ future' = IF pending[t] # None /\ future[pending[t]] = "open"
               THEN [future EXCEPT ![pending[t]] =
                       IF how = "error" THEN "cancelled" ELSE how]
               ELSE future

\* _resolve_pending: pop the entry, then settle its future unless it is done.
Resolve(t, how) ==
  /\ pending' = [pending EXCEPT ![t] = None]
  /\ future' = IF pending[t] # None /\ future[pending[t]] = "open"
               THEN [future EXCEPT ![pending[t]] = how]
               ELSE future

Dequeue(w) ==
  /\ ~stopped
  /\ job[w] = None
  /\ queue # <<>>
  /\ job' = [job EXCEPT ![w] = Head(queue)]
  /\ thread' = [thread EXCEPT ![w] = "running"]
  /\ queue' = Tail(queue)
  /\ UNCHANGED <<fresh, pc, callVars, waitsOn, outcome, future, pending,
                 tokenWaiters, backVars>>

\* refresh_snapshot ends: both caches written, or an exception before the
\* memory write, or one raised by the redis SETEX that follows it.
RefreshEnds(t, ok) ==
  \/ ok /\ fresh' = fresh \cup {t}
  \/ ~ok /\ fresh' \in {fresh, fresh \cup {t}}

ThreadEnds(w) ==
  /\ thread[w] = "running"
  /\ \E ok \in BOOLEAN :
       /\ RefreshEnds(job[w], ok)
       /\ thread' = [thread EXCEPT ![w] = IF ok THEN "ok" ELSE "failed"]
  /\ UNCHANGED <<pc, callVars, waitsOn, outcome, future, pending, queue,
                 tokenWaiters, job, backVars>>

JobDone(w) ==
  /\ thread[w] \in {"ok", "failed"}
  /\ Resolve(job[w], IF thread[w] = "ok" THEN "result" ELSE "error")
  /\ job' = [job EXCEPT ![w] = None]
  /\ thread' = [thread EXCEPT ![w] = "idle"]
  /\ UNCHANGED <<fresh, pc, callVars, waitsOn, outcome, queue, tokenWaiters,
                 backVars>>

\* The timer of wait_for(to_thread(...)): TimeoutError resolves the pending
\* refresh, and a thread still running goes on by itself.
JobTimeout(w) ==
  /\ thread[w] # "idle"
  /\ Resolve(job[w], "error")
  /\ zombies' = IF thread[w] = "running"
                THEN [zombies EXCEPT ![job[w]] = @ + 1]
                ELSE zombies
  /\ job' = [job EXCEPT ![w] = None]
  /\ thread' = [thread EXCEPT ![w] = "idle"]
  /\ UNCHANGED <<fresh, pc, callVars, waitsOn, outcome, queue, tokenWaiters,
                 warm, stopped>>

ZombieEnds(t) ==
  /\ zombies[t] > 0
  /\ \E ok \in BOOLEAN : RefreshEnds(t, ok)
  /\ zombies' = [zombies EXCEPT ![t] = @ - 1]
  /\ UNCHANGED <<pc, callVars, waitsOn, outcome, future, pending, queue,
                 tokenWaiters, workVars, warm, stopped>>

-----------------------------------------------------------------------------
(* The warm-up loop, the age of the caches, start and stop *)

WarmWakes ==
  /\ ~stopped
  /\ warm = 0
  /\ Len(TableSeq) > 0
  /\ warm' = 1
  /\ UNCHANGED <<fresh, pc, callVars, waitsOn, outcome, future, pending,
                 queue, tokenWaiters, workVars, zombies, stopped>>

\* One table of the loop; a failed refresh is logged and the loop goes on.
WarmRefreshes ==
  /\ warm > 0
  /\ \E ok \in BOOLEAN : RefreshEnds(TableSeq[warm], ok)
  /\ warm' = IF warm < Len(TableSeq) THEN warm + 1 ELSE 0
  /\ UNCHANGED <<pc, callVars, waitsOn, outcome, future, pending, queue,
                 tokenWaiters, workVars, zombies, stopped>>

Expire(t) ==
  /\ ~stopped
  /\ fresh' = fresh \ {t}
  /\ t \in fresh
  /\ UNCHANGED <<pc, callVars, waitsOn, outcome, future, pending, queue,
                 tokenWaiters, workVars, backVars>>

Idle(r) == pc[r] \in {"idle", "done"}

Abandoned(t) ==
  Cardinality({w \in Workers : thread[w] = "running" /\ job[w] = t})
    + (IF warm > 0 /\ TableSeq[warm] = t THEN 1 ELSE 0)

\* stop() cancels the workers and the warm loop.  The server calls it when
\* the requests in flight have been answered and takes no more.
Stop ==
  /\ ~stopped
  /\ \A r \in Requests : Idle(r)
  /\ stopped' = TRUE
  /\ zombies' = [t \in Tables |-> zombies[t] + Abandoned(t)]
  /\ job' = [w \in Workers |-> None]
  /\ thread' = [w \in Workers |-> "idle"]
  /\ warm' = 0
  /\ UNCHANGED <<fresh, pc, callVars, waitsOn, outcome, future, pending,
                 queue, tokenWaiters>>

\* After stop() nothing more happens here.
Terminated == stopped /\ UNCHANGED vars

Next ==
  \/ \E r \in Requests, t \in Tables, k \in Tokens : GetSnapshot(r, t, k)
  \/ \E r \in Requests : WaitTimeout(r) \/ Resume(r)
  \/ \E w \in Workers : Dequeue(w) \/ ThreadEnds(w) \/ JobDone(w) \/ JobTimeout(w)
  \/ \E t \in Tables : ZombieEnds(t) \/ Expire(t)
  \/ WarmWakes
  \/ WarmRefreshes
  \/ Stop
  \/ Terminated

Spec == Init /\ [][Next]_vars

-----------------------------------------------------------------------------
(* What the queue promises *)

InWait(r) == pc[r] \in {"waiting", "expired"}

\* The count kept for a token is the number of its calls between the lock
\* body and the finally clause, on every path through get_snapshot, and never
\* exceeds the token's queue quota (query_queue.py 57-66, 76-80).
TokenWaitersExact ==
  \A k \in Tokens :
    /\ tokenWaiters[k] = Cardinality({r \in Requests : InWait(r) /\ token[r] = k})
    /\ tokenWaiters[k] <= SafeMaxQueue(k)

QueueDistinct ==
  \A i, j \in 1..Len(queue) : queue[i] = queue[j] => i = j

WorkersDistinct ==
  \A v, w \in Workers : job[v] # None /\ job[v] = job[w] => v = w

QueueNotOnWorker ==
  \A w \in Workers, i \in 1..Len(queue) : job[w] # queue[i]

HasJob(t) ==
  \/ \E i \in 1..Len(queue) : queue[i] = t
  \/ \E w \in Workers : job[w] = t

PendingIffJob == \A t \in Tables : pending[t] # None <=> HasJob(t)

\* While the service runs, a table has one refresh job, queued or on a worker,
\* exactly when it has a pending entry: callers are neither attached to a job
\* that does not exist nor able to start a second one (lines 63-71, 97-101).
SingleFlight ==
  ~stopped => /\ QueueDistinct
              /\ WorkersDistinct
              /\ QueueNotOnWorker
              /\ PendingIffJob

\* A call that awaits a future nobody has settled can still be woken: that
\* future is the pending entry of its table and a job for the table exists,
\* so no timeout, failure or shutdown drops the wake-up (lines 74-75, 82-107).
NoLostWakeup ==
  \A r \in Requests :
    pc[r] = "waiting" /\ future[waitsOn[r]] = "open"
      => /\ ~stopped
         /\ pending[table[r]] = waitsOn[r]
         /\ HasJob(table[r])

\* Waiters share one future, and wait_for cancels it when one of them times
\* out.  Nothing else cancels it: a call ends as cancelled only if a peer on
\* the same future has run out of time (line 75).
CancelledOnlyByPeer ==
  \A r \in Requests :
    outcome[r] = "cancelled" =>
      \E s \in Requests \ {r} :
        waitsOn[s] = waitsOn[r] /\ (pc[s] = "expired" \/ outcome[s] = "timeout")

\* A call is refused for the global limit only while other tables fill it: the
\* table it asks for is never in the queue itself, and no job is left there
\* whose callers have been told the end (lines 63-72, 103).
FullOnlyOfOthers ==
  [][\A r \in Requests :
       outcome[r] = "none" /\ outcome'[r] = "queueFull" =>
         Cardinality({t \in Tables \ {table'[r]} : pending[t] # None}) >= QueueMaxSize]_vars

\* A future is settled once.  A worker that ends after the waiters' timers, or
\* a timer after the worker, changes nothing any more (lines 102-107).
SettledOnce ==
  [][\A r \in Requests :
       future[r] \in {"result", "error", "cancelled"} => future'[r] = future[r]]_vars

\* The queue implements the shared flight: queueing, workers, threads, caches,
\* quotas and shutdown never show in what the callers of one refresh are told.
Flight == INSTANCE SharedFlight WITH
  Callers <- Requests,
  flight  <- pending,
  fate    <- future,
  aboard  <- waitsOn,
  late    <- {r \in Requests : pc[r] = "expired" \/ outcome[r] = "timeout"},
  verdict <- outcome

FlightSpec == Flight!Spec
=============================================================================
