-------------------------- MODULE QueryQueueProofs --------------------------
(***************************************************************************)
(* Proofs about QueryQueue for every number of requests, tables, tokens    *)
(* and workers, every quota and every queue size.                          *)
(***************************************************************************)
EXTENDS QueryQueue, FiniteSetTheorems, TLAPS

\* A worker has a table exactly while it has a thread.
WorkerShape == \A w \in Workers : job[w] = None <=> thread[w] = "idle"

TypeInv == TypeOK /\ WorkerShape

\* The queue starts well-typed.
LEMMA InitType == Init => TypeInv
<1> USE NoneAssumption, QuotaAssumption, QueueSizeAssumption, TableSeqAssumption
<1> SUFFICES ASSUME Init PROVE TypeInv
  OBVIOUS
<1>1. queue \in Seq(Tables) /\ warm \in 0..Len(TableSeq)
  BY DEF Init
<1>2. WorkerShape
  BY DEF Init, WorkerShape
<1>3. /\ fresh \in SUBSET Tables
      /\ zombies \in [Tables -> Nat]
      /\ tokenWaiters \in [Tokens -> Nat]
  BY DEF Init
<1>4. stopped \in BOOLEAN
  BY DEF Init
<1>5. /\ pc \in [Requests -> PcStates]
      /\ outcome \in [Requests -> Outcomes]
      /\ future \in [Requests -> FutureStates]
      /\ thread \in [Workers -> ThreadStates]
  BY DEF Init, PcStates, FutureStates, ThreadStates, Outcomes
<1>6. /\ table \in [Requests -> Tables \cup {None}]
      /\ token \in [Requests -> Tokens \cup {None}]
      /\ waitsOn \in [Requests -> Requests \cup {None}]
      /\ pending \in [Tables -> Requests \cup {None}]
  BY DEF Init
<1>7. job \in [Workers -> Tables \cup {None}]
  BY DEF Init
<1> QED BY <1>1, <1>2, <1>3, <1>4, <1>5, <1>6, <1>7 DEF TypeInv, TypeOK

\* Typing is preserved by every step.
LEMMA TypeStep ==
  TypeInv /\ [Next]_vars => TypeInv'
<1> USE NoneAssumption, QuotaAssumption, QueueSizeAssumption, TableSeqAssumption
<1> SUFFICES ASSUME TypeInv, [Next]_vars PROVE TypeInv'
  OBVIOUS
<1> USE DEF TypeInv, WorkerShape, TypeOK, PcStates, FutureStates, ThreadStates, Outcomes,
            callVars, workVars, backVars
<1>1. ASSUME NEW r \in Requests, NEW t \in Tables, NEW k \in Tokens,
             GetSnapshot(r, t, k)
      PROVE  TypeInv'
  <2>1. CASE CacheLookupEnds(r, t, k)
    BY <2>1 DEF CacheLookupEnds, Arrive, Answer
  <2>2. CASE RejectToken(r, t, k)
    BY <2>2 DEF RejectToken, Arrive, Answer
  <2>3. CASE RejectQueueFull(r, t, k)
    BY <2>3 DEF RejectQueueFull, Arrive, Answer, CountWaiter, UncountWaiter
  <2>4. CASE Enqueue(r, t, k)
    BY <2>4 DEF Enqueue, Arrive, Wait, CountWaiter
  <2>5. CASE Join(r, t, k)
    BY <2>5 DEF Join, Arrive, Wait, CountWaiter
  <2> QED BY <1>1, <2>1, <2>2, <2>3, <2>4, <2>5 DEF GetSnapshot
<1>2. ASSUME NEW r \in Requests, WaitTimeout(r) PROVE TypeInv'
  BY <1>2 DEF WaitTimeout
<1>3. ASSUME NEW r \in Requests, Resume(r) PROVE TypeInv'
  <2>1. WaitEnd(r) \in Outcomes
    BY <1>3 DEF Resume, WaitEnd
  <2>2. tokenWaiters' \in [Tokens -> Nat]
    <3>1. CASE token[r] \in Tokens
      BY <1>3, <3>1 DEF Resume, UncountWaiter
    <3>2. CASE token[r] \notin Tokens
      BY <1>3, <3>2 DEF Resume, UncountWaiter
    <3> QED BY <3>1, <3>2
  <2>3. outcome' \in [Requests -> Outcomes] /\ pc' \in [Requests -> PcStates]
    BY <1>3, <2>1 DEF Resume, Answer
  <2> QED BY <1>3, <2>2, <2>3 DEF Resume
<1>4. ASSUME NEW w \in Workers, Dequeue(w) PROVE TypeInv'
  BY <1>4 DEF Dequeue
<1>5. ASSUME NEW w \in Workers, ThreadEnds(w) PROVE TypeInv'
  BY <1>5 DEF ThreadEnds, RefreshEnds
<1>6. ASSUME NEW w \in Workers, JobDone(w) PROVE TypeInv'
  BY <1>6 DEF JobDone, Resolve
<1>7. ASSUME NEW w \in Workers, JobTimeout(w) PROVE TypeInv'
  BY <1>7 DEF JobTimeout, Resolve
<1>8. ASSUME NEW t \in Tables, ZombieEnds(t) PROVE TypeInv'
  BY <1>8 DEF ZombieEnds, RefreshEnds
<1>9. ASSUME NEW t \in Tables, Expire(t) PROVE TypeInv'
  BY <1>9 DEF Expire
<1>10. CASE WarmWakes
  BY <1>10 DEF WarmWakes
<1>11. CASE WarmRefreshes
  BY <1>11 DEF WarmRefreshes, RefreshEnds
<1>12. CASE Stop
  <2>1. \A t \in Tables : Abandoned(t) \in Nat
    BY FiniteAssumption, FS_Subset, FS_CardinalityType DEF Abandoned
  <2> QED BY <1>12, <2>1 DEF Stop
<1>13. CASE UNCHANGED vars
  BY <1>13 DEF vars
<1> QED BY <1>1, <1>2, <1>3, <1>4, <1>5, <1>6, <1>7, <1>8, <1>9, <1>10,
           <1>11, <1>12, <1>13 DEF Next, Terminated

\* The state of the queue manager stays well-typed; in particular the counts
\* of waiters and of abandoned threads stay natural numbers.
THEOREM TypeInvariant == Spec => []TypeInv
<1>1. Init => TypeInv
  BY InitType
<1>2. TypeInv /\ [Next]_vars => TypeInv'
  BY TypeStep
<1> QED BY <1>1, <1>2, PTL DEF Spec

\* The state is well-typed: no count of waiters or of threads left behind falls
\* below zero (query_queue.py 61, 66, 78).
THEOREM TypeCorrect == Spec => []TypeOK
<1>1. TypeInv => TypeOK
  BY DEF TypeInv
<1>2. QED
  BY <1>1, TypeInvariant, PTL

\* stop() is final: no step of the queue manager starts it again.
LEMMA StoppedForGood == [Next]_vars /\ stopped => stopped'
<1> SUFFICES ASSUME [Next]_vars, stopped PROVE stopped'
  OBVIOUS
<1>1. CASE UNCHANGED vars
  BY <1>1 DEF vars
<1>2. ASSUME NEW r \in Requests, WaitTimeout(r) \/ Resume(r) PROVE stopped'
  BY <1>2 DEF WaitTimeout, Resume, backVars
<1>3. ASSUME NEW w \in Workers,
             ThreadEnds(w) \/ JobDone(w) \/ JobTimeout(w)
      PROVE  stopped'
  BY <1>3 DEF ThreadEnds, JobDone, JobTimeout, backVars
<1>4. ASSUME NEW t \in Tables, ZombieEnds(t) PROVE stopped'
  BY <1>4 DEF ZombieEnds
<1>5. CASE WarmRefreshes
  BY <1>5 DEF WarmRefreshes
<1> QED
  BY <1>1, <1>2, <1>3, <1>4, <1>5
  DEF Next, GetSnapshot, CacheLookupEnds, RejectToken, RejectQueueFull,
      Enqueue, Join, Arrive, Dequeue, Expire, WarmWakes, Stop, Terminated

\* It starts with no job and no pending entry.
LEMMA InitSingleFlight == Init => SingleFlight
<1> USE NoneAssumption, QueueSizeAssumption
    DEF SingleFlight, QueueDistinct, WorkersDistinct, QueueNotOnWorker,
        PendingIffJob, callVars, workVars, backVars
<1> QED
  BY DEF Init, HasJob

\* The correspondence of jobs and pending entries is preserved by every step.
LEMMA SingleFlightStep ==
  TypeInv /\ TypeInv' /\ SingleFlight /\ [Next]_vars => SingleFlight'
<1> USE NoneAssumption, QueueSizeAssumption
    DEF SingleFlight, QueueDistinct, WorkersDistinct, QueueNotOnWorker,
        PendingIffJob, callVars, workVars, backVars
<1> SUFFICES ASSUME TypeInv, TypeInv', SingleFlight, [Next]_vars,
                    ~stopped, ~stopped'
             PROVE  SingleFlight'
  BY StoppedForGood
<1> USE DEF TypeInv, WorkerShape, TypeOK
<1>1. CASE UNCHANGED <<pending, queue, job>>
  BY <1>1 DEF HasJob
<1>2. ASSUME NEW r \in Requests, NEW t \in Tables, NEW k \in Tokens,
             Enqueue(r, t, k)
      PROVE  SingleFlight'
  <2>1. /\ pending[t] = None
        /\ pending' = [pending EXCEPT ![t] = r]
        /\ queue' = Append(queue, t)
        /\ UNCHANGED job
    BY <1>2 DEF Enqueue, Wait
  <2>2. ~HasJob(t)
    BY <2>1
  <2>3. /\ Len(queue) \in Nat
        /\ Len(queue') = Len(queue) + 1
        /\ queue'[Len(queue) + 1] = t
        /\ \A i \in 1..Len(queue) : queue'[i] = queue[i]
    BY <2>1
  <2>4. QueueDistinct' /\ WorkersDistinct' /\ QueueNotOnWorker'
    <3>1. \A i \in 1..Len(queue) : queue[i] # t
      BY <2>2 DEF HasJob
    <3>2. \A w \in Workers : job[w] # t
      BY <2>2 DEF HasJob
    <3>3. QueueDistinct'
      <4> SUFFICES ASSUME NEW i \in 1..Len(queue'), NEW j \in 1..Len(queue'),
                          queue'[i] = queue'[j], i # j
                   PROVE  FALSE
        OBVIOUS
      <4>1. /\ i \in 1..Len(queue) \/ i = Len(queue) + 1
            /\ j \in 1..Len(queue) \/ j = Len(queue) + 1
        <5>1. i \in 1..(Len(queue) + 1) /\ j \in 1..(Len(queue) + 1)
          BY <2>3
        <5> HIDE DEF TypeInv, TypeOK
        <5> QED BY <2>3, <5>1
      <4>2. CASE i \in 1..Len(queue) /\ j \in 1..Len(queue)
        BY <2>3, <4>2
      <4>3. CASE i = Len(queue) + 1 /\ j \in 1..Len(queue)
        BY <2>3, <3>1, <4>3
      <4>4. CASE j = Len(queue) + 1 /\ i \in 1..Len(queue)
        BY <2>3, <3>1, <4>4
      <4> QED BY <4>1, <4>2, <4>3, <4>4
    <3>4. QueueNotOnWorker'
      BY <2>1, <2>3, <3>2
    <3> QED BY <2>1, <3>3, <3>4
  <2>5. ASSUME NEW u \in Tables PROVE HasJob(u)' <=> HasJob(u) \/ u = t
    BY <2>1, <2>3 DEF HasJob
  <2>6. PendingIffJob'
    BY <2>1, <2>5
  <2> QED BY <2>4, <2>6
<1>3. ASSUME NEW w \in Workers, Dequeue(w) PROVE SingleFlight'
  <2>1. /\ job[w] = None
        /\ queue # <<>>
        /\ job' = [job EXCEPT ![w] = queue[1]]
        /\ queue' = Tail(queue)
        /\ UNCHANGED pending
    BY <1>3 DEF Dequeue
  <2>2. /\ Len(queue) \in Nat \ {0}
        /\ Len(queue') = Len(queue) - 1
        /\ \A i \in 1..Len(queue') : queue'[i] = queue[i + 1]
    BY <2>1
  <2>3. QueueDistinct' /\ WorkersDistinct' /\ QueueNotOnWorker'
    BY <2>1, <2>2
  <2>4. ASSUME NEW t \in Tables PROVE HasJob(t)' <=> HasJob(t)
    <3>1. ASSUME NEW i \in 1..Len(queue), queue[i] = t PROVE HasJob(t)'
      <4>1. CASE i = 1
        BY <2>1, <3>1, <4>1 DEF HasJob
      <4>2. CASE i # 1
        <5>1. PICK j \in 1..Len(queue') : i = j + 1
          BY <2>2, <4>2
        <5> QED BY <2>2, <3>1, <5>1 DEF HasJob
      <4> QED BY <4>1, <4>2
    <3>2. ASSUME NEW v \in Workers, job[v] = t PROVE HasJob(t)'
      BY <2>1, <3>2 DEF HasJob
    <3>3. ASSUME HasJob(t)' PROVE HasJob(t)
      BY <2>1, <2>2, <3>3 DEF HasJob
    <3> QED BY <3>1, <3>2, <3>3 DEF HasJob
  <2> QED BY <2>1, <2>3, <2>4
<1>4. ASSUME NEW w \in Workers, JobDone(w) \/ JobTimeout(w)
      PROVE  SingleFlight'
  <2>1. PICK t \in Tables : job[w] = t
    BY <1>4 DEF JobDone, JobTimeout, ThreadStates
  <2>2. /\ job' = [job EXCEPT ![w] = None]
        /\ pending' = [pending EXCEPT ![t] = None]
        /\ UNCHANGED queue
    BY <1>4, <2>1 DEF JobDone, JobTimeout, Resolve
  <2>3. QueueDistinct' /\ WorkersDistinct' /\ QueueNotOnWorker'
    BY <2>2
  <2>4. ~HasJob(t)'
    BY <2>1, <2>2 DEF HasJob
  <2>5. ASSUME NEW u \in Tables, u # t PROVE HasJob(u)' <=> HasJob(u)
    BY <2>1, <2>2, <2>5 DEF HasJob
  <2>6. PendingIffJob'
    BY <2>2, <2>4, <2>5
  <2> QED BY <2>3, <2>6
<1>5. [Next]_vars => \/ UNCHANGED <<pending, queue, job>>
                     \/ \E r \in Requests, t \in Tables, k \in Tokens :
                          Enqueue(r, t, k)
                     \/ \E w \in Workers :
                          Dequeue(w) \/ JobDone(w) \/ JobTimeout(w)
  BY DEF Next, vars, GetSnapshot, CacheLookupEnds, RejectToken,
         RejectQueueFull, Join, Wait, WaitTimeout, Resume, ThreadEnds,
         ZombieEnds, Expire, WarmWakes, WarmRefreshes, Stop, Terminated
<1> QED BY <1>1, <1>2, <1>3, <1>4, <1>5

\* While the service runs, a table has exactly one job, queued or on a worker,
\* when it has a pending entry, and none otherwise.
THEOREM SingleFlightInvariant == Spec => []SingleFlight
<1>1. Init => SingleFlight
  BY InitSingleFlight
<1>2. TypeInv /\ TypeInv' /\ SingleFlight /\ [Next]_vars => SingleFlight'
  BY SingleFlightStep
<1> QED BY <1>1, <1>2, TypeInvariant, PTL DEF Spec

-----------------------------------------------------------------------------
(* The futures *)

\* A pending entry holds a future no worker has settled, for its own table.
PendingFlies ==
  \A t \in Tables :
    pending[t] # None => /\ future[pending[t]] \in {"open", "cancelled"}
                         /\ table[pending[t]] = t

IdleHasNoFuture == \A r \in Requests : pc[r] = "idle" => future[r] = "none"

WaitShape ==
  \A r \in Requests :
    InWait(r) => /\ waitsOn[r] \in Requests
                 /\ table[r] \in Tables
                 /\ token[r] \in Tokens

AwaitedExists ==
  \A r \in Requests : waitsOn[r] # None => future[waitsOn[r]] # "none"

OpenIsPending ==
  \A r \in Requests :
    pc[r] = "waiting" /\ future[waitsOn[r]] = "open"
      => pending[table[r]] = waitsOn[r]

StoppedDrained == stopped => \A r \in Requests : ~InWait(r)

FlightInv ==
  /\ PendingFlies
  /\ IdleHasNoFuture
  /\ WaitShape
  /\ AwaitedExists
  /\ OpenIsPending
  /\ StoppedDrained

\* It starts with no future.
LEMMA InitFlight == Init => FlightInv
<1> USE NoneAssumption
    DEF FlightInv, PendingFlies, IdleHasNoFuture, WaitShape, AwaitedExists,
        OpenIsPending, StoppedDrained, InWait
<1> QED
  BY DEF Init

\* So are the facts about the futures.
LEMMA FlightStep ==
  TypeInv /\ FlightInv /\ [Next]_vars => FlightInv'
<1> USE NoneAssumption
    DEF FlightInv, PendingFlies, IdleHasNoFuture, WaitShape, AwaitedExists,
        OpenIsPending, StoppedDrained, InWait
<1> SUFFICES ASSUME TypeInv, FlightInv, [Next]_vars PROVE FlightInv'
  OBVIOUS
<1> USE DEF TypeInv, WorkerShape, TypeOK, callVars, workVars, backVars
<1>1. ASSUME NEW r \in Requests, NEW t \in Tables, NEW k \in Tokens,
             GetSnapshot(r, t, k)
      PROVE  FlightInv'
  <2>0. future[r] = "none" /\ \A u \in Tables : pending[u] # r
    <3>1. pc[r] = "idle"
      BY <1>1 DEF GetSnapshot, CacheLookupEnds, RejectToken, RejectQueueFull,
                  Enqueue, Join, Arrive
    <3>2. future[r] = "none"
      BY <3>1
    <3>3. ASSUME NEW u \in Tables, pending[u] = r PROVE FALSE
      BY <3>2, <3>3
    <3> QED BY <3>2, <3>3
  <2>1. CASE CacheLookupEnds(r, t, k) \/ RejectToken(r, t, k)
             \/ RejectQueueFull(r, t, k)
    <3>1. /\ pc[r] = "idle" /\ ~stopped
          /\ table' = [table EXCEPT ![r] = t]
          /\ token' = [token EXCEPT ![r] = k]
          /\ pc' = [pc EXCEPT ![r] = "done"]
          /\ UNCHANGED <<waitsOn, future, pending, stopped>>
      BY <2>1 DEF CacheLookupEnds, RejectToken, RejectQueueFull, Arrive, Answer
    <3> QED BY <2>0, <3>1
  <2>2. CASE Enqueue(r, t, k)
    BY <2>0, <2>2 DEF Enqueue, Arrive, Wait
  <2>3. CASE Join(r, t, k)
    BY <2>0, <2>3 DEF Join, Arrive, Wait
  <2> QED BY <1>1, <2>1, <2>2, <2>3 DEF GetSnapshot
<1>2. ASSUME NEW r \in Requests, WaitTimeout(r) PROVE FlightInv'
  BY <1>2 DEF WaitTimeout
<1>3. ASSUME NEW r \in Requests, Resume(r) PROVE FlightInv'
  BY <1>3 DEF Resume, Answer
<1>4. ASSUME NEW w \in Workers, JobDone(w) \/ JobTimeout(w)
      PROVE  FlightInv'
  <2>1. PICK t \in Tables, how \in {"result", "error"} :
          /\ Resolve(t, how)
          /\ UNCHANGED <<pc, table, token, waitsOn, stopped>>
    BY <1>4 DEF JobDone, JobTimeout, ThreadStates
  <2> QED BY <2>1 DEF Resolve
<1>5. CASE Stop
  BY <1>5 DEF Stop, Idle
<1>6. CASE UNCHANGED <<pc, table, token, waitsOn, future, pending, stopped>>
  BY <1>6
<1>7. \/ \E r \in Requests, t \in Tables, k \in Tokens : GetSnapshot(r, t, k)
      \/ \E r \in Requests : WaitTimeout(r) \/ Resume(r)
      \/ \E w \in Workers : JobDone(w) \/ JobTimeout(w)
      \/ Stop
      \/ UNCHANGED <<pc, table, token, waitsOn, future, pending, stopped>>
  BY DEF Next, vars, Dequeue, ThreadEnds, ZombieEnds, Expire, WarmWakes,
         WarmRefreshes, Terminated
<1> QED BY <1>1, <1>2, <1>3, <1>4, <1>5, <1>6, <1>7

\* The pending entry of a table is a future created for that table and not yet
\* settled by its worker; every waiting call awaits a future that exists, and
\* one that is still open is the pending entry; stop() leaves no caller behind.
THEOREM FlightInvariant == Spec => []FlightInv
<1>1. Init => FlightInv
  BY InitFlight
<1>2. TypeInv /\ FlightInv /\ [Next]_vars => FlightInv'
  BY FlightStep
<1> QED BY <1>1, <1>2, TypeInvariant, PTL DEF Spec

\* A caller whose future is open has a job that will settle it.
LEMMA WakeupComes == TypeInv /\ SingleFlight /\ FlightInv => NoLostWakeup
  BY NoneAssumption
  DEF TypeInv, TypeOK, SingleFlight, PendingIffJob, FlightInv, WaitShape,
      OpenIsPending, StoppedDrained, InWait, NoLostWakeup

\* Nobody awaits an open future that no job will settle.
THEOREM NoLostWakeupInvariant == Spec => []NoLostWakeup
BY WakeupComes, TypeInvariant, SingleFlightInvariant, FlightInvariant, PTL

\* A settled future never changes again.
THEOREM FuturesSettleOnce == Spec => SettledOnce
<1> DEFINE Once ==
      \A r \in Requests :
        future[r] \in {"result", "error", "cancelled"} => future'[r] = future[r]
<1>1. TypeInv /\ FlightInv /\ [Next]_vars => [Once]_vars
  <2> SUFFICES ASSUME TypeInv, FlightInv, [Next]_vars PROVE [Once]_vars
    OBVIOUS
  <2> USE DEF TypeInv, WorkerShape, TypeOK
  <2>1. ASSUME NEW r \in Requests, NEW t \in Tables, NEW k \in Tokens,
               Enqueue(r, t, k)
        PROVE  Once
    BY <2>1 DEF Enqueue, Arrive, FlightInv, IdleHasNoFuture
  <2>2. ASSUME NEW r \in Requests, WaitTimeout(r) PROVE Once
    BY <2>2 DEF WaitTimeout
  <2>3. ASSUME NEW w \in Workers, JobDone(w) \/ JobTimeout(w) PROVE Once
    <3>1. PICK t \in Tables, how \in {"result", "error"} : Resolve(t, how)
      BY <2>3 DEF JobDone, JobTimeout, ThreadStates
    <3> QED BY <3>1 DEF Resolve
  <2>4. CASE UNCHANGED future
    BY <2>4
  <2>5. \/ \E r \in Requests, t \in Tables, k \in Tokens : Enqueue(r, t, k)
        \/ \E r \in Requests : WaitTimeout(r)
        \/ \E w \in Workers : JobDone(w) \/ JobTimeout(w)
        \/ UNCHANGED future
    BY DEF Next, vars, GetSnapshot, CacheLookupEnds, RejectToken,
           RejectQueueFull, Join, Resume, Dequeue, ThreadEnds, ZombieEnds,
           Expire, WarmWakes, WarmRefreshes, Stop, Terminated
  <2> QED BY <2>1, <2>2, <2>3, <2>4, <2>5
<1> QED BY <1>1, TypeInvariant, FlightInvariant, PTL DEF Spec, SettledOnce

-----------------------------------------------------------------------------
(* The limits *)

Waiters(k) == {r \in Requests : InWait(r) /\ token[r] = k}

\* It starts with no waiters.
LEMMA InitWaiters == Init => TokenWaitersExact
<1> USE FiniteAssumption, NoneAssumption, QuotaAssumption
<1> SUFFICES ASSUME Init, NEW k \in Tokens
             PROVE  /\ tokenWaiters[k] = Cardinality(Waiters(k))
                    /\ tokenWaiters[k] <= SafeMaxQueue(k)
  BY DEF TokenWaitersExact, Waiters
<1>1. Waiters(k) = {}
  BY DEF Init, Waiters, InWait
<1> QED BY <1>1, FS_EmptySet DEF Init, SafeMaxQueue

\* So is the count of a token's waiters.
LEMMA WaitersStep ==
  TypeInv /\ FlightInv /\ TokenWaitersExact /\ [Next]_vars
    => TokenWaitersExact'
<1> USE FiniteAssumption, NoneAssumption, QuotaAssumption
<1> SUFFICES ASSUME TypeInv, FlightInv, TokenWaitersExact, [Next]_vars,
                    NEW k \in Tokens
             PROVE  /\ tokenWaiters'[k] = Cardinality(Waiters(k)')
                    /\ tokenWaiters'[k] <= SafeMaxQueue(k)
  BY DEF TokenWaitersExact, Waiters, SafeMaxQueue
<1>0. /\ tokenWaiters[k] = Cardinality(Waiters(k))
      /\ tokenWaiters[k] <= SafeMaxQueue(k)
      /\ tokenWaiters \in [Tokens -> Nat]
      /\ SafeMaxQueue(k) \in Nat \ {0}
      /\ IsFiniteSet(Waiters(k))
  <2>1. IsFiniteSet(Waiters(k))
    <3>1. Waiters(k) \subseteq Requests
      BY DEF Waiters
    <3> QED BY <3>1, FS_Subset
  <2>2. SafeMaxQueue(k) \in Nat \ {0}
    BY DEF SafeMaxQueue
  <2> QED BY <2>1, <2>2 DEF TokenWaitersExact, Waiters, TypeInv, TypeOK
<1> USE DEF callVars, workVars, backVars
<1>1. ASSUME NEW r \in Requests, NEW t \in Tables, NEW l \in Tokens,
             Enqueue(r, t, l) \/ Join(r, t, l)
      PROVE  /\ tokenWaiters'[k] = Cardinality(Waiters(k)')
             /\ tokenWaiters'[k] <= SafeMaxQueue(k)
  <2>1. /\ pc[r] = "idle"
        /\ pc' = [pc EXCEPT ![r] = "waiting"]
        /\ token' = [token EXCEPT ![r] = l]
        /\ tokenWaiters' = [tokenWaiters EXCEPT ![l] = @ + 1]
        /\ tokenWaiters[l] < SafeMaxQueue(l)
    BY <1>1 DEF Enqueue, Join, Arrive, Wait, CountWaiter
  <2>2. CASE l = k
    <3>1. Waiters(k)' = Waiters(k) \cup {r} /\ r \notin Waiters(k)
      BY <2>1, <2>2 DEF Waiters, InWait, TypeInv, TypeOK
    <3>2. Cardinality(Waiters(k) \cup {r}) = Cardinality(Waiters(k)) + 1
      BY <1>0, <3>1, FS_AddElement
    <3> QED BY <1>0, <2>1, <2>2, <3>1, <3>2
  <2>3. CASE l # k
    <3>1. Waiters(k)' = Waiters(k)
      BY <2>1, <2>3 DEF Waiters, InWait, TypeInv, TypeOK
    <3> QED BY <1>0, <2>1, <2>3, <3>1
  <2> QED BY <2>2, <2>3
<1>2. ASSUME NEW r \in Requests, NEW t \in Tables, NEW l \in Tokens,
             \/ CacheLookupEnds(r, t, l)
             \/ RejectToken(r, t, l)
             \/ RejectQueueFull(r, t, l)
      PROVE  Waiters(k)' = Waiters(k) /\ tokenWaiters' = tokenWaiters
  <2>1. /\ pc[r] = "idle"
        /\ pc' = [pc EXCEPT ![r] = "done"]
        /\ token' = [token EXCEPT ![r] = l]
    BY <1>2 DEF CacheLookupEnds, RejectToken, RejectQueueFull, Arrive, Answer
  <2>2. Waiters(k)' = Waiters(k)
    BY <2>1 DEF Waiters, InWait, TypeInv, TypeOK
  <2>3. tokenWaiters' = tokenWaiters
    BY <1>0, <1>2 DEF CacheLookupEnds, RejectToken, RejectQueueFull,
                      CountWaiter, UncountWaiter
  <2> QED BY <2>2, <2>3
<1>3. ASSUME NEW r \in Requests, Resume(r)
      PROVE  /\ tokenWaiters'[k] = Cardinality(Waiters(k)')
             /\ tokenWaiters'[k] <= SafeMaxQueue(k)
  <2>1. PICK l \in Tokens : token[r] = l
    BY <1>3 DEF Resume, FlightInv, WaitShape, InWait
  <2>2. /\ InWait(r)
        /\ pc' = [pc EXCEPT ![r] = "done"]
        /\ UNCHANGED token
        /\ tokenWaiters' = UncountWaiter(tokenWaiters, l)
    BY <1>3, <2>1 DEF Resume, Answer, InWait
  <2>3. CASE l = k
    <3>1. Waiters(k)' = Waiters(k) \ {r} /\ r \in Waiters(k)
      BY <2>1, <2>2, <2>3 DEF Waiters, InWait, TypeInv, TypeOK
    <3>2. /\ Cardinality(Waiters(k) \ {r}) = Cardinality(Waiters(k)) - 1
          /\ Cardinality(Waiters(k) \ {r}) \in Nat
      BY <1>0, <3>1, FS_RemoveElement, FS_CardinalityType
    <3>3. tokenWaiters'[k] = tokenWaiters[k] - 1
      BY <1>0, <2>2, <2>3, <3>2 DEF UncountWaiter
    <3> QED BY <1>0, <3>1, <3>2, <3>3
  <2>4. CASE l # k
    <3>1. Waiters(k)' = Waiters(k)
      BY <2>1, <2>2, <2>4 DEF Waiters, InWait, TypeInv, TypeOK
    <3> QED BY <1>0, <2>2, <2>4, <3>1 DEF UncountWaiter
  <2> QED BY <2>3, <2>4
<1>4. ASSUME NEW r \in Requests, WaitTimeout(r)
      PROVE  Waiters(k)' = Waiters(k) /\ tokenWaiters' = tokenWaiters
  BY <1>4 DEF WaitTimeout, Waiters, InWait, TypeInv, TypeOK
<1>5. CASE UNCHANGED <<pc, token, tokenWaiters>>
  BY <1>0, <1>5 DEF Waiters, InWait
<1>6. \/ \E r \in Requests, t \in Tables, l \in Tokens : GetSnapshot(r, t, l)
      \/ \E r \in Requests : WaitTimeout(r) \/ Resume(r)
      \/ UNCHANGED <<pc, token, tokenWaiters>>
  BY DEF Next, vars, Dequeue, ThreadEnds, JobDone, JobTimeout, ZombieEnds,
         Expire, WarmWakes, WarmRefreshes, Stop, Terminated
<1> QED BY <1>0, <1>1, <1>2, <1>3, <1>4, <1>5, <1>6 DEF GetSnapshot

\* The count kept for a token is the number of its waiting calls, and stays
\* within the token's quota.
THEOREM TokenWaitersInvariant == Spec => []TokenWaitersExact
<1>1. Init => TokenWaitersExact
  BY InitWaiters
<1>2. TypeInv /\ FlightInv /\ TokenWaitersExact /\ [Next]_vars
        => TokenWaitersExact'
  BY WaitersStep
<1> QED BY <1>1, <1>2, TypeInvariant, FlightInvariant, PTL DEF Spec

\* A queue without repetitions is no longer than a set that holds its tables is
\* large.
LEMMA QueueNoLongerThan ==
  ASSUME queue \in Seq(Tables), QueueDistinct, NEW S \in SUBSET Tables,
         \A i \in 1..Len(queue) : queue[i] \in S
  PROVE  Len(queue) <= Cardinality(S)
<1> DEFINE D == 1..Len(queue)
           f == [i \in D |-> queue[i]]
<1>1. IsFiniteSet(S)
  BY FiniteAssumption, FS_Subset
<1>2. Len(queue) \in Nat
  OBVIOUS
<1>3. IsFiniteSet(D) /\ Cardinality(D) = Len(queue)
  <2>1. IsFiniteSet(1..Len(queue))
    BY <1>2, FS_Interval
  <2>2. Cardinality(1..Len(queue)) = IF 1 > Len(queue) THEN 0 ELSE Len(queue) - 1 + 1
    BY <1>2, FS_Interval
  <2> QED BY <1>2, <2>1, <2>2
<1>4. f \in [D -> S] /\ \A i, j \in D : f[i] = f[j] => i = j
  BY DEF QueueDistinct
<1>5. Cardinality(D) <= Cardinality(S)
  <2> SUFFICES ASSUME Cardinality(S) < Cardinality(D) PROVE FALSE
    BY <1>1, <1>3, FS_CardinalityType
  <2> QED BY <1>1, <1>3, <1>4, FS_PigeonHole
<1> QED BY <1>3, <1>5

Others(t) == {u \in Tables \ {t} : pending[u] # None}

OnlyOfOthers ==
  \A r \in Requests :
    outcome[r] = "none" /\ outcome'[r] = "queueFull" =>
      Cardinality({t \in Tables \ {table'[r]} : pending[t] # None}) >= QueueMaxSize

\* A call that finds the queue full finds only other tables in it.
LEMMA FullStep == TypeInv /\ SingleFlight /\ [Next]_vars => OnlyOfOthers
<1> SUFFICES ASSUME TypeInv, SingleFlight, [Next]_vars,
                    NEW r \in Requests, outcome[r] = "none", outcome'[r] = "queueFull"
             PROVE  Cardinality(Others(table'[r])) >= QueueMaxSize
  BY DEF OnlyOfOthers, Others
<1>0. outcome \in [Requests -> Outcomes] /\ table \in [Requests -> Tables \cup {None}]
  BY DEF TypeInv, TypeOK
<1>1. ASSUME NEW s \in Requests, Resume(s) PROVE FALSE
  BY <1>0, <1>1 DEF Resume, Answer, WaitEnd
<1>2. ASSUME NEW s \in Requests, NEW t \in Tables, NEW k \in Tokens,
             GetSnapshot(s, t, k)
      PROVE  Cardinality(Others(table'[r])) >= QueueMaxSize
  <2>1. RejectQueueFull(s, t, k) /\ s = r
    BY <1>0, <1>2 DEF GetSnapshot, CacheLookupEnds, RejectToken,
                      RejectQueueFull, Enqueue, Join, Wait, Answer
  <2>2. /\ ~stopped
        /\ pending[t] = None
        /\ Len(queue) >= QueueMaxSize
        /\ table'[r] = t
    BY <1>0, <2>1 DEF RejectQueueFull, Arrive, QueueFull
  <2>3. queue \in Seq(Tables)
    BY DEF TypeInv, TypeOK
  <2>4. \A i \in 1..Len(queue) : queue[i] \in Others(t)
    <3> SUFFICES ASSUME NEW i \in 1..Len(queue) PROVE queue[i] \in Others(t)
      OBVIOUS
    <3>1. queue[i] \in Tables
      BY <2>3
    <3>2. HasJob(queue[i])
      BY DEF HasJob
    <3>3. pending[queue[i]] # None
      BY <2>2, <3>1, <3>2 DEF SingleFlight, PendingIffJob
    <3> QED BY <2>2, <3>1, <3>3 DEF Others
  <2>5. Len(queue) <= Cardinality(Others(t))
    BY <2>2, <2>3, <2>4, QueueNoLongerThan DEF SingleFlight, Others
  <2>6. Cardinality(Others(t)) \in Nat /\ QueueMaxSize \in Nat /\ Len(queue) \in Nat
    BY <2>3, FiniteAssumption, FS_Subset, FS_CardinalityType, QueueSizeAssumption
    DEF Others
  <2> QED BY <2>2, <2>5, <2>6
<1>3. CASE UNCHANGED outcome
  BY <1>3
<1>4. \/ \E s \in Requests, t \in Tables, k \in Tokens : GetSnapshot(s, t, k)
      \/ \E s \in Requests : Resume(s)
      \/ UNCHANGED outcome
  BY DEF Next, vars, WaitTimeout, Dequeue, ThreadEnds, JobDone, JobTimeout,
         ZombieEnds, Expire, WarmWakes, WarmRefreshes, Stop, Terminated
<1> QED BY <1>1, <1>2, <1>3, <1>4

\* A call is refused for the global limit only while that many other tables
\* have a refresh pending.
THEOREM FullOnlyOfOthersInvariant == Spec => FullOnlyOfOthers
<1>1. TypeInv /\ SingleFlight /\ [Next]_vars => [OnlyOfOthers]_vars
  BY FullStep
<1> QED
  BY <1>1, TypeInvariant, SingleFlightInvariant, PTL
  DEF Spec, FullOnlyOfOthers, OnlyOfOthers

-----------------------------------------------------------------------------
(* What callers are told *)

\* A call that has not returned has no outcome, and one that has not reached
\* the wait awaits nothing.
OutcomeShape ==
  \A r \in Requests : /\ outcome[r] # "none" => pc[r] = "done"
                      /\ pc[r] = "idle" => waitsOn[r] = None
                      /\ outcome[r] = "none" /\ waitsOn[r] = None => pc[r] = "idle"

CancelHasCause ==
  \A f \in Requests :
    future[f] = "cancelled" =>
      \E s \in Requests :
        waitsOn[s] = f /\ (pc[s] = "expired" \/ outcome[s] = "timeout")

StoppedIdle == stopped => \A w \in Workers : job[w] = None

VerdictInv == OutcomeShape /\ CancelHasCause /\ CancelledOnlyByPeer /\ StoppedIdle

\* What a call is told agrees with the future it awaited, and a cancelled future
\* has a caller that ran out of time.
THEOREM VerdictInvariant == Spec => []VerdictInv
<1> USE NoneAssumption
    DEF VerdictInv, OutcomeShape, CancelHasCause, CancelledOnlyByPeer, StoppedIdle
<1>1. Init => VerdictInv
  BY DEF Init
<1>2. TypeInv /\ FlightInv /\ VerdictInv /\ [Next]_vars => VerdictInv'
  <2> SUFFICES ASSUME TypeInv, FlightInv, VerdictInv, [Next]_vars
               PROVE  VerdictInv'
    OBVIOUS
  <2> USE DEF TypeInv, WorkerShape, TypeOK, callVars, workVars, backVars
  <2>1. ASSUME NEW r \in Requests, NEW t \in Tables, NEW k \in Tokens,
               GetSnapshot(r, t, k)
        PROVE  VerdictInv'
    <3>1. CASE CacheLookupEnds(r, t, k) \/ RejectToken(r, t, k)
               \/ RejectQueueFull(r, t, k)
      <4>1. PICK v \in {"cached", "failed", "tokenFull", "queueFull"} :
              /\ pc[r] = "idle" /\ ~stopped
              /\ pc' = [pc EXCEPT ![r] = "done"]
              /\ outcome' = [outcome EXCEPT ![r] = v]
              /\ UNCHANGED <<waitsOn, future, job, stopped>>
        BY <3>1 DEF CacheLookupEnds, RejectToken, RejectQueueFull, Arrive, Answer
      <4>2. outcome[r] = "none" /\ waitsOn[r] = None
        BY <4>1
      <4>3. OutcomeShape' /\ StoppedIdle'
        BY <4>1
      <4>4. CancelHasCause'
        BY <4>1, <4>2
      <4>5. CancelledOnlyByPeer'
        BY <4>1, <4>2
      <4> QED BY <4>3, <4>4, <4>5
    <3>2. CASE Enqueue(r, t, k) \/ Join(r, t, k)
      <4>1. PICK f \in Requests :
              /\ pc[r] = "idle" /\ ~stopped
              /\ pc' = [pc EXCEPT ![r] = "waiting"]
              /\ waitsOn' = [waitsOn EXCEPT ![r] = f]
              /\ \A q \in Requests : future'[q] = "cancelled" => future[q] = "cancelled"
              /\ UNCHANGED <<outcome, job, stopped>>
        BY <3>2 DEF Enqueue, Join, Arrive, Wait
      <4>2. outcome[r] = "none" /\ waitsOn[r] = None
        BY <4>1
      <4>3. OutcomeShape' /\ StoppedIdle'
        BY <4>1
      <4>4. CancelHasCause'
        BY <4>1, <4>2
      <4>5. CancelledOnlyByPeer'
        <5>1. ASSUME NEW q \in Requests, outcome'[q] = "cancelled"
              PROVE  \E s \in Requests \ {q} :
                       /\ waitsOn'[s] = waitsOn'[q]
                       /\ pc'[s] = "expired" \/ outcome'[s] = "timeout"
          <6>1. PICK s \in Requests \ {q} :
                  /\ waitsOn[s] = waitsOn[q]
                  /\ pc[s] = "expired" \/ outcome[s] = "timeout"
            BY <4>1, <5>1
          <6>2. q # r /\ s # r
            BY <4>1, <4>2, <5>1, <6>1
          <6> QED BY <4>1, <6>1, <6>2
        <5> QED BY <5>1
      <4> QED BY <4>3, <4>4, <4>5
    <3> QED BY <2>1, <3>1, <3>2 DEF GetSnapshot
  <2>2. ASSUME NEW r \in Requests, WaitTimeout(r) PROVE VerdictInv'
    <3>1. PICK f \in Requests : waitsOn[r] = f
      BY <2>2 DEF WaitTimeout, FlightInv, WaitShape, InWait
    <3>2. /\ pc[r] = "waiting" /\ waitsOn[r] = f
          /\ pc' = [pc EXCEPT ![r] = "expired"]
          /\ \A q \in Requests \ {f} : future'[q] = future[q]
          /\ UNCHANGED <<waitsOn, outcome, job, stopped>>
      BY <2>2, <3>1 DEF WaitTimeout
    <3>3. OutcomeShape' /\ StoppedIdle' /\ CancelledOnlyByPeer'
      BY <3>2
    <3>4. CancelHasCause'
      BY <3>2
    <3> QED BY <3>3, <3>4
  <2>3. ASSUME NEW r \in Requests, Resume(r) PROVE VerdictInv'
    <3>1. /\ InWait(r)
          /\ pc' = [pc EXCEPT ![r] = "done"]
          /\ outcome' = [outcome EXCEPT ![r] = WaitEnd(r)]
          /\ UNCHANGED <<waitsOn, future, job, stopped>>
      BY <2>3 DEF Resume, Answer, InWait
    <3>2. PICK f \in Requests : waitsOn[r] = f
      BY <3>1 DEF FlightInv, WaitShape
    <3>3. outcome[r] = "none"
      BY <3>1 DEF InWait
    <3>4. /\ WaitEnd(r) \in {"timeout", "refreshed", "failed", "cancelled"}
          /\ pc[r] = "expired" => WaitEnd(r) = "timeout"
          /\ WaitEnd(r) = "cancelled" => pc[r] = "waiting" /\ future[f] = "cancelled"
      <4>1. future[f] \in {"result", "error", "cancelled"} \/ pc[r] = "expired"
        BY <2>3, <3>2 DEF Resume, FlightInv, AwaitedExists, FutureStates
      <4> QED BY <3>1, <3>2, <4>1 DEF WaitEnd, InWait
    <3>5. OutcomeShape' /\ StoppedIdle'
      BY <3>1, <3>2, <3>4
    <3>6. CancelHasCause'
      BY <3>1, <3>3, <3>4 DEF InWait
    <3>7. CancelledOnlyByPeer'
      <4> SUFFICES ASSUME NEW q \in Requests, outcome'[q] = "cancelled"
                   PROVE  \E s \in Requests \ {q} :
                            /\ waitsOn'[s] = waitsOn'[q]
                            /\ pc'[s] = "expired" \/ outcome'[s] = "timeout"
        OBVIOUS
      <4>1. CASE q = r
        <5>1. WaitEnd(r) = "cancelled"
          BY <3>1, <4>1
        <5>2. PICK s \in Requests :
                waitsOn[s] = f /\ (pc[s] = "expired" \/ outcome[s] = "timeout")
          BY <3>4, <5>1
        <5>3. s # r
          BY <3>3, <3>4, <5>1, <5>2
        <5> QED BY <3>1, <3>2, <4>1, <5>2, <5>3
      <4>2. CASE q # r
        <5>1. PICK s \in Requests \ {q} :
                /\ waitsOn[s] = waitsOn[q]
                /\ pc[s] = "expired" \/ outcome[s] = "timeout"
          BY <3>1, <4>2
        <5> QED BY <3>1, <3>3, <3>4, <5>1
      <4> QED BY <4>1, <4>2
    <3> QED BY <3>5, <3>6, <3>7
  <2>4. ASSUME NEW w \in Workers, JobDone(w) \/ JobTimeout(w)
        PROVE  VerdictInv'
    <3>1. PICK t \in Tables, how \in {"result", "error"} :
            /\ Resolve(t, how)
            /\ job' = [job EXCEPT ![w] = None]
            /\ UNCHANGED <<pc, waitsOn, outcome, stopped>>
      BY <2>4 DEF JobDone, JobTimeout, ThreadStates
    <3>2. \A q \in Requests : future'[q] = "cancelled" => future[q] = "cancelled"
      BY <3>1 DEF Resolve
    <3> QED BY <3>1, <3>2
  <2>5. CASE Stop
    BY <2>5 DEF Stop
  <2>6. ASSUME NEW w \in Workers, Dequeue(w) PROVE VerdictInv'
    BY <2>6 DEF Dequeue
  <2>7. CASE UNCHANGED <<pc, waitsOn, outcome, future, job, stopped>>
    BY <2>7
  <2>8. \/ \E r \in Requests, t \in Tables, k \in Tokens : GetSnapshot(r, t, k)
        \/ \E r \in Requests : WaitTimeout(r) \/ Resume(r)
        \/ \E w \in Workers : Dequeue(w) \/ JobDone(w) \/ JobTimeout(w)
        \/ Stop
        \/ UNCHANGED <<pc, waitsOn, outcome, future, job, stopped>>
    BY DEF Next, vars, ThreadEnds, ZombieEnds, Expire, WarmWakes,
           WarmRefreshes, Terminated
  <2> QED BY <2>1, <2>2, <2>3, <2>4, <2>5, <2>6, <2>7, <2>8
<1> QED BY <1>1, <1>2, TypeInvariant, FlightInvariant, PTL DEF Spec

\* A call is cancelled only because a peer on its future ran out of time.
THEOREM CancelledOnlyByPeerInvariant == Spec => []CancelledOnlyByPeer
BY VerdictInvariant, PTL DEF VerdictInv

-----------------------------------------------------------------------------
(* The queue implements SharedFlight *)

Late == {r \in Requests : pc[r] = "expired" \/ outcome[r] = "timeout"}

\* Whatever the queue, the workers, the threads and the caches do, each caller
\* is told what the fate of the one flight it boarded, or its own time, implies.
THEOREM QueueImplementsFlight == Spec => FlightSpec
<1> USE NoneAssumption
<1>1. Init => Flight!Init
  BY DEF Init, Flight!Init
<1>2. TypeInv /\ SingleFlight /\ FlightInv /\ VerdictInv /\ [Next]_vars
        => [Flight!Next]_(Flight!vars)
  <2> SUFFICES ASSUME TypeInv, SingleFlight, FlightInv, VerdictInv, [Next]_vars
               PROVE  Flight!Next \/ UNCHANGED Flight!vars
    OBVIOUS
  <2> DEFINE Still == UNCHANGED <<pending, future, waitsOn, pc, outcome>>
  <2>0. Late' = Late /\ UNCHANGED <<pending, future, waitsOn, outcome>>
          => UNCHANGED Flight!vars
    BY DEF Late, Flight!vars
  <2> USE DEF TypeInv, TypeOK, callVars, workVars, backVars
  <2>1. ASSUME NEW r \in Requests, NEW t \in Tables, NEW k \in Tokens,
               GetSnapshot(r, t, k)
        PROVE  Flight!Next
    <3>1. pc[r] = "idle" /\ outcome[r] = "none" /\ waitsOn[r] = None
      BY <2>1 DEF GetSnapshot, CacheLookupEnds, RejectToken, RejectQueueFull,
                  Enqueue, Join, Arrive, VerdictInv, OutcomeShape
    <3>2. Flight!Unserved(r)
      BY <3>1 DEF Flight!Unserved
    <3>3. CASE CacheLookupEnds(r, t, k) \/ RejectToken(r, t, k)
               \/ RejectQueueFull(r, t, k)
      <4>1. PICK v \in Flight!Immediate :
              /\ pc' = [pc EXCEPT ![r] = "done"]
              /\ outcome' = [outcome EXCEPT ![r] = v]
              /\ UNCHANGED <<waitsOn, future, pending>>
        BY <3>3 DEF CacheLookupEnds, RejectToken, RejectQueueFull, Arrive,
                    Answer, Flight!Immediate
      <4>2. Late' = Late
        BY <3>1, <4>1 DEF Late, Flight!Immediate
      <4>3. Flight!AnswerAtOnce(r)
        BY <3>2, <4>1, <4>2 DEF Flight!AnswerAtOnce, Late
      <4> QED BY <4>3 DEF Flight!Next
    <3>4. CASE Enqueue(r, t, k)
      <4>1. Late' = Late
        BY <3>1, <3>4 DEF Enqueue, Wait, Late
      <4>2. Flight!Launch(r, t)
        BY <3>2, <3>4, <4>1 DEF Enqueue, Wait, Flight!Launch, Late
      <4> QED BY <4>2 DEF Flight!Next
    <3>5. CASE Join(r, t, k)
      <4>1. Late' = Late
        BY <3>1, <3>5 DEF Join, Wait, Late
      <4>2. Flight!Board(r, t)
        BY <3>2, <3>5, <4>1 DEF Join, Wait, Flight!Board, Late
      <4> QED BY <4>2 DEF Flight!Next
    <3> QED BY <2>1, <3>3, <3>4, <3>5 DEF GetSnapshot
  <2>2. ASSUME NEW r \in Requests, WaitTimeout(r) PROVE Flight!Next
    <3>1. waitsOn[r] # None /\ outcome[r] = "none"
      BY <2>2 DEF WaitTimeout, FlightInv, WaitShape, InWait, VerdictInv,
                  OutcomeShape
    <3>2. r \notin Late /\ Late' = Late \cup {r}
      BY <2>2, <3>1 DEF WaitTimeout, Late
    <3>3. Flight!RunOutOfTime(r)
      BY <2>2, <3>1, <3>2 DEF WaitTimeout, Flight!RunOutOfTime, Flight!Settle, Late
    <3> QED BY <3>3 DEF Flight!Next
  <2>3. ASSUME NEW r \in Requests, Resume(r) PROVE Flight!Next
    <3>1. waitsOn[r] \in Requests /\ outcome[r] = "none" /\ future[waitsOn[r]] # "none"
      BY <2>3 DEF Resume, FlightInv, WaitShape, AwaitedExists, InWait,
                  VerdictInv, OutcomeShape
    <3>2. /\ outcome' = [outcome EXCEPT ![r] = WaitEnd(r)]
          /\ pc' = [pc EXCEPT ![r] = "done"]
          /\ UNCHANGED <<pending, future, waitsOn>>
      BY <2>3 DEF Resume, Answer
    <3>3. CASE pc[r] = "expired"
      <4>1. WaitEnd(r) = "timeout"
        BY <3>3 DEF WaitEnd
      <4>2. Late' = Late /\ r \in Late
        BY <3>2, <3>3, <4>1 DEF Late
      <4>3. Flight!Disembark(r)
        BY <3>1, <3>2, <4>1, <4>2 DEF Flight!Disembark, Late
      <4> QED BY <4>3 DEF Flight!Next
    <3>4. CASE pc[r] = "waiting"
      <4>1. future[waitsOn[r]] \in {"result", "error", "cancelled"}
        BY <2>3, <3>1, <3>4 DEF Resume, FutureStates
      <4>2. /\ WaitEnd(r) # "timeout"
            /\ future[waitsOn[r]] \in DOMAIN Flight!VerdictOf
            /\ WaitEnd(r) = Flight!VerdictOf[future[waitsOn[r]]]
        BY <3>4, <4>1 DEF WaitEnd, Flight!VerdictOf
      <4>3. Late' = Late /\ r \notin Late
        BY <3>1, <3>2, <3>4, <4>2 DEF Late
      <4>4. Flight!Disembark(r)
        BY <3>1, <3>2, <4>2, <4>3 DEF Flight!Disembark, Late
      <4> QED BY <4>4 DEF Flight!Next
    <3> QED BY <2>3, <3>3, <3>4 DEF Resume
  <2>4. ASSUME NEW w \in Workers, JobDone(w) \/ JobTimeout(w) PROVE Flight!Next
    <3>1. PICK t \in Tables, how \in {"result", "error"} :
            /\ job[w] = t
            /\ Resolve(t, how)
            /\ UNCHANGED <<pc, waitsOn, outcome>>
      BY <2>4 DEF JobDone, JobTimeout, ThreadStates, WorkerShape
    <3>2. pending[t] # None
      BY <3>1 DEF VerdictInv, StoppedIdle, SingleFlight, PendingIffJob, HasJob
    <3>3. Late' = Late
      BY <3>1 DEF Late
    <3>4. Flight!Land(t)
      BY <3>1, <3>2, <3>3 DEF Resolve, Flight!Land, Flight!Settle, Late
    <3> QED BY <3>4 DEF Flight!Next
  <2>5. CASE Still
    <3>1. Late' = Late
      BY <2>5 DEF Late
    <3> QED BY <2>0, <2>5, <3>1
  <2>6. \/ \E r \in Requests, t \in Tables, k \in Tokens : GetSnapshot(r, t, k)
        \/ \E r \in Requests : WaitTimeout(r) \/ Resume(r)
        \/ \E w \in Workers : JobDone(w) \/ JobTimeout(w)
        \/ Still
    BY DEF Next, vars, Dequeue, ThreadEnds, ZombieEnds, Expire, WarmWakes,
           WarmRefreshes, Stop, Terminated
  <2> QED BY <2>1, <2>2, <2>3, <2>4, <2>5, <2>6
<1> QED
  BY <1>1, <1>2, TypeInvariant, SingleFlightInvariant, FlightInvariant,
     VerdictInvariant, PTL
  DEF Spec, FlightSpec, Flight!Spec
=============================================================================
