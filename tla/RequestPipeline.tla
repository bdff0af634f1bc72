-------------------------- MODULE RequestPipeline --------------------------
(***************************************************************************)
(* A service process as a whole: requests for one table by the clients of    *)
(* one token go through the gate (TokenGate), the refresh queue (QueryQueue) *)
(* and the pool of database connections, in the order of the dependency and  *)
(* of _fetch_table_payload; startup, shutdown and death of the process end   *)
(* what all of them are doing.                                               *)
(*                                                                         *)
(* A request checks for a conflict three times: before it asks for the       *)
(* snapshot, after it has it, and after filtering.  While it waits for the   *)
(* snapshot, time passes for its lock.                                       *)
(*                                                                         *)
(* The pool hands out MaxConn connections and raises when they are out.  A   *)
(* connection is held by a request that loads its token's row and by each    *)
(* thread that refreshes a snapshot, whether somebody awaits it or not.  The  *)
(* warm loop is left to QueryQueue: it is one more such thread, and its       *)
(* stores come like those of an abandoned one.                                *)
(***************************************************************************)
EXTENDS TokenGate, Sequences

CONSTANTS
  Tables, Workers, QueueMaxSize, \* see QueryQueue
  Token,      \* the requests' token
  MaxQueue,   \* its quota_max_queue
  MaxConn     \* db_pool_maxconn

ASSUME FiniteSetsAssumption ==
  IsFiniteSet(Requests) /\ IsFiniteSet(Tables) /\ IsFiniteSet(Workers)
ASSUME NamesAssumption == None \notin Tables /\ Requests \cap Workers = {}
ASSUME LimitsAssumption ==
  QueueMaxSize \in Nat \ {0} /\ MaxQueue \in Int /\ MaxConn \in Nat

VARIABLES
  fresh, qpc, table, token, waitsOn, answer, future, pending, queue,
  tokenWaiters, job, thread, zombies, stopped, \* see QueryQueue
  conn,       \* the requests and threads that hold a connection, other than
              \* the abandoned threads
  used        \* connections that the pool has handed out

Queue == INSTANCE QueryQueue WITH
  Tokens <- {Token}, MaxQueueOf <- [k \in {Token} |-> MaxQueue],
  pc <- qpc, outcome <- answer, warm <- 0, TableSeq <- <<>>

queueVars == <<fresh, qpc, table, token, waitsOn, answer, future, pending, queue,
               tokenWaiters, job, thread, zombies, stopped>>
poolVars == <<conn, used>>
pipeVars == <<vars, queueVars, poolVars>>

PipeInit == Init /\ Queue!Init /\ conn = {} /\ used = 0

-----------------------------------------------------------------------------
(* The pool: getconn at the start of Database.connection, putconn in its     *)
(* finally clause                                                            *)

\* getconn, which raises when every connection is out.
Get(user) ==
  IF used < MaxConn
  THEN used' = used + 1 /\ conn' = conn \cup {user}
  ELSE UNCHANGED poolVars

\* Faulty variant: the connection goes back only if nothing was raised.
PutUnlessRaised(user, raised) ==
  /\ conn' = conn \ {user}
  /\ used' = IF user \in conn /\ ~raised THEN used - 1 ELSE used

Put(user, raised) ==
  /\ conn' = conn \ {user}
  /\ used' = IF user \in conn THEN used - 1 ELSE used

\* A thread that its task gives up keeps the connection.
Orphan(users) == conn' = conn \ users /\ UNCHANGED used

-----------------------------------------------------------------------------
(* A request *)

\* The dependency, up to the grant.  Without a connection the row cannot be
\* read.
Arrive(r) ==
  \/ CacheMiss(r) /\ Get(r)
  \/ CacheHit(r) /\ UNCHANGED poolVars

Advance(r) ==
  /\ \/ StoreContext(r) /\ r \in conn /\ Put(r, FALSE)
     \/ Refuse(r) /\ Put(r, TRUE)
     \/ (Acquire(r) \/ SetActive(r)) /\ UNCHANGED poolVars
  /\ UNCHANGED queueVars

\* A bind takes a connection for its one statement.
Bind(r) == Invalidate(r) /\ used < MaxConn

Depend(r) ==
  \/ ~stopped /\ Arrive(r) /\ UNCHANGED queueVars
  \/ Advance(r)
  \/ (Bind(r) \/ GrantReplyLost(r)) /\ UNCHANGED <<queueVars, poolVars>>

\* The second check comes after the snapshot.
Snapshot(r) == pc[r] = "ready" /\ checks[r] = 2

\* Fetching or waiting: the endpoint is suspended in get_snapshot.
Fetching(r) == Snapshot(r) /\ qpc[r] \notin {"idle", "done"}

Got(r) == answer[r] \in {"cached", "refreshed"}

Ask(r) ==
  /\ Snapshot(r)
  /\ \E t \in Tables : Queue!GetSnapshot(r, t, Token)
  /\ UNCHANGED <<vars, poolVars>>

Wait(r) ==
  /\ Queue!WaitTimeout(r) \/ Queue!Resume(r)
  /\ UNCHANGED <<vars, poolVars>>

CheckPoint(r) ==
  /\ Snapshot(r) => Got(r)
  /\ CheckOwner(r) \/ CheckConflict(r) \/ ClearConflict(r)
  /\ UNCHANGED <<queueVars, poolVars>>

\* An exception of the queue, or of a redis call, ends the endpoint.
GiveUp(r) ==
  /\ ~Fetching(r)
  /\ Raise(r)
  /\ UNCHANGED <<queueVars, poolVars>>

NoSnapshot(r) == Snapshot(r) /\ qpc[r] = "done" /\ ~Got(r) /\ GiveUp(r)

Free(r) == Release(r) /\ UNCHANGED <<queueVars, poolVars>>

Request(r) ==
  Depend(r) \/ Ask(r) \/ Wait(r) \/ CheckPoint(r) \/ GiveUp(r) \/ Free(r)

-----------------------------------------------------------------------------
(* The refreshing threads *)

StartJob(w) == Queue!Dequeue(w) /\ Get(w) /\ UNCHANGED vars

\* A thread that gets no connection fails at once.
EndJob(w) ==
  /\ Queue!ThreadEnds(w)
  /\ w \notin conn => thread'[w] = "failed" /\ fresh' = fresh
  /\ Put(w, thread'[w] = "failed")
  /\ UNCHANGED vars

FailJob(w) == w \notin conn /\ EndJob(w)

ReportJob(w) == Queue!JobDone(w) /\ UNCHANGED <<vars, poolVars>>

AbandonJob(w) ==
  /\ thread[w] = "running" => w \in conn
  /\ Queue!JobTimeout(w)
  /\ Orphan({w})
  /\ UNCHANGED vars

EndOrphan(t) ==
  /\ Queue!ZombieEnds(t)
  /\ used' = IF stopped THEN used ELSE used - 1
  /\ UNCHANGED <<vars, conn>>

Refresh(w) == StartJob(w) \/ EndJob(w) \/ ReportJob(w) \/ AbandonJob(w)

-----------------------------------------------------------------------------
(* The process *)

\* on_shutdown, after the requests have been answered: the queue is stopped,
\* and the pool closed under the threads that are left.
ShutDown ==
  /\ \A r \in Requests : pc[r] \in {"idle", "done"}
  /\ Queue!Stop
  /\ Orphan(conn)
  /\ UNCHANGED vars

\* What is in memory is gone; redis keeps the snapshots, and the locks.
Die ==
  /\ Crash
  /\ qpc' = [r \in Requests |-> IF qpc[r] = "idle" THEN "idle" ELSE "done"]
  /\ waitsOn' = [r \in Requests |-> None]
  /\ future' = [r \in Requests |-> "none"]
  /\ pending' = [t \in Tables |-> None]
  /\ queue' = <<>>
  /\ tokenWaiters' = [k \in {Token} |-> 0]
  /\ job' = [w \in Workers |-> None]
  /\ thread' = [w \in Workers |-> "idle"]
  /\ zombies' = [t \in Tables |-> 0]
  /\ conn' = {} /\ used' = 0
  /\ UNCHANGED <<fresh, table, token, answer, stopped>>

PassTime ==
  /\ Tick
  /\ UNCHANGED <<queueVars, poolVars>>

Age(t) == Queue!Expire(t) /\ UNCHANGED <<vars, poolVars>>

Over == Queue!Terminated /\ UNCHANGED <<vars, poolVars>>

PipeNext ==
  \/ \E r \in Requests : Request(r)
  \/ \E w \in Workers : Refresh(w)
  \/ \E t \in Tables : EndOrphan(t) \/ Age(t)
  \/ ShutDown \/ Die \/ PassTime \/ Over

PipeSpec == PipeInit /\ [][PipeNext]_pipeVars

\* The event loop runs what is ready and fires its timers; the server's
\* threads run the dependency and its exit; time passes.  Nothing is assumed
\* of the database once a thread has a connection: a refresh may hang.
Proceed(r) ==
  Advance(r) \/ Ask(r) \/ Wait(r) \/ CheckPoint(r) \/ NoSnapshot(r) \/ Free(r)

Attend(w) == StartJob(w) \/ FailJob(w) \/ ReportJob(w) \/ AbandonJob(w)

PipeFairness ==
  /\ WF_pipeVars(PassTime)
  /\ \A r \in Requests : WF_pipeVars(Proceed(r))
  /\ \A w \in Workers : WF_pipeVars(Attend(w))

PipeFairSpec == PipeSpec /\ PipeFairness

-----------------------------------------------------------------------------
(* What the process promises *)

\* The gate keeps the queue's own limit out of sight: as long as no lock runs
\* out under its request, a token never meets its queue quota, however its
\* requests end (auth.py 676, query_queue.py 58-61, 76-80).
QuotaOutOfSight ==
  overrun = {} => \A r \in Requests : answer[r] # "tokenFull"

\* The abandoned threads, numbered for each table.
Orphans == UNION {{t} \X (1..zombies[t]) : t \in Tables}

\* Who may need a connection now.
Users ==
  {r \in Requests : pc[r] = "loading"} \cup {w \in Workers : thread[w] = "running"}

\* No failure, time-out or death on the way through dependency and refresh
\* loses a connection for good: while the service runs, each one that is out is
\* held by a request or thread that is still at the database, and there are
\* never more of them than the pool allows (db.py 32-49).
PoolBalance ==
  ~stopped => /\ conn \subseteq Users
              /\ used = Cardinality(conn) + Cardinality(Orphans)
              /\ used <= MaxConn

\* Whatever fails, hangs or dies, everything that was begun ends: the requests
\* that were granted the token are answered and the token is free again, and no
\* refresh stays pending, even if the database never answers and the pool is
\* empty (auth.py 647-659, 676-680; query_queue.py 82-95; main.py 94-122).
ComesToRest ==
  <>[](/\ lock = None
       /\ \A r \in Requests : ~Active(r)
       /\ stopped \/ \A t \in Tables : pending[t] = None)
=============================================================================
