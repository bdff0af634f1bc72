--------------------------- MODULE SnapshotCache ---------------------------
(***************************************************************************)
(* The two caches of one table's snapshot in src/app/snapshot_service.py:  *)
(* the process's own memory and the entry in redis.                        *)
(*                                                                         *)
(* get_cached_snapshot runs on the event loop, one call at a time, and     *)
(* blocks it.  refresh_snapshot runs in threads: those of the workers, of  *)
(* the warm loop and of jobs nobody waits for any more, so that refreshes  *)
(* of a table overlap each other and the reader.  A snapshot is            *)
(* represented by the time at which its rows were read, its birth.         *)
(***************************************************************************)
EXTENDS Integers

CONSTANTS
  Threads,   \* threads that may refresh the table
  CacheTTL,  \* cache_ttl_seconds
  RedisTTL,  \* TTL of the redis entry
  MaxJob,    \* bound on the time from reading the rows to the SETEX
  MaxGet,    \* bound on the time redis takes to answer a GET
  MaxTime,   \* bound on the clock
  None

ASSUME TimeAssumption ==
  /\ CacheTTL \in Nat /\ RedisTTL \in Nat \ {0}
  /\ MaxJob \in Nat /\ MaxGet \in Nat /\ MaxTime \in Nat
ASSUME NoneAssumption == None \notin Nat

VARIABLES
  now,
  memory,      \* birth of the snapshot in _memory, or None
  stamp,       \* when that entry was stored
  redis,       \* birth of the snapshot in redis, or None
  expiry,      \* when that entry expires
  pc,          \* where each thread is in refresh_snapshot
  rows,        \* birth of the snapshot it holds
  reading,     \* the reader has asked redis, and awaits the answer
  asked,       \* when redis answered it
  payload,     \* birth of the snapshot redis gave it
  served,      \* birth of the last snapshot served
  newest,      \* history: the youngest snapshot ever served
  overlapped,  \* history: memory was written while others were on their way
  unshared     \* history: a snapshot was stored in memory and not in redis

memVars    == <<memory, stamp>>
redisVars  == <<redis, expiry>>
jobVars    == <<pc, rows>>
readerVars == <<reading, asked, payload>>
servedVars == <<served, newest>>
vars == <<now, memVars, redisVars, jobVars, readerVars, servedVars, overlapped,
          unshared>>

Births == Nat \cup {None}

TypeOK ==
  /\ now \in Nat
  /\ memory \in Births /\ stamp \in 0..now
  /\ redis \in Births /\ expiry \in Nat
  /\ pc \in [Threads -> {"idle", "read", "stored"}]
  /\ rows \in [Threads -> Births]
  /\ reading \in BOOLEAN /\ asked \in Nat /\ payload \in Births
  /\ served \in Births /\ newest \in Births
  /\ overlapped \in BOOLEAN /\ unshared \in BOOLEAN

Init ==
  /\ now = 0
  /\ memory = None /\ stamp = 0
  /\ redis = None /\ expiry = 0
  /\ pc = [t \in Threads |-> "idle"]
  /\ rows = [t \in Threads |-> None]
  /\ reading = FALSE /\ asked = 0 /\ payload = None
  /\ served = None /\ newest = None
  /\ overlapped = FALSE /\ unshared = FALSE

-----------------------------------------------------------------------------
(* get_cached_snapshot *)

Serve(birth) ==
  /\ served' = birth
  /\ newest' = IF newest = None THEN birth
               ELSE IF birth > newest THEN birth ELSE newest

Fresh == memory # None /\ now - stamp <= CacheTTL

\* Faulty variant: a hit in memory renews the entry.
ServeMemorySliding ==
  /\ ~reading /\ Fresh
  /\ Serve(memory)
  /\ stamp' = now
  /\ UNCHANGED <<now, memory, redisVars, jobVars, readerVars, overlapped, unshared>>

ServeMemory ==
  /\ ~reading /\ Fresh
  /\ Serve(memory)
  /\ UNCHANGED <<now, memVars, redisVars, jobVars, readerVars, overlapped, unshared>>

\* The memory has nothing fresh: redis is asked.
GetRedis ==
  /\ ~reading /\ ~Fresh
  /\ redis # None
  /\ reading' = TRUE /\ asked' = now /\ payload' = redis
  /\ UNCHANGED <<now, memVars, redisVars, jobVars, servedVars, overlapped, unshared>>

\* The payload is stored with a stamp of its own, whatever memory holds by now.
ServeRedis ==
  /\ reading
  /\ reading' = FALSE /\ payload' = None
  /\ memory' = payload /\ stamp' = now
  /\ Serve(payload)
  /\ UNCHANGED <<now, redisVars, jobVars, asked, overlapped, unshared>>

\* The answer does not arrive or does not decode: the caller gets an error, or
\* goes on to the queue.
GetFails ==
  /\ reading
  /\ reading' = FALSE /\ payload' = None
  /\ UNCHANGED <<now, memVars, redisVars, jobVars, asked, servedVars, overlapped,
                 unshared>>

-----------------------------------------------------------------------------
(* refresh_snapshot *)

FetchRows(t) ==
  /\ pc[t] = "idle"
  /\ pc' = [pc EXCEPT ![t] = "read"]
  /\ rows' = [rows EXCEPT ![t] = now]
  /\ UNCHANGED <<now, memVars, redisVars, readerVars, servedVars, overlapped,
                 unshared>>

\* Another refresh, or a reader with a payload, is on its way too.
Contended(t) == reading \/ \E u \in Threads \ {t} : pc[u] # "idle"

StoreMemory(t) ==
  /\ pc[t] = "read"
  /\ pc' = [pc EXCEPT ![t] = "stored"]
  /\ memory' = rows[t] /\ stamp' = now
  /\ overlapped' = (overlapped \/ Contended(t))
  /\ UNCHANGED <<now, rows, redisVars, readerVars, servedVars, unshared>>

Leave(t) ==
  /\ pc' = [pc EXCEPT ![t] = "idle"]
  /\ rows' = [rows EXCEPT ![t] = None]

\* The rows go to the calls that wait in the queue for this refresh, if any do.
HandOver(t) == Serve(rows[t]) \/ UNCHANGED servedVars

\* Faulty variant: an entry that is still alive is not replaced.
StoreRedisOnce(t) ==
  /\ pc[t] = "stored"
  /\ Leave(t)
  /\ \/ redis = None /\ redis' = rows[t] /\ expiry' = now + RedisTTL
     \/ redis # None /\ UNCHANGED redisVars
  /\ HandOver(t)
  /\ UNCHANGED <<now, memVars, readerVars, overlapped, unshared>>

StoreRedis(t) ==
  /\ pc[t] = "stored"
  /\ Leave(t)
  /\ redis' = rows[t] /\ expiry' = now + RedisTTL
  /\ HandOver(t)
  /\ UNCHANGED <<now, memVars, readerVars, overlapped, unshared>>

\* The query raises or returns nothing, or the SETEX raises.
RefreshFails(t) ==
  /\ pc[t] # "idle"
  /\ Leave(t)
  /\ unshared' = (unshared \/ pc[t] = "stored")
  /\ UNCHANGED <<now, memVars, redisVars, readerVars, servedVars, overlapped>>

-----------------------------------------------------------------------------
(* Time, and a restart of the process *)

Tick ==
  /\ now < MaxTime
  /\ reading => now - asked < MaxGet
  /\ \A t \in Threads : pc[t] # "idle" => now - rows[t] < MaxJob
  /\ now' = now + 1
  /\ redis' = IF now + 1 >= expiry THEN None ELSE redis
  /\ UNCHANGED <<memVars, expiry, jobVars, readerVars, servedVars, overlapped,
                 unshared>>

Restart ==
  /\ memory' = None
  /\ pc' = [t \in Threads |-> "idle"] /\ rows' = [t \in Threads |-> None]
  /\ reading' = FALSE /\ payload' = None
  /\ unshared' = (unshared \/ \E t \in Threads : pc[t] = "stored")
  /\ UNCHANGED <<now, stamp, redisVars, asked, servedVars, overlapped>>

Read == ServeMemory \/ GetRedis \/ ServeRedis \/ GetFails
Refresh(t) == FetchRows(t) \/ StoreMemory(t) \/ StoreRedis(t) \/ RefreshFails(t)

Next ==
  \/ Read
  \/ \E t \in Threads : Refresh(t)
  \/ Tick
  \/ Restart

Spec == Init /\ [][Next]_vars

-----------------------------------------------------------------------------
(* What the caches promise *)

\* How old the data of a memory entry can be when it is stored.
StoredAge == MaxJob + RedisTTL + MaxGet

\* However refreshes overlap, fail and restart, what memory serves was read
\* from the database less than a memory lifetime, a redis lifetime and one
\* refresh ago: a payload from redis starts a second lifetime in memory, but
\* never a third (snapshot_service.py 53, 70, 104-105).
BoundedStaleness ==
  memory # None /\ Fresh => now - memory < StoredAge + CacheTTL

\* Served data never goes back to older rows, unless two stores overlapped or
\* a snapshot that reached memory never reached redis (snapshot_service.py
\* 70, 104-105).
NoRegress ==
  [][newest # None /\ ~overlapped /\ ~unshared => served' >= newest]_servedVars
=============================================================================
