------------------------ MODULE SnapshotCacheProofs ------------------------
(***************************************************************************)
(* Proofs about SnapshotCache: its state is well-typed, what memory serves *)
(* is never older than the lifetimes of the two caches allow, and it never *)
(* goes back in time while stores do not overlap and reach both caches.    *)
(***************************************************************************)
EXTENDS SnapshotCache, TLAPS

\* The parts of the inductive invariant, one for each place a snapshot can be
\* in: how old it is there at most.
MemoryAge == memory # None => stamp - memory < StoredAge
RedisAge  == redis # None => now < expiry /\ expiry - redis <= MaxJob + RedisTTL
PayloadAge ==
  reading => /\ payload \in Nat
             /\ asked - payload < MaxJob + RedisTTL
             /\ now - asked <= MaxGet
RowsAge ==
  \A t \in Threads : pc[t] # "idle" => rows[t] \in Nat /\ now - rows[t] <= MaxJob

Ages == MemoryAge /\ RedisAge /\ PayloadAge /\ RowsAge

\* The state is well-typed, and no memory entry was stored in the future
\* (snapshot_service.py 70, 104).
THEOREM TypeInvariant == Spec => [](TypeOK /\ RowsAge)
<1> USE TimeAssumption, NoneAssumption DEF TypeOK, Births, RowsAge
<1>1. Init => TypeOK /\ RowsAge
  <2> SUFFICES ASSUME Init PROVE TypeOK /\ RowsAge
    OBVIOUS
  <2>1. RowsAge
    BY DEF Init
  <2>2. now \in Nat /\ stamp \in 0..now /\ expiry \in Nat /\ asked \in Nat
    BY DEF Init
  <2>3. memory \in Births /\ redis \in Births /\ payload \in Births
    BY DEF Init
  <2>4. served \in Births /\ newest \in Births
    BY DEF Init
  <2>5. pc \in [Threads -> {"idle", "read", "stored"}] /\ rows \in [Threads -> Births]
    BY DEF Init
  <2>6. reading \in BOOLEAN /\ overlapped \in BOOLEAN /\ unshared \in BOOLEAN
    BY DEF Init
  <2> QED
    BY <2>1, <2>2, <2>3, <2>4, <2>5, <2>6
<1>2. TypeOK /\ RowsAge /\ [Next]_vars => TypeOK' /\ RowsAge'
  <2> SUFFICES ASSUME TypeOK, RowsAge, [Next]_vars PROVE TypeOK' /\ RowsAge'
    OBVIOUS
  <2>1. CASE ServeMemory
    BY <2>1 DEF ServeMemory, Serve, redisVars, memVars, jobVars, readerVars
  <2>2. CASE GetRedis
    BY <2>2 DEF GetRedis, memVars, redisVars, jobVars, servedVars
  <2>3. CASE ServeRedis
    <3>1. served' \in Births /\ newest' \in Births
      BY <2>3 DEF ServeRedis, Serve
    <3>2. memory' \in Births /\ stamp' \in 0..now' /\ payload' \in Births
      BY <2>3 DEF ServeRedis
    <3> QED
      BY <2>3, <3>1, <3>2 DEF ServeRedis, redisVars, jobVars
  <2>4. CASE GetFails
    BY <2>4 DEF GetFails, memVars, redisVars, jobVars, servedVars
  <2>5. ASSUME NEW t \in Threads, FetchRows(t) PROVE TypeOK' /\ RowsAge'
    BY <2>5 DEF FetchRows, memVars, redisVars, readerVars, servedVars
  <2>6. ASSUME NEW t \in Threads, StoreMemory(t) PROVE TypeOK' /\ RowsAge'
    BY <2>6 DEF StoreMemory, redisVars, readerVars, servedVars
  <2>7. ASSUME NEW t \in Threads, StoreRedis(t) PROVE TypeOK' /\ RowsAge'
    <3>1. served' \in Births /\ newest' \in Births
      BY <2>7 DEF StoreRedis, HandOver, Serve, servedVars
    <3>2. redis' \in Births /\ expiry' \in Nat
      BY <2>7 DEF StoreRedis
    <3> QED
      BY <2>7, <3>1, <3>2 DEF StoreRedis, Leave, memVars, readerVars
  <2>8. ASSUME NEW t \in Threads, RefreshFails(t) PROVE TypeOK' /\ RowsAge'
    BY <2>8 DEF RefreshFails, Leave, memVars, redisVars, readerVars, servedVars
  <2>9. CASE Tick
    BY <2>9 DEF Tick, memVars, jobVars, readerVars, servedVars
  <2>10. CASE Restart
    BY <2>10 DEF Restart, redisVars, servedVars
  <2>11. CASE UNCHANGED vars
    BY <2>11 DEF vars, memVars, redisVars, jobVars, readerVars, servedVars
  <2> QED
    BY <2>1, <2>2, <2>3, <2>4, <2>5, <2>6, <2>7, <2>8, <2>9, <2>10, <2>11
       DEF Next, Read, Refresh
<1> QED
  BY <1>1, <1>2, PTL DEF Spec

\* What memory serves was read from the database less than one refresh, one
\* redis lifetime, one GET and one memory lifetime ago, for every number of
\* threads and all values of these bounds (snapshot_service.py 53, 70, 105).
THEOREM StalenessInvariant == Spec => []BoundedStaleness
<1> USE TimeAssumption, NoneAssumption DEF TypeOK, Births, StoredAge
<1>1. Init => Ages
  BY DEF Init, Ages, MemoryAge, RedisAge, PayloadAge, RowsAge
<1>2. TypeOK /\ Ages /\ [Next]_vars => Ages'
  <2> SUFFICES ASSUME TypeOK, Ages, [Next]_vars PROVE Ages'
    OBVIOUS
  <2> USE DEF Ages, MemoryAge, RedisAge, PayloadAge, RowsAge
  <2>1. CASE ServeMemory
    BY <2>1 DEF ServeMemory, redisVars, memVars, jobVars, readerVars
  <2>2. CASE GetRedis
    BY <2>2 DEF GetRedis, memVars, redisVars, jobVars
  <2>3. CASE ServeRedis
    BY <2>3 DEF ServeRedis, redisVars, jobVars
  <2>4. CASE GetFails
    BY <2>4 DEF GetFails, memVars, redisVars, jobVars
  <2>5. ASSUME NEW t \in Threads, FetchRows(t) PROVE Ages'
    BY <2>5 DEF FetchRows, memVars, redisVars, readerVars
  <2>6. ASSUME NEW t \in Threads, StoreMemory(t) PROVE Ages'
    BY <2>6 DEF StoreMemory, redisVars, readerVars
  <2>7. ASSUME NEW t \in Threads, StoreRedis(t) PROVE Ages'
    BY <2>7 DEF StoreRedis, Leave, memVars, readerVars
  <2>8. ASSUME NEW t \in Threads, RefreshFails(t) PROVE Ages'
    BY <2>8 DEF RefreshFails, Leave, memVars, redisVars, readerVars
  <2>9. CASE Tick
    BY <2>9 DEF Tick, memVars, jobVars, readerVars
  <2>10. CASE Restart
    BY <2>10 DEF Restart, redisVars
  <2>11. CASE UNCHANGED vars
    BY <2>11 DEF vars, memVars, redisVars, jobVars, readerVars
  <2> QED
    BY <2>1, <2>2, <2>3, <2>4, <2>5, <2>6, <2>7, <2>8, <2>9, <2>10, <2>11
       DEF Next, Read, Refresh
<1>3. TypeOK /\ Ages => BoundedStaleness
  BY DEF Ages, MemoryAge, BoundedStaleness, Fresh
<1> QED
  BY <1>1, <1>2, <1>3, TypeInvariant, PTL DEF Spec

\* No snapshot is younger than the clock.
Past ==
  /\ \A birth \in {memory, redis, newest} : birth # None => birth <= now
  /\ reading => payload \in Nat /\ payload <= now
  /\ \A t \in Threads : pc[t] # "idle" => rows[t] \in Nat /\ rows[t] <= now

Undisturbed == ~overlapped /\ ~unshared
Storing == \E t \in Threads : pc[t] = "stored"

\* A thread that has read holds the youngest rows there are.
ReadIsYoungest ==
  \A t \in Threads : pc[t] = "read" =>
    /\ \A birth \in {memory, redis, newest} : birth # None => birth <= rows[t]
    /\ reading => payload <= rows[t]

\* A thread between its two stores is alone in this, and memory, which is still
\* fresh, holds its rows, so that no reader asks redis.
StoredIsInMemory ==
  \A t \in Threads : pc[t] = "stored" =>
    /\ memory = rows[t] /\ rows[t] <= stamp /\ ~reading
    /\ \A u \in Threads : pc[u] = "stored" => u = t

\* Otherwise redis has what memory has, and what a reader is about to store.
InStep ==
  /\ ~Storing /\ redis # None => memory \in {None, redis}
  /\ ~Storing /\ redis # None /\ newest # None => redis >= newest
  /\ reading => redis \in {None, payload}
  /\ reading /\ newest # None => payload >= newest
  /\ memory # None /\ newest # None => memory >= newest

Forward == Past /\ (Undisturbed => ReadIsYoungest /\ StoredIsInMemory /\ InStep)

LEMMA ForwardStep ==
  ASSUME MaxJob <= CacheTTL, TypeOK, RowsAge, Forward, [Next]_vars
  PROVE  Forward'
<1> USE TimeAssumption, NoneAssumption DEF TypeOK, Births
<1>1. CASE Read
  <2> USE DEF redisVars, jobVars, readerVars, memVars, servedVars
  <2>1. Past'
    BY <1>1 DEF Read, ServeMemory, GetRedis, ServeRedis, GetFails, Serve, Forward, Past
  <2>2. SUFFICES ASSUME Undisturbed'
                 PROVE  ReadIsYoungest' /\ StoredIsInMemory' /\ InStep'
    BY <2>1 DEF Forward
  <2>3. ReadIsYoungest /\ StoredIsInMemory /\ InStep
    BY <1>1, <2>2
       DEF Read, ServeMemory, GetRedis, ServeRedis, GetFails, Forward, Undisturbed
  <2>4. CASE ServeMemory
    BY <2>3, <2>4 DEF ServeMemory, Serve, Fresh, ReadIsYoungest, StoredIsInMemory,
                      InStep, Storing
  <2>5. CASE GetRedis
    <3>1. ASSUME NEW t \in Threads, pc[t] = "stored" PROVE FALSE
      BY <2>3, <2>5, <3>1 DEF GetRedis, Fresh, StoredIsInMemory, RowsAge
    <3> QED
      BY <2>3, <2>5, <3>1 DEF GetRedis, ReadIsYoungest, StoredIsInMemory, InStep, Storing
  <2>6. CASE ServeRedis
    BY <2>3, <2>6 DEF ServeRedis, Serve, ReadIsYoungest, StoredIsInMemory, InStep, Storing
  <2>7. CASE GetFails
    BY <2>3, <2>7 DEF GetFails, ReadIsYoungest, StoredIsInMemory, InStep, Storing
  <2> QED
    BY <1>1, <2>4, <2>5, <2>6, <2>7 DEF Read
<1>2. ASSUME NEW t \in Threads, FetchRows(t) PROVE Forward'
  <2> USE <1>2 DEF FetchRows, memVars, redisVars, readerVars, servedVars
  <2>1. Past'
    BY DEF Forward, Past
  <2>2. SUFFICES ASSUME Undisturbed'
                 PROVE  ReadIsYoungest' /\ StoredIsInMemory' /\ InStep'
    BY <2>1 DEF Forward
  <2>3. Past /\ ReadIsYoungest /\ StoredIsInMemory /\ InStep
    BY <2>2 DEF Forward, Undisturbed
  <2>4. Storing' <=> Storing
    BY DEF Storing
  <2> QED
    BY <2>3, <2>4 DEF Past, ReadIsYoungest, StoredIsInMemory, InStep
<1>3. ASSUME NEW t \in Threads, StoreMemory(t) PROVE Forward'
  <2> USE <1>3 DEF StoreMemory, redisVars, readerVars, servedVars
  <2>1. Past'
    BY DEF Forward, Past
  <2>2. SUFFICES ASSUME Undisturbed'
                 PROVE  ReadIsYoungest' /\ StoredIsInMemory' /\ InStep'
    BY <2>1 DEF Forward
  <2>3. Past /\ ReadIsYoungest /\ StoredIsInMemory /\ InStep
    BY <2>2 DEF Forward, Undisturbed
  <2>4. ~reading /\ \A u \in Threads \ {t} : pc[u] = "idle"
    BY <2>2 DEF Undisturbed, Contended
  <2> QED
    BY <2>3, <2>4 DEF Past, ReadIsYoungest, StoredIsInMemory, InStep, Storing
<1>4. ASSUME NEW t \in Threads, StoreRedis(t) PROVE Forward'
  <2> USE <1>4 DEF StoreRedis, Leave, memVars, readerVars
  <2>0. rows[t] \in Nat /\ newest' \in {newest, rows[t]}
    BY DEF RowsAge, HandOver, Serve, servedVars
  <2>1. Past'
    BY <2>0 DEF Forward, Past
  <2>2. SUFFICES ASSUME Undisturbed'
                 PROVE  ReadIsYoungest' /\ StoredIsInMemory' /\ InStep'
    BY <2>1 DEF Forward
  <2>3. ReadIsYoungest /\ StoredIsInMemory /\ InStep
    BY <2>2 DEF Forward, Undisturbed
  <2>4. memory = rows[t] /\ ~reading /\ \A u \in Threads \ {t} : pc[u] # "stored"
    BY <2>3 DEF StoredIsInMemory
  <2>5. ReadIsYoungest' /\ StoredIsInMemory'
    BY <2>0, <2>3, <2>4 DEF ReadIsYoungest, StoredIsInMemory
  <2>6. newest # None => rows[t] >= newest
    BY <2>0, <2>3, <2>4 DEF InStep
  <2> QED
    BY <2>0, <2>3, <2>4, <2>5, <2>6 DEF InStep, Storing
<1>5. ASSUME NEW t \in Threads, RefreshFails(t) PROVE Forward'
  <2> USE <1>5 DEF RefreshFails, Leave, memVars, redisVars, readerVars, servedVars
  <2>1. Past'
    BY DEF Forward, Past
  <2>2. SUFFICES ASSUME Undisturbed'
                 PROVE  ReadIsYoungest' /\ StoredIsInMemory' /\ InStep'
    BY <2>1 DEF Forward
  <2>3. pc[t] # "stored" /\ ReadIsYoungest /\ StoredIsInMemory /\ InStep
    BY <2>2 DEF Forward, Undisturbed
  <2>4. Storing' <=> Storing
    BY <2>3 DEF Storing
  <2> QED
    BY <2>3, <2>4 DEF ReadIsYoungest, StoredIsInMemory, InStep
<1>6. CASE Tick
  <2> USE <1>6 DEF Tick, memVars, jobVars, readerVars, servedVars
  <2>1. Past'
    BY DEF Forward, Past
  <2>2. redis' \in {redis, None}
    OBVIOUS
  <2> QED
    BY <2>1, <2>2 DEF Forward, Undisturbed, ReadIsYoungest, StoredIsInMemory, InStep, Storing
<1>7. CASE Restart
  <2> USE <1>7 DEF Restart, redisVars, servedVars
  <2>1. Past'
    BY DEF Forward, Past
  <2>2. SUFFICES ASSUME Undisturbed'
                 PROVE  ReadIsYoungest' /\ StoredIsInMemory' /\ InStep'
    BY <2>1 DEF Forward
  <2>3. ~Storing /\ InStep
    BY <2>2 DEF Forward, Undisturbed, Storing
  <2> QED
    BY <2>3 DEF ReadIsYoungest, StoredIsInMemory, InStep, Storing
<1>8. CASE UNCHANGED vars
  BY <1>8 DEF vars, memVars, redisVars, jobVars, readerVars, servedVars, Forward, Past,
              Undisturbed, ReadIsYoungest, StoredIsInMemory, InStep, Storing
<1> QED
  BY <1>1, <1>2, <1>3, <1>4, <1>5, <1>6, <1>7, <1>8 DEF Next, Refresh

\* While stores do not overlap and every snapshot in memory reached redis too, no
\* reader is served older rows than a reader before, provided that a refresh
\* stores within the memory's lifetime what it has read: deployed, 30 s against
\* a statement of 8 s at most (snapshot_service.py 70, 104-105).
THEOREM NeverBack == ASSUME MaxJob <= CacheTTL PROVE Spec => NoRegress
<1>1. Init => Forward
  BY DEF Init, Forward, Past, ReadIsYoungest, StoredIsInMemory, InStep, Storing
<1>2. TypeOK /\ RowsAge /\ Forward /\ [Next]_vars => Forward'
  BY ForwardStep
<1>3. TypeOK /\ RowsAge /\ Forward /\ [Next]_vars
      => [newest # None /\ ~overlapped /\ ~unshared => served' >= newest]_servedVars
  <2> SUFFICES ASSUME TypeOK, RowsAge, Forward, [Next]_vars, servedVars' # servedVars,
                      newest # None, ~overlapped, ~unshared
               PROVE  served' >= newest
    OBVIOUS
  <2>1. InStep /\ StoredIsInMemory
    BY DEF Forward, Undisturbed
  <2>2. ServeMemory \/ ServeRedis \/ \E t \in Threads : StoreRedis(t) /\ Serve(rows[t])
    BY DEF Next, Read, Refresh, GetRedis, GetFails, FetchRows, StoreMemory, StoreRedis,
           HandOver, RefreshFails, Tick, Restart, vars, servedVars
  <2>3. CASE \E t \in Threads : StoreRedis(t) /\ Serve(rows[t])
    <3>1. PICK t \in Threads : pc[t] = "stored" /\ served' = rows[t]
      BY <2>3 DEF StoreRedis, Serve
    <3>2. memory = rows[t] /\ memory >= newest
      BY <2>1, <3>1, NoneAssumption DEF StoredIsInMemory, InStep, TypeOK, RowsAge, Births
    <3> QED
      BY <3>1, <3>2
  <2> QED
    BY <2>1, <2>2, <2>3, NoneAssumption
       DEF ServeMemory, ServeRedis, Serve, Fresh, InStep
<1> QED
  BY <1>1, <1>2, <1>3, TypeInvariant, PTL DEF Spec, NoRegress
=============================================================================
