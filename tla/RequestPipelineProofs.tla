----------------------- MODULE RequestPipelineProofs -----------------------
(***************************************************************************)
(* Proofs about the gate of a token (TokenGate) and about the process that *)
(* the gate, the refresh queue and the pool make up (RequestPipeline), for *)
(* every number of requests, tables, workers and connections and all times *)
(* and quotas that the assumptions allow.                                  *)
(*                                                                         *)
(* The gate: an active request that has not been overrun holds the lock.   *)
(* A request that finds an active one's context in the cache does so less  *)
(* than CacheTTL after the grant, and asks for the lock less than MaxDelay *)
(* later, when the lock has not yet expired; so it is refused and never    *)
(* writes its id into a context that is in use.                            *)
(*                                                                         *)
(* The process: each step is a step of the gate or leaves it alone, so the *)
(* gate's invariants hold of it.  Each step but the death of the process   *)
(* is a step of the queue or leaves it alone; QP, the instance of          *)
(* QueryQueueProofs, has what such a step preserves, and a death leaves    *)
(* the queue empty.  Both together bound what a token's requests do at the *)
(* queue, and what is out of the pool.                                     *)
(***************************************************************************)
EXTENDS RequestPipeline, FiniteSetTheorems, TLAPS

-----------------------------------------------------------------------------
(* The gate: its invariant *)

LockAge  == LockTTL - lockLeft
CacheAge == CacheTTL - cacheLeft

LockCounted == lock = None <=> lockLeft = 0

\* A context has been made by a request that has left the lookup.
ContextsMade ==
  \A c \in Requests :
    pc[c] \in {"idle", "loading"} =>
      cacheCtx # c /\ \A p \in Requests : ctx[p] # c

HasContext ==
  \A p \in Requests :
    pc[p] \notin {"idle", "loading", "done"} => ctx[p] \in Requests

\* Only a request that was granted the lock can be overrun or accused.
HistoryOfHolders ==
  \A p \in overrun \cup accused : pc[p] \notin {"idle", "loading", "loaded"}

HolderHasLock ==
  \A p \in Requests : Active(p) /\ p \notin overrun => lock = p

GrantIsRecent ==
  \A q \in Requests :
    pc[q] = "granted" => q \notin overrun /\ LockAge <= waited[q]

\* Whoever could still take the context of an active request from the cache,
\* or has taken it, is early.
CacheIsEarly ==
  \A p \in Requests :
    Active(p) /\ ctx[p] = cacheCtx /\ cacheLeft > 0 =>
      p \notin overrun /\ LockAge <= CacheAge

SharerIsEarly ==
  \A p, q \in Requests :
    /\ Active(p) /\ q # p
    /\ pc[q] \in {"loaded", "granted"} /\ ctx[q] = ctx[p]
    => p \notin overrun /\ LockAge <= CacheTTL + waited[q]

NotEndedYet ==
  \A p \in Requests : pc[p] \notin {"leaving", "done"} => outcome[p] = "none"

\* The mark that accuses a holder lasts as long as its lock.
AccusedIsMarked ==
  overrun = {} =>
    \A p \in accused :
      /\ outcome[p] # "served"
      /\ pc[p] \in {"granted", "ready", "owned"} =>
           conflict = p /\ conflictLeft >= lockLeft

LockInv ==
  /\ LockCounted /\ ContextsMade /\ HasContext /\ HistoryOfHolders
  /\ HolderHasLock /\ GrantIsRecent

ShareInv == CacheIsEarly /\ SharerIsEarly /\ ContextIsMine

AccuseInv == NotEndedYet /\ AccusedIsMarked

GateInv == TypeOK /\ LockInv /\ ShareInv /\ AccuseInv

-----------------------------------------------------------------------------
(* The gate: one step *)

\* The steps of a request and of the system, as a case split.
LEMMA Steps ==
  ASSUME Next
  PROVE  \/ \E r \in Requests :
              \/ CacheHit(r) \/ CacheMiss(r) \/ StoreContext(r) \/ Refuse(r)
              \/ Invalidate(r) \/ Grant(r) \/ Conflict(r) \/ GrantReplyLost(r)
              \/ SetActive(r) \/ CheckOwner(r) \/ CheckConflict(r)
              \/ ClearConflict(r) \/ Raise(r) \/ Release(r)
         \/ Tick \/ Crash
  BY DEF Next, Enter, Acquire, Work

\* Typing is preserved by every step.
LEMMA TypeStep ==
  ASSUME TypeOK, LockCounted, Next
  PROVE  TypeOK'
<1> USE NoneAssumption, TimeAssumption, ChecksAssumption
         DEF TypeOK, PcStates, Outcomes, Goto, EndsEarly, Leaves
<1>1. ASSUME NEW r \in Requests, CacheHit(r)
      PROVE  TypeOK'
  BY <1>1 DEF CacheHit, Cached, markVars, histVars, cacheVars, lockVars
<1>2. ASSUME NEW r \in Requests, CacheMiss(r)
      PROVE  TypeOK'
  BY <1>2 DEF CacheMiss, markVars, histVars, cacheVars, lockVars
<1>3. ASSUME NEW r \in Requests, StoreContext(r)
      PROVE  TypeOK'
  BY <1>3 DEF StoreContext, markVars, histVars, lockVars
<1>4. ASSUME NEW r \in Requests, Refuse(r)
      PROVE  TypeOK'
  BY <1>4 DEF Refuse, markVars, histVars, cacheVars, lockVars
<1>5. ASSUME NEW r \in Requests, Invalidate(r)
      PROVE  TypeOK'
  BY <1>5 DEF Invalidate, reqVars, markVars, histVars, lockVars
<1>6. ASSUME NEW r \in Requests, Grant(r)
      PROVE  TypeOK'
  BY <1>6 DEF Grant, TakeLock, histVars, cacheVars
<1>7. ASSUME NEW r \in Requests, Conflict(r)
      PROVE  TypeOK'
  BY <1>7 DEF Conflict, cacheVars, lockVars
<1>8. ASSUME NEW r \in Requests, GrantReplyLost(r)
      PROVE  TypeOK'
  BY <1>8 DEF GrantReplyLost, TakeLock, reqVars, histVars, cacheVars
<1>9. ASSUME NEW r \in Requests, SetActive(r)
      PROVE  TypeOK'
  BY <1>9 DEF SetActive, markVars, histVars, cacheVars, lockVars
<1>10. ASSUME NEW r \in Requests, CheckOwner(r)
       PROVE  TypeOK'
  BY <1>10 DEF CheckOwner, markVars, histVars, cacheVars, lockVars
<1>11. ASSUME NEW r \in Requests, CheckConflict(r)
       PROVE  TypeOK'
  BY <1>11 DEF CheckConflict, markVars, histVars, cacheVars, lockVars
<1>12. ASSUME NEW r \in Requests, ClearConflict(r)
       PROVE  TypeOK'
  BY <1>12 DEF ClearConflict, histVars, cacheVars, lockVars
<1>13. ASSUME NEW r \in Requests, Raise(r)
       PROVE  TypeOK'
  BY <1>13 DEF Raise, markVars, histVars, cacheVars, lockVars
<1>14. ASSUME NEW r \in Requests, Release(r)
       PROVE  TypeOK'
  BY <1>14 DEF Release, DropLock, markVars, histVars, cacheVars, lockVars
<1>15. CASE Tick
  <2>1. /\ cacheLeft' \in 0..CacheTTL /\ lockLeft' \in 0..LockTTL
        /\ conflictLeft' \in 0..LockTTL
    BY <1>15 DEF Tick, Less
  <2>2. waited' \in [Requests -> 0..MaxDelay]
    BY <1>15 DEF Tick
  <2>3. lock' \in Requests \cup {None} /\ conflict' \in Requests \cup {None}
    BY <1>15 DEF Tick
  <2>4. overrun' \in SUBSET Requests
    BY <1>15 DEF Tick, LockCounted
  <2>5. QED
    BY <1>15, <2>1, <2>2, <2>3, <2>4 DEF Tick
<1>16. CASE Crash
  BY <1>16 DEF Crash, markVars, histVars, lockVars
<1>17. QED
  BY Steps, <1>1, <1>2, <1>3, <1>4, <1>5, <1>6, <1>7, <1>8, <1>9, <1>10,
     <1>11, <1>12, <1>13, <1>14, <1>15, <1>16

\* The lock and its holder.  A grant finds the lock free or its own, so that no
\* other request holds it; a tick never takes the lock of a granted request,
\* which is younger than MaxDelay.
LEMMA LockStep ==
  ASSUME GateInv, Next
  PROVE  LockInv'
<1> USE NoneAssumption, TimeAssumption
         DEF GateInv, TypeOK, LockInv, LockCounted, ContextsMade, HasContext,
             HistoryOfHolders, HolderHasLock, GrantIsRecent, LockAge,
             ShareInv, SharerIsEarly, ContextIsMine, MyId, Active, Working
<1>1. ASSUME NEW r \in Requests, CacheHit(r)
      PROVE  LockInv'
  BY <1>1 DEF CacheHit, Cached, Goto, markVars, histVars, cacheVars, lockVars
<1>2. ASSUME NEW r \in Requests, CacheMiss(r)
      PROVE  LockInv'
  BY <1>2 DEF CacheMiss, Goto, markVars, histVars, cacheVars, lockVars
<1>3. ASSUME NEW r \in Requests, StoreContext(r)
      PROVE  LockInv'
  BY <1>3 DEF StoreContext, Goto, markVars, histVars, lockVars
<1>4. ASSUME NEW r \in Requests, Refuse(r)
      PROVE  LockInv'
  BY <1>4 DEF Refuse, EndsEarly, Goto, markVars, histVars, cacheVars, lockVars
<1>5. ASSUME NEW r \in Requests, Invalidate(r)
      PROVE  LockInv'
  BY <1>5 DEF Invalidate, reqVars, markVars, histVars, lockVars
<1>6. ASSUME NEW r \in Requests, Grant(r)
      PROVE  LockInv'
  BY <1>6 DEF Grant, TakeLock, Goto, histVars, cacheVars
<1>7. ASSUME NEW r \in Requests, Conflict(r)
      PROVE  LockInv'
  BY <1>7 DEF Conflict, EndsEarly, Goto, cacheVars, lockVars
<1>8. ASSUME NEW r \in Requests, GrantReplyLost(r)
      PROVE  LockInv'
  BY <1>8 DEF GrantReplyLost, TakeLock, EndsEarly, Goto, reqVars, histVars, cacheVars
<1>9. ASSUME NEW r \in Requests, SetActive(r)
      PROVE  LockInv'
  BY <1>9 DEF SetActive, Goto, markVars, histVars, cacheVars, lockVars
<1>10. ASSUME NEW r \in Requests, CheckOwner(r)
       PROVE  LockInv'
  BY <1>10 DEF CheckOwner, Leaves, Goto, markVars, histVars, cacheVars, lockVars
<1>11. ASSUME NEW r \in Requests, CheckConflict(r)
       PROVE  LockInv'
  BY <1>11 DEF CheckConflict, Leaves, Goto, markVars, histVars, cacheVars, lockVars
<1>12. ASSUME NEW r \in Requests, ClearConflict(r)
       PROVE  LockInv'
  BY <1>12 DEF ClearConflict, Leaves, Goto, histVars, cacheVars, lockVars
<1>13. ASSUME NEW r \in Requests, Raise(r)
       PROVE  LockInv'
  BY <1>13 DEF Raise, Leaves, Goto, markVars, histVars, cacheVars, lockVars
<1>14. ASSUME NEW r \in Requests, Release(r)
       PROVE  LockInv'
  BY <1>14 DEF Release, DropLock, Goto, markVars, histVars, cacheVars, lockVars
<1>15. CASE Tick
  BY <1>15 DEF Tick, Less, Entering
<1>16. CASE Crash
  BY <1>16 DEF Crash, markVars, histVars, lockVars
<1>17. QED
  BY Steps, <1>1, <1>2, <1>3, <1>4, <1>5, <1>6, <1>7, <1>8, <1>9, <1>10,
     <1>11, <1>12, <1>13, <1>14, <1>15, <1>16

\* The contexts that requests share.  SetActive writes into a context that no
\* other active request works with: such a one would not be overrun
\* (SharerIsEarly), and so hold the lock that this one holds.  A tick does not
\* overrun a request whose context can still be taken: its lock is younger than
\* CacheTTL + MaxDelay.
LEMMA ShareStep ==
  ASSUME GateInv, Next
  PROVE  ShareInv'
<1> USE NoneAssumption, TimeAssumption
         DEF GateInv, TypeOK, LockInv, LockCounted, ContextsMade, HasContext,
             HistoryOfHolders, HolderHasLock, GrantIsRecent, LockAge, CacheAge,
             ShareInv, CacheIsEarly, SharerIsEarly, ContextIsMine, MyId, Active,
             Working
<1>1. ASSUME NEW r \in Requests, CacheHit(r)
      PROVE  ShareInv'
  BY <1>1 DEF CacheHit, Cached, Goto, markVars, histVars, cacheVars, lockVars
<1>2. ASSUME NEW r \in Requests, CacheMiss(r)
      PROVE  ShareInv'
  BY <1>2 DEF CacheMiss, Goto, markVars, histVars, cacheVars, lockVars
<1>3. ASSUME NEW r \in Requests, StoreContext(r)
      PROVE  ShareInv'
  BY <1>3 DEF StoreContext, Goto, markVars, histVars, lockVars
<1>4. ASSUME NEW r \in Requests, Refuse(r)
      PROVE  ShareInv'
  BY <1>4 DEF Refuse, EndsEarly, Goto, markVars, histVars, cacheVars, lockVars
<1>5. ASSUME NEW r \in Requests, Invalidate(r)
      PROVE  ShareInv'
  BY <1>5 DEF Invalidate, reqVars, markVars, histVars, lockVars
<1>6. ASSUME NEW r \in Requests, Grant(r)
      PROVE  ShareInv'
  BY <1>6 DEF Grant, TakeLock, Goto, histVars, cacheVars
<1>7. ASSUME NEW r \in Requests, Conflict(r)
      PROVE  ShareInv'
  BY <1>7 DEF Conflict, EndsEarly, Goto, cacheVars, lockVars
<1>8. ASSUME NEW r \in Requests, GrantReplyLost(r)
      PROVE  ShareInv'
  BY <1>8 DEF GrantReplyLost, TakeLock, EndsEarly, Goto, reqVars, histVars, cacheVars
<1>9. ASSUME NEW r \in Requests, SetActive(r)
      PROVE  ShareInv'
  BY <1>9 DEF SetActive, Goto, markVars, histVars, cacheVars, lockVars
<1>10. ASSUME NEW r \in Requests, CheckOwner(r)
       PROVE  ShareInv'
  BY <1>10 DEF CheckOwner, Leaves, Goto, markVars, histVars, cacheVars, lockVars
<1>11. ASSUME NEW r \in Requests, CheckConflict(r)
       PROVE  ShareInv'
  BY <1>11 DEF CheckConflict, Leaves, Goto, markVars, histVars, cacheVars, lockVars
<1>12. ASSUME NEW r \in Requests, ClearConflict(r)
       PROVE  ShareInv'
  BY <1>12 DEF ClearConflict, Leaves, Goto, histVars, cacheVars, lockVars
<1>13. ASSUME NEW r \in Requests, Raise(r)
       PROVE  ShareInv'
  BY <1>13 DEF Raise, Leaves, Goto, markVars, histVars, cacheVars, lockVars
<1>14. ASSUME NEW r \in Requests, Release(r)
       PROVE  ShareInv'
  BY <1>14 DEF Release, DropLock, Goto, markVars, histVars, cacheVars, lockVars
<1>15. CASE Tick
  BY <1>15 DEF Tick, Less, Entering
<1>16. CASE Crash
  BY <1>16 DEF Crash, markVars, histVars, lockVars
<1>17. QED
  BY Steps, <1>1, <1>2, <1>3, <1>4, <1>5, <1>6, <1>7, <1>8, <1>9, <1>10,
     <1>11, <1>12, <1>13, <1>14, <1>15, <1>16

\* The accused holders.  The mark is written by a request that finds the lock
\* held, and deleted by one that holds it or is accused itself; as long as
\* nobody is overrun both are the accused.
LEMMA AccuseStep ==
  ASSUME GateInv, Next
  PROVE  AccuseInv'
<1> USE NoneAssumption, TimeAssumption
         DEF GateInv, TypeOK, LockInv, LockCounted, HistoryOfHolders,
             HolderHasLock, ShareInv, ContextIsMine, MyId, Active, Working,
             AccuseInv, NotEndedYet, AccusedIsMarked
<1>1. ASSUME NEW r \in Requests, CacheHit(r)
      PROVE  AccuseInv'
  BY <1>1 DEF CacheHit, Cached, Goto, markVars, histVars, cacheVars, lockVars
<1>2. ASSUME NEW r \in Requests, CacheMiss(r)
      PROVE  AccuseInv'
  BY <1>2 DEF CacheMiss, Goto, markVars, histVars, cacheVars, lockVars
<1>3. ASSUME NEW r \in Requests, StoreContext(r)
      PROVE  AccuseInv'
  BY <1>3 DEF StoreContext, Goto, markVars, histVars, lockVars
<1>4. ASSUME NEW r \in Requests, Refuse(r)
      PROVE  AccuseInv'
  BY <1>4 DEF Refuse, EndsEarly, Goto, markVars, histVars, cacheVars, lockVars
<1>5. ASSUME NEW r \in Requests, Invalidate(r)
      PROVE  AccuseInv'
  BY <1>5 DEF Invalidate, reqVars, markVars, histVars, lockVars
<1>6. ASSUME NEW r \in Requests, Grant(r)
      PROVE  AccuseInv'
  BY <1>6 DEF Grant, TakeLock, Goto, histVars, cacheVars
<1>7. ASSUME NEW r \in Requests, Conflict(r)
      PROVE  AccuseInv'
  BY <1>7 DEF Conflict, EndsEarly, Goto, cacheVars, lockVars
<1>8. ASSUME NEW r \in Requests, GrantReplyLost(r)
      PROVE  AccuseInv'
  BY <1>8 DEF GrantReplyLost, TakeLock, EndsEarly, Goto, reqVars, histVars, cacheVars
<1>9. ASSUME NEW r \in Requests, SetActive(r)
      PROVE  AccuseInv'
  BY <1>9 DEF SetActive, Goto, markVars, histVars, cacheVars, lockVars
<1>10. ASSUME NEW r \in Requests, CheckOwner(r)
       PROVE  AccuseInv'
  BY <1>10 DEF CheckOwner, Leaves, Goto, markVars, histVars, cacheVars, lockVars
<1>11. ASSUME NEW r \in Requests, CheckConflict(r)
       PROVE  AccuseInv'
  BY <1>11 DEF CheckConflict, Leaves, Goto, markVars, histVars, cacheVars, lockVars
<1>12. ASSUME NEW r \in Requests, ClearConflict(r)
       PROVE  AccuseInv'
  BY <1>12 DEF ClearConflict, Leaves, Goto, histVars, cacheVars, lockVars
<1>13. ASSUME NEW r \in Requests, Raise(r)
       PROVE  AccuseInv'
  BY <1>13 DEF Raise, Leaves, Goto, markVars, histVars, cacheVars, lockVars
<1>14. ASSUME NEW r \in Requests, Release(r)
       PROVE  AccuseInv'
  BY <1>14 DEF Release, DropLock, Goto, markVars, histVars, cacheVars, lockVars
<1>15. CASE Tick
  BY <1>15 DEF Tick, Less, Entering
<1>16. CASE Crash
  BY <1>16 DEF Crash, markVars, histVars, lockVars
<1>17. QED
  BY Steps, <1>1, <1>2, <1>3, <1>4, <1>5, <1>6, <1>7, <1>8, <1>9, <1>10,
     <1>11, <1>12, <1>13, <1>14, <1>15, <1>16

-----------------------------------------------------------------------------
(* The gate: its theorems *)

LEMMA InitGate == Init => GateInv
<1> SUFFICES ASSUME Init PROVE GateInv
  OBVIOUS
<1> USE NoneAssumption, TimeAssumption DEF Init
<1>1. TypeOK
  BY DEF TypeOK, PcStates, Outcomes
<1>2. LockInv
  BY DEF LockInv, LockCounted, ContextsMade, HasContext, HistoryOfHolders,
         HolderHasLock, GrantIsRecent, Active, Working
<1>3. ShareInv
  BY DEF ShareInv, CacheIsEarly, SharerIsEarly, ContextIsMine, Active, Working
<1>4. AccuseInv
  BY DEF AccuseInv, NotEndedYet, AccusedIsMarked
<1>5. QED
  BY <1>1, <1>2, <1>3, <1>4 DEF GateInv

\* The inductive invariant holds of the gate.
THEOREM GateInvariant == Spec => []GateInv
<1>1. Init => GateInv
  BY InitGate
<1>2. GateInv /\ [Next]_vars => GateInv'
  <2> SUFFICES ASSUME GateInv, [Next]_vars PROVE GateInv'
    OBVIOUS
  <2>1. CASE Next
    BY <2>1, TypeStep, LockStep, ShareStep, AccuseStep DEF GateInv, LockInv
  <2>2. CASE UNCHANGED vars
    <3> USE <2>2 DEF vars, reqVars, cacheVars, lockVars, markVars, histVars
    <3>1. TypeOK'
      BY DEF GateInv, TypeOK
    <3>2. LockInv'
      BY DEF GateInv, LockInv, LockCounted, ContextsMade, HasContext,
             HistoryOfHolders, HolderHasLock, GrantIsRecent, LockAge, Active
    <3>3. ShareInv'
      BY DEF GateInv, ShareInv, CacheIsEarly, SharerIsEarly, ContextIsMine,
             LockAge, CacheAge, Active, MyId
    <3>4. AccuseInv'
      BY DEF GateInv, AccuseInv, NotEndedYet, AccusedIsMarked
    <3>5. QED
      BY <3>1, <3>2, <3>3, <3>4 DEF GateInv
  <2>3. QED
    BY <2>1, <2>2
<1>3. QED
  BY <1>1, <1>2, PTL DEF Spec

\* The gate's state is well-typed (auth.py 604-682).
THEOREM TypeInvariant == Spec => []TypeOK
<1>1. GateInv => TypeOK
  BY DEF GateInv
<1>2. QED
  BY <1>1, GateInvariant, PTL

\* Two requests are active together only after the lock of one of them has run
\* out (auth.py 614-626, 647-657): both would hold the same lock otherwise.
THEOREM ExclusiveInvariant == Spec => []Exclusive
<1>1. GateInv => Exclusive
  BY DEF GateInv, LockInv, HolderHasLock, Exclusive
<1>2. QED
  BY <1>1, GateInvariant, PTL

\* The context a request works with carries its own id, although requests share
\* contexts through the cache (auth.py 149, 676): this needs the lock's TTL to
\* exceed the cache's lifetime and the way to the grant together.
THEOREM OwnContext == Spec => []ContextIsMine
<1>1. GateInv => ContextIsMine
  BY DEF GateInv, ShareInv
<1>2. QED
  BY <1>1, GateInvariant, PTL

\* A holder caught with a second connection before its last check is not
\* served, as long as no lock runs out (auth.py 617, 642-645): the mark against
\* it lasts until that check.
THEOREM AccusedInvariant == Spec => []AccusedNotServed
<1>1. GateInv => AccusedNotServed
  BY DEF GateInv, AccuseInv, AccusedIsMarked, AccusedNotServed
<1>2. QED
  BY <1>1, GateInvariant, PTL

-----------------------------------------------------------------------------
(* The process: its gate and its queue *)

\* The queue of this process, with what is proved about a queue.
QP == INSTANCE QueryQueueProofs WITH
  Tokens <- {Token}, MaxQueueOf <- [k \in {Token} |-> MaxQueue],
  pc <- qpc, outcome <- answer, warm <- 0, TableSeq <- <<>>

\* What the queue assumes of its limits holds in the process.
LEMMA QueueFinite == QP!FiniteAssumption
  BY FiniteSetsAssumption DEF QP!IsFiniteSet, IsFiniteSet

LEMMA QueueNone == QP!NoneAssumption
  BY NoneAssumption, NamesAssumption

LEMMA QueueQuota == QP!QuotaAssumption
  BY LimitsAssumption

LEMMA QueueSize == QP!QueueSizeAssumption
  BY LimitsAssumption

LEMMA QueueWarmsNothing == QP!TableSeqAssumption
  OBVIOUS

\* Counting is the same in both instances.
LEMMA SameCount ==
  ASSUME NEW S
  PROVE  /\ QP!Cardinality(S) = Cardinality(S)
         /\ Queue!Cardinality(S) = Cardinality(S)
  BY DEF QP!Cardinality, Queue!Cardinality, Cardinality

\* A request that waits for its snapshot is at its second check.
WaitsAtSnapshot ==
  \A r \in Requests :
    /\ answer[r] # "none" => qpc[r] = "done"
    /\ QP!InWait(r) => Snapshot(r)

\* What holds of the queue in this process.
QueueInv ==
  /\ QP!TypeInv /\ QP!SingleFlight /\ QP!FlightInv /\ QP!TokenWaitersExact
  /\ WaitsAtSnapshot

\* Every step of the process is a step of the gate or leaves it alone.
LEMMA GateSteps == PipeNext => Next \/ UNCHANGED vars
<1> SUFFICES ASSUME PipeNext PROVE Next \/ UNCHANGED vars
  OBVIOUS
<1>1. ASSUME NEW r \in Requests, Request(r) PROVE Next \/ UNCHANGED vars
  BY <1>1
  DEF Request, Depend, Arrive, Advance, Bind, Ask, Wait, CheckPoint, GiveUp,
      Free, Next, Enter, Acquire, Work
<1>2. ASSUME NEW w \in Workers, Refresh(w) PROVE UNCHANGED vars
  BY <1>2 DEF Refresh, StartJob, EndJob, ReportJob, AbandonJob
<1>3. CASE Die
  BY <1>3 DEF Die, Next
<1> QED
  BY <1>1, <1>2, <1>3
  DEF PipeNext, EndOrphan, Age, ShutDown, PassTime, Over, Next

\* The process implements the gate: the snapshot that an endpoint waits for, the
\* connections and the end of the process show in no step of the gate but a
\* crash (auth.py 604-682, main.py 94-122).
THEOREM PipelineImplementsGate == PipeSpec => Spec
<1>1. PipeInit => Init
  BY DEF PipeInit
<1>2. [PipeNext]_pipeVars => [Next]_vars
  BY GateSteps DEF pipeVars
<1>3. QED
  BY <1>1, <1>2, PTL DEF PipeSpec, Spec

\* The two instances of the queue take the same steps.
LEMMA SameQueue ==
  /\ Queue!Init <=> QP!Init
  /\ \A r \in Requests, t \in Tables :
       Queue!GetSnapshot(r, t, Token) <=> QP!GetSnapshot(r, t, Token)
  /\ \A r \in Requests : Queue!WaitTimeout(r) <=> QP!WaitTimeout(r)
  /\ \A r \in Requests : Queue!Resume(r) <=> QP!Resume(r)
  /\ \A w \in Workers : Queue!Dequeue(w) <=> QP!Dequeue(w)
  /\ \A w \in Workers : Queue!ThreadEnds(w) <=> QP!ThreadEnds(w)
  /\ \A w \in Workers : Queue!JobDone(w) <=> QP!JobDone(w)
  /\ \A w \in Workers : Queue!JobTimeout(w) <=> QP!JobTimeout(w)
  /\ \A t \in Tables : Queue!ZombieEnds(t) <=> QP!ZombieEnds(t)
  /\ \A t \in Tables : Queue!Expire(t) <=> QP!Expire(t)
  /\ Queue!Stop <=> QP!Stop
  /\ Queue!Terminated <=> QP!Terminated
<1> USE DEF Queue!callVars, QP!callVars, Queue!workVars, QP!workVars,
            Queue!backVars, QP!backVars, Queue!Answer, QP!Answer, Queue!Resolve,
            QP!Resolve, Queue!RefreshEnds, QP!RefreshEnds
<1>1. Queue!Init <=> QP!Init
  BY DEF Queue!Init, QP!Init
<1>2. ASSUME NEW r \in Requests, NEW t \in Tables
      PROVE Queue!GetSnapshot(r, t, Token) <=> QP!GetSnapshot(r, t, Token)
  BY DEF Queue!GetSnapshot, QP!GetSnapshot, Queue!CacheLookupEnds,
         QP!CacheLookupEnds, Queue!RejectToken, QP!RejectToken,
         Queue!RejectQueueFull, QP!RejectQueueFull, Queue!Enqueue, QP!Enqueue,
         Queue!Join, QP!Join, Queue!Arrive, QP!Arrive, Queue!Wait, QP!Wait,
         Queue!CountWaiter, QP!CountWaiter, Queue!UncountWaiter,
         QP!UncountWaiter, Queue!SafeMaxQueue, QP!SafeMaxQueue, Queue!QueueFull,
         QP!QueueFull
<1>3. ASSUME NEW r \in Requests PROVE Queue!WaitTimeout(r) <=> QP!WaitTimeout(r)
  BY DEF Queue!WaitTimeout, QP!WaitTimeout
<1>4. ASSUME NEW r \in Requests PROVE Queue!Resume(r) <=> QP!Resume(r)
  BY DEF Queue!Resume, QP!Resume, Queue!WaitEnd, QP!WaitEnd,
         Queue!UncountWaiter, QP!UncountWaiter
<1>5. ASSUME NEW w \in Workers PROVE Queue!Dequeue(w) <=> QP!Dequeue(w)
  BY DEF Queue!Dequeue, QP!Dequeue
<1>6. ASSUME NEW w \in Workers PROVE Queue!ThreadEnds(w) <=> QP!ThreadEnds(w)
  BY DEF Queue!ThreadEnds, QP!ThreadEnds
<1>7. ASSUME NEW w \in Workers PROVE Queue!JobDone(w) <=> QP!JobDone(w)
  BY DEF Queue!JobDone, QP!JobDone
<1>8. ASSUME NEW w \in Workers PROVE Queue!JobTimeout(w) <=> QP!JobTimeout(w)
  BY DEF Queue!JobTimeout, QP!JobTimeout
<1>9. ASSUME NEW t \in Tables PROVE Queue!ZombieEnds(t) <=> QP!ZombieEnds(t)
  BY DEF Queue!ZombieEnds, QP!ZombieEnds
<1>10. ASSUME NEW t \in Tables PROVE Queue!Expire(t) <=> QP!Expire(t)
  BY DEF Queue!Expire, QP!Expire
<1>11. Queue!Stop <=> QP!Stop
  <2>1. \A t \in Tables : Queue!Abandoned(t) = QP!Abandoned(t)
    BY SameCount DEF Queue!Abandoned, QP!Abandoned
  <2>2. [t \in Tables |-> zombies[t] + Queue!Abandoned(t)]
          = [t \in Tables |-> zombies[t] + QP!Abandoned(t)]
    BY <2>1
  <2> QED
    BY <2>2 DEF Queue!Stop, QP!Stop, Queue!Idle, QP!Idle
<1>12. Queue!Terminated <=> QP!Terminated
  BY DEF Queue!Terminated, QP!Terminated, Queue!vars, QP!vars
<1> QED
  BY <1>1, <1>2, <1>3, <1>4, <1>5, <1>6, <1>7, <1>8, <1>9, <1>10, <1>11, <1>12

\* Every step of the process but its death is a step of the queue or leaves
\* it alone.
LEMMA QueueSteps == PipeNext => [Queue!Next]_(Queue!vars) \/ Die
<1> SUFFICES ASSUME PipeNext, ~Die PROVE Queue!Next \/ UNCHANGED Queue!vars
  OBVIOUS
<1>1. UNCHANGED queueVars => UNCHANGED Queue!vars
  BY DEF queueVars, Queue!vars
<1>2. ASSUME NEW r \in Requests, Request(r)
      PROVE  Queue!Next \/ UNCHANGED Queue!vars
  <2>1. CASE Depend(r) \/ CheckPoint(r) \/ GiveUp(r) \/ Free(r)
    BY <1>1, <2>1 DEF Depend, Advance, CheckPoint, GiveUp, Free
  <2>2. CASE Ask(r) \/ Wait(r)
    BY <2>2 DEF Ask, Wait, Queue!Next
  <2>3. QED
    BY <1>2, <2>1, <2>2 DEF Request
<1>3. ASSUME NEW w \in Workers, Refresh(w) PROVE Queue!Next
  BY <1>3 DEF Refresh, StartJob, EndJob, ReportJob, AbandonJob, Queue!Next
<1>4. ASSUME NEW t \in Tables, EndOrphan(t) \/ Age(t) PROVE Queue!Next
  BY <1>4 DEF EndOrphan, Age, Queue!Next
<1>5. CASE ShutDown \/ Over
  BY <1>5 DEF ShutDown, Over, Queue!Next
<1>6. CASE PassTime
  BY <1>1, <1>6 DEF PassTime
<1>7. QED
  BY <1>2, <1>3, <1>4, <1>5, <1>6 DEF PipeNext

\* The queue's part of the process starts as a queue does, and takes only the
\* queue's steps until the process dies.
THEOREM PipelineRunsQueue ==
  PipeSpec => Queue!Init /\ [][Queue!Next \/ Die]_(Queue!vars)
<1>1. PipeInit => Queue!Init
  BY DEF PipeInit
<1>2. [PipeNext]_pipeVars => [Queue!Next \/ Die]_(Queue!vars)
  BY QueueSteps DEF pipeVars, queueVars, Queue!vars
<1>3. QED
  BY <1>1, <1>2, PTL DEF PipeSpec

\* The same step, of the instance that has the theorems.
LEMMA SameStep == [PipeNext]_pipeVars => [QP!Next]_(QP!vars) \/ Die
<1>1. UNCHANGED Queue!vars => UNCHANGED QP!vars
  BY DEF Queue!vars, QP!vars
<1>2. Queue!Next => QP!Next
  BY SameQueue
  DEF Queue!Next, QP!Next, Queue!WarmWakes, QP!WarmWakes, Queue!WarmRefreshes,
      QP!WarmRefreshes
<1>3. QED
  BY <1>1, <1>2, QueueSteps DEF pipeVars, queueVars, QP!vars

\* The death of the process leaves nobody waiting, nothing pending and nothing
\* counted.
LEMMA QueueDies ==
  ASSUME QueueInv, Die
  PROVE  /\ QP!TypeInv' /\ QP!SingleFlight' /\ QP!FlightInv'
         /\ QP!TokenWaitersExact'
<1>1. QP!TypeInv'
  BY LimitsAssumption
  DEF Die, QueueInv, QP!TypeInv, QP!TypeOK, QP!WorkerShape, QP!PcStates,
      QP!FutureStates, QP!ThreadStates
<1>2. QP!SingleFlight'
  <2>1. /\ 1..Len(queue') = {}
        /\ \A w \in Workers : job'[w] = None
        /\ \A t \in Tables : pending'[t] = None
    BY DEF Die
  <2>2. \A t \in Tables : ~QP!HasJob(t)'
    BY <2>1, NamesAssumption DEF QP!HasJob
  <2>3. QED
    BY <2>1, <2>2
    DEF QP!SingleFlight, QP!QueueDistinct, QP!WorkersDistinct,
        QP!QueueNotOnWorker, QP!PendingIffJob
<1>3. \A r \in Requests : ~QP!InWait(r)'
  BY DEF Die, QP!InWait
<1>4. QP!FlightInv'
  BY <1>3
  DEF Die, QP!FlightInv, QP!PendingFlies, QP!IdleHasNoFuture, QP!WaitShape,
      QP!AwaitedExists, QP!OpenIsPending, QP!StoppedDrained, QP!InWait
<1>5. QP!TokenWaitersExact'
  <2> SUFFICES ASSUME NEW k \in {Token}
               PROVE  /\ tokenWaiters'[k]
                           = QP!Cardinality({r \in Requests :
                                               QP!InWait(r)' /\ token'[r] = k})
                      /\ tokenWaiters'[k] <= QP!SafeMaxQueue(k)
    BY DEF QP!TokenWaitersExact, QP!SafeMaxQueue
  <2>1. {r \in Requests : QP!InWait(r)' /\ token'[r] = k} = {}
    BY <1>3
  <2>2. tokenWaiters'[k] = 0
    BY DEF Die
  <2>3. QP!SafeMaxQueue(k) \in Nat
    BY LimitsAssumption DEF QP!SafeMaxQueue
  <2>4. QED
    BY <2>1, <2>2, <2>3, SameCount, FS_EmptySet
<1>6. QED
  BY <1>1, <1>2, <1>4, <1>5

\* A request that waits stays at its second check: the check needs the
\* snapshot, and nothing else ends an endpoint that is suspended there.
LEMMA WaitsStep ==
  ASSUME TypeOK, QueueInv, PipeNext
  PROVE  WaitsAtSnapshot'
<1> USE DEF QueueInv, QP!TypeInv, QP!TypeOK, TypeOK, WaitsAtSnapshot, QP!InWait,
            Snapshot
<1>1. ASSUME NEW r \in Requests, Depend(r) PROVE WaitsAtSnapshot'
  BY <1>1
  DEF Depend, Arrive, Advance, Bind, CacheMiss, CacheHit, StoreContext, Refuse,
      Acquire, Grant, Conflict, SetActive, Invalidate, GrantReplyLost,
      EndsEarly, Goto, queueVars, reqVars
<1>2. ASSUME NEW r \in Requests, Ask(r) PROVE WaitsAtSnapshot'
  <2>1. PICK t \in Tables : QP!GetSnapshot(r, t, Token)
    BY <1>2, SameQueue DEF Ask
  <2>2. Snapshot(r) /\ UNCHANGED <<pc, checks>>
    BY <1>2 DEF Ask, vars, reqVars
  <2>3. qpc[r] = "idle"
    BY <2>1
    DEF QP!GetSnapshot, QP!CacheLookupEnds, QP!RejectToken, QP!RejectQueueFull,
        QP!Enqueue, QP!Join, QP!Arrive
  <2>4. \/ \E how \in QP!Outcomes : QP!Answer(r, how)
        \/ qpc' = [qpc EXCEPT ![r] = "waiting"] /\ answer' = answer
    BY <2>1
    DEF QP!GetSnapshot, QP!CacheLookupEnds, QP!RejectToken, QP!RejectQueueFull,
        QP!Enqueue, QP!Join, QP!Wait, QP!Outcomes
  <2>5. QED
    BY <2>2, <2>3, <2>4 DEF QP!Answer
<1>3. ASSUME NEW r \in Requests, Wait(r) PROVE WaitsAtSnapshot'
  BY <1>3, SameQueue
  DEF Wait, QP!WaitTimeout, QP!Resume, QP!Answer, vars, reqVars
<1>4. ASSUME NEW r \in Requests, CheckPoint(r) PROVE WaitsAtSnapshot'
  BY <1>4
  DEF CheckPoint, Got, CheckOwner, CheckConflict, ClearConflict, Leaves, Goto,
      queueVars
<1>5. ASSUME NEW r \in Requests, GiveUp(r) PROVE WaitsAtSnapshot'
  BY <1>5 DEF GiveUp, Fetching, Raise, Leaves, Goto, queueVars
<1>6. ASSUME NEW r \in Requests, Free(r) PROVE WaitsAtSnapshot'
  BY <1>6 DEF Free, Release, Goto, queueVars
<1>7. CASE Die
  BY <1>7 DEF Die
<1>8. CASE UNCHANGED <<pc, checks, qpc, answer>>
  BY <1>8
<1>9. ASSUME NEW w \in Workers, Refresh(w)
      PROVE  UNCHANGED <<pc, checks, qpc, answer>>
  BY <1>9, SameQueue
  DEF Refresh, StartJob, EndJob, ReportJob, AbandonJob, QP!Dequeue,
      QP!ThreadEnds, QP!JobDone, QP!JobTimeout, vars, reqVars
<1>10. ASSUME NEW t \in Tables, EndOrphan(t) \/ Age(t)
       PROVE  UNCHANGED <<pc, checks, qpc, answer>>
  BY <1>10, SameQueue
  DEF EndOrphan, Age, QP!ZombieEnds, QP!Expire, vars, reqVars
<1>11. CASE ShutDown \/ PassTime \/ Over
  BY <1>11, SameQueue
  DEF ShutDown, PassTime, Over, QP!Stop, QP!Terminated, QP!vars, Tick,
      queueVars, vars, reqVars
<1>12. QED
  BY <1>1, <1>2, <1>3, <1>4, <1>5, <1>6, <1>7, <1>8, <1>9, <1>10, <1>11
  DEF PipeNext, Request

\* The process starts with an empty queue.
LEMMA InitQueue == PipeInit => QueueInv
<1> SUFFICES ASSUME PipeInit PROVE QueueInv
  OBVIOUS
<1>1. QP!Init
  BY SameQueue DEF PipeInit
<1>2. QP!TypeInv /\ QP!SingleFlight /\ QP!FlightInv /\ QP!TokenWaitersExact
  BY <1>1, QP!InitType, QP!InitSingleFlight, QP!InitFlight, QP!InitWaiters,
     QueueFinite, QueueNone, QueueQuota, QueueSize, QueueWarmsNothing
<1>3. WaitsAtSnapshot
  BY <1>1 DEF QP!Init, QP!InWait, WaitsAtSnapshot
<1>4. QED
  BY <1>2, <1>3 DEF QueueInv

\* Every step of the process preserves what holds of the queue.
LEMMA QueueStep ==
  ASSUME TypeOK, QueueInv, [PipeNext]_pipeVars
  PROVE  QueueInv'
<1>1. ASSUME [QP!Next]_(QP!vars)
      PROVE  /\ QP!TypeInv' /\ QP!SingleFlight' /\ QP!FlightInv'
             /\ QP!TokenWaitersExact'
  <2> USE QueueFinite, QueueNone, QueueQuota, QueueSize, QueueWarmsNothing
          DEF QueueInv
  <2>1. QP!TypeInv'
    BY <1>1, QP!TypeStep
  <2>2. QED
    BY <1>1, <2>1, QP!SingleFlightStep, QP!FlightStep, QP!WaitersStep
<1>2. CASE UNCHANGED pipeVars
  <2>1. UNCHANGED QP!vars
    BY <1>2 DEF pipeVars, queueVars, QP!vars
  <2>2. WaitsAtSnapshot'
    BY <1>2
    DEF pipeVars, vars, reqVars, queueVars, QueueInv, WaitsAtSnapshot,
        QP!InWait, Snapshot
  <2>3. QED
    BY <1>1, <2>1, <2>2 DEF QueueInv
<1>3. CASE PipeNext
  BY <1>1, <1>3, SameStep, QueueDies, WaitsStep DEF QueueInv
<1>4. QED
  BY <1>2, <1>3

\* The queue's invariants hold in the process, and a request that waits there is
\* at its second check (main.py 94-122, query_queue.py 57-107).
THEOREM QueueInvariant == PipeSpec => []QueueInv
<1>1. PipeInit => QueueInv
  BY InitQueue
<1>2. TypeOK /\ QueueInv /\ [PipeNext]_pipeVars => QueueInv'
  BY QueueStep
<1>3. PipeSpec => []TypeOK
  BY PipelineImplementsGate, TypeInvariant
<1>4. QED
  BY <1>1, <1>2, <1>3, PTL DEF PipeSpec

\* What the gate promises, it promises in the process: whatever the queue, the
\* refreshes and the pool do, one request of a token is at work at a time, with
\* a context of its own, and an accused one is not served (auth.py 614-657).
THEOREM PipelineGate ==
  PipeSpec => [](Exclusive /\ ContextIsMine /\ AccusedNotServed)
BY PipelineImplementsGate, ExclusiveInvariant, OwnContext, AccusedInvariant, PTL

\* What the queue promises survives the gate in front of it, the failures of the
\* pool behind it and the death of the process: the waiters are counted exactly,
\* a table has one job when it has a pending entry, and nobody waits for a future
\* that no job will settle (query_queue.py 57-107).
THEOREM PipelineQueue ==
  PipeSpec => [](/\ Queue!TokenWaitersExact
                 /\ Queue!SingleFlight
                 /\ Queue!NoLostWakeup)
<1>1. QueueInv => QP!NoLostWakeup
  BY QP!WakeupComes, QueueFinite, QueueNone, QueueQuota, QueueSize,
     QueueWarmsNothing
  DEF QueueInv
<1>2. QP!TokenWaitersExact => Queue!TokenWaitersExact
  BY SameCount
  DEF QP!TokenWaitersExact, Queue!TokenWaitersExact, QP!InWait, Queue!InWait,
      QP!SafeMaxQueue, Queue!SafeMaxQueue
<1>3. QP!SingleFlight => Queue!SingleFlight
  BY DEF QP!SingleFlight, Queue!SingleFlight, QP!QueueDistinct,
         Queue!QueueDistinct, QP!WorkersDistinct, Queue!WorkersDistinct,
         QP!QueueNotOnWorker, Queue!QueueNotOnWorker, QP!PendingIffJob,
         Queue!PendingIffJob, QP!HasJob, Queue!HasJob
<1>4. QP!NoLostWakeup => Queue!NoLostWakeup
  BY DEF QP!NoLostWakeup, Queue!NoLostWakeup, QP!HasJob, Queue!HasJob
<1>5. QueueInv => /\ Queue!TokenWaitersExact
                  /\ Queue!SingleFlight
                  /\ Queue!NoLostWakeup
  BY <1>1, <1>2, <1>3, <1>4 DEF QueueInv
<1>6. QED
  BY <1>5, QueueInvariant, PTL

FullOfOthers ==
  \A r \in Requests :
    answer[r] = "none" /\ answer'[r] = "queueFull" =>
      Queue!Cardinality({t \in Tables \ {table'[r]} : pending[t] # None})
        >= QueueMaxSize

\* In the process, too, a call is refused for the global limit only when that
\* many other tables have a refresh pending (query_queue.py 63-72, 103).
THEOREM PipelineFull == PipeSpec => Queue!FullOnlyOfOthers
<1>1. ASSUME QueueInv, [QP!Next]_(QP!vars) PROVE FullOfOthers
  <2>1. QP!OnlyOfOthers
    BY <1>1, QP!FullStep, QueueFinite, QueueNone, QueueQuota, QueueSize,
       QueueWarmsNothing
    DEF QueueInv
  <2>2. QED
    BY <2>1, SameCount DEF QP!OnlyOfOthers, QP!Others, FullOfOthers
<1>2. Die => FullOfOthers
  BY DEF Die, FullOfOthers
<1>3. QueueInv /\ [PipeNext]_pipeVars => [FullOfOthers]_(Queue!vars)
  BY <1>1, <1>2, SameStep
<1>4. QED
  BY <1>3, QueueInvariant, PTL
  DEF PipeSpec, Queue!FullOnlyOfOthers, FullOfOthers

-----------------------------------------------------------------------------
(* The queue's quota *)

\* History only grows.
LEMMA OverrunGrows == Next => overrun \subseteq overrun'
<1> SUFFICES ASSUME Next PROVE overrun \subseteq overrun'
  OBVIOUS
<1>1. ASSUME NEW r \in Requests,
             \/ CacheHit(r) \/ CacheMiss(r) \/ StoreContext(r) \/ Refuse(r)
             \/ Invalidate(r) \/ Grant(r) \/ Conflict(r) \/ GrantReplyLost(r)
             \/ SetActive(r) \/ CheckOwner(r) \/ CheckConflict(r)
             \/ ClearConflict(r) \/ Raise(r) \/ Release(r)
      PROVE  overrun' = overrun
  BY <1>1
  DEF CacheHit, CacheMiss, StoreContext, Refuse, Invalidate, Grant, Conflict,
      GrantReplyLost, SetActive, CheckOwner, CheckConflict, ClearConflict,
      Raise, Release, histVars
<1>2. CASE Tick
  BY <1>2 DEF Tick
<1>3. CASE Crash
  BY <1>3 DEF Crash, histVars
<1>4. QED
  BY Steps, <1>1, <1>2, <1>3

\* A token is never full for a request that the gate let in: whoever else waits
\* would be active too.
LEMMA QuotaStep ==
  ASSUME TypeOK, Exclusive, QueueInv, QuotaOutOfSight, [PipeNext]_pipeVars
  PROVE  QuotaOutOfSight'
<1>1. CASE UNCHANGED <<overrun, answer>>
  BY <1>1 DEF QuotaOutOfSight
<1>2. ASSUME NEW r \in Requests, Ask(r) PROVE QuotaOutOfSight'
  <2>1. PICK t \in Tables : QP!GetSnapshot(r, t, Token)
    BY <1>2, SameQueue DEF Ask
  <2>2. Snapshot(r) /\ UNCHANGED overrun
    BY <1>2 DEF Ask, vars, histVars
  <2>3. CASE QP!RejectToken(r, t, Token)
    <3>1. qpc[r] = "idle" /\ tokenWaiters[Token] >= 1
      <4>1. QP!SafeMaxQueue(Token) \in Nat \ {0}
        BY LimitsAssumption DEF QP!SafeMaxQueue
      <4>2. tokenWaiters[Token] \in Nat
        BY DEF QueueInv, QP!TypeInv, QP!TypeOK
      <4>3. QED
        BY <2>3, <4>1, <4>2 DEF QP!RejectToken, QP!Arrive
    <3>2. Cardinality({s \in Requests : QP!InWait(s) /\ token[s] = Token}) >= 1
      BY <3>1, SameCount DEF QueueInv, QP!TokenWaitersExact
    <3>3. PICK s \in Requests : QP!InWait(s)
      BY <3>2, FS_EmptySet
    <3>4. s # r
      BY <3>1, <3>3 DEF QP!InWait
    <3>5. Active(r) /\ Active(s)
      BY <2>2, <3>3 DEF QueueInv, WaitsAtSnapshot, Snapshot, Active, Working
    <3>6. overrun # {}
      BY <3>4, <3>5 DEF Exclusive
    <3>7. QED
      BY <2>2, <3>6 DEF QuotaOutOfSight
  <2>4. CASE ~QP!RejectToken(r, t, Token)
    <3>1. answer \in [Requests -> QP!Outcomes]
      BY DEF QueueInv, QP!TypeInv, QP!TypeOK
    <3>2. \/ \E how \in QP!Outcomes \ {"tokenFull"} :
               answer' = [answer EXCEPT ![r] = how]
          \/ answer' = answer
      BY <2>1, <2>4
      DEF QP!GetSnapshot, QP!CacheLookupEnds, QP!RejectQueueFull, QP!Enqueue,
          QP!Join, QP!Wait, QP!Answer, QP!Outcomes
    <3>3. QED
      BY <2>2, <3>1, <3>2 DEF QuotaOutOfSight
  <2>5. QED
    BY <2>3, <2>4
<1>3. ASSUME NEW r \in Requests, Wait(r) PROVE QuotaOutOfSight'
  <2>1. answer \in [Requests -> QP!Outcomes] /\ UNCHANGED overrun
    BY <1>3 DEF QueueInv, QP!TypeInv, QP!TypeOK, Wait, vars, histVars
  <2>2. \/ \E how \in QP!Outcomes \ {"tokenFull"} :
             answer' = [answer EXCEPT ![r] = how]
        \/ answer' = answer
    BY <1>3, SameQueue
    DEF Wait, QP!WaitTimeout, QP!Resume, QP!Answer, QP!WaitEnd, QP!Outcomes
  <2>3. QED
    BY <2>1, <2>2 DEF QuotaOutOfSight
<1>4. ASSUME overrun \subseteq overrun', answer' = answer PROVE QuotaOutOfSight'
  BY <1>4 DEF QuotaOutOfSight
<1>5. overrun \subseteq overrun'
  BY GateSteps, OverrunGrows DEF pipeVars, vars, histVars
<1>6. ASSUME NEW r \in Requests,
             Depend(r) \/ CheckPoint(r) \/ GiveUp(r) \/ Free(r)
      PROVE  answer' = answer
  BY <1>6 DEF Depend, Advance, CheckPoint, GiveUp, Free, queueVars
<1>7. ASSUME NEW w \in Workers, Refresh(w) PROVE answer' = answer
  BY <1>7, SameQueue
  DEF Refresh, StartJob, EndJob, ReportJob, AbandonJob, QP!Dequeue,
      QP!ThreadEnds, QP!JobDone, QP!JobTimeout
<1>8. ASSUME NEW t \in Tables, EndOrphan(t) \/ Age(t) PROVE answer' = answer
  BY <1>8, SameQueue DEF EndOrphan, Age, QP!ZombieEnds, QP!Expire
<1>9. CASE ShutDown \/ Die \/ PassTime \/ Over
  BY <1>4, <1>5, <1>9, SameQueue
  DEF ShutDown, Die, PassTime, Over, QP!Stop, QP!Terminated, QP!vars, queueVars
<1>10. CASE UNCHANGED pipeVars
  BY <1>1, <1>10 DEF pipeVars, vars, histVars, queueVars
<1>11. QED
  BY <1>2, <1>3, <1>4, <1>5, <1>6, <1>7, <1>8, <1>9, <1>10
  DEF PipeNext, Request

\* As long as no lock runs out under its request, a token never meets its queue
\* quota (auth.py 676, query_queue.py 58-61, 76-80): the count of its waiters is
\* exact, and all of them, like the request that asks, hold the token's one lock.
THEOREM QuotaInvariant == PipeSpec => []QuotaOutOfSight
<1>1. PipeInit => QuotaOutOfSight
  BY SameQueue DEF PipeInit, QP!Init, QuotaOutOfSight
<1>2. TypeOK /\ Exclusive /\ QueueInv /\ QuotaOutOfSight /\ [PipeNext]_pipeVars
        => QuotaOutOfSight'
  BY QuotaStep
<1>3. PipeSpec => []TypeOK /\ []Exclusive
  BY PipelineImplementsGate, TypeInvariant, ExclusiveInvariant
<1>4. QED
  BY <1>1, <1>2, <1>3, QueueInvariant, PTL DEF PipeSpec

-----------------------------------------------------------------------------
(* The connections *)

\* The pool's books: what is out is held by somebody at work, or by a thread
\* left behind.
Balanced ==
  /\ conn \subseteq Users
  /\ IsFiniteSet(conn) /\ IsFiniteSet(Orphans)
  /\ used = Cardinality(conn) + Cardinality(Orphans)
  /\ used <= MaxConn

PoolInv == ~stopped => Balanced

\* A thread left behind is one more in the count of its table.
LEMMA OrphanAdded ==
  ASSUME zombies \in [Tables -> Nat], IsFiniteSet(Orphans), NEW t \in Tables,
         zombies' = [zombies EXCEPT ![t] = @ + 1]
  PROVE  IsFiniteSet(Orphans') /\ Cardinality(Orphans') = Cardinality(Orphans) + 1
<1> DEFINE new == <<t, zombies[t] + 1>>
<1>1. Orphans' = Orphans \cup {new}
  <2>1. ASSUME NEW u \in Tables
        PROVE  ({u} \X (1..zombies[u]))'
                 = IF u = t THEN ({u} \X (1..zombies[u])) \cup {new}
                   ELSE {u} \X (1..zombies[u])
    <3>1. CASE u = t
      <4>1. 1..(zombies[t] + 1) = (1..zombies[t]) \cup {zombies[t] + 1}
        OBVIOUS
      <4>2. QED
        BY <3>1, <4>1
    <3>2. QED
      BY <3>1
  <2>2. QED
    BY <2>1 DEF Orphans
<1>2. new \notin Orphans
  BY DEF Orphans
<1>3. QED
  BY <1>1, <1>2, FS_AddElement

\* One that ends is one less.
LEMMA OrphanGone ==
  ASSUME zombies \in [Tables -> Nat], IsFiniteSet(Orphans), NEW t \in Tables,
         zombies[t] > 0, zombies' = [zombies EXCEPT ![t] = @ - 1]
  PROVE  IsFiniteSet(Orphans') /\ Cardinality(Orphans') = Cardinality(Orphans) - 1
<1> DEFINE old == <<t, zombies[t]>>
<1>1. Orphans' = Orphans \ {old}
  <2>1. ASSUME NEW u \in Tables
        PROVE  ({u} \X (1..zombies[u]))'
                 = IF u = t THEN ({u} \X (1..zombies[u])) \ {old}
                   ELSE {u} \X (1..zombies[u])
    <3>1. CASE u = t
      <4>1. 1..(zombies[t] - 1) = (1..zombies[t]) \ {zombies[t]}
        OBVIOUS
      <4>2. QED
        BY <3>1, <4>1
    <3>2. QED
      BY <3>1
  <2>2. QED
    BY <2>1 DEF Orphans
<1>2. old \in Orphans
  BY DEF Orphans
<1>3. QED
  BY <1>1, <1>2, FS_RemoveElement

\* getconn keeps the books when the user holds no connection yet.
LEMMA GetKeeps ==
  ASSUME Balanced, NEW user, user \notin conn, Get(user), UNCHANGED zombies,
         conn' \subseteq Users'
  PROVE  Balanced'
<1>1. Orphans' = Orphans
  BY DEF Orphans
<1>2. /\ IsFiniteSet(conn \cup {user})
      /\ Cardinality(conn \cup {user}) = Cardinality(conn) + 1
  BY FS_AddElement DEF Balanced
<1>3. Cardinality(conn) \in Nat /\ Cardinality(Orphans) \in Nat
  BY FS_CardinalityType DEF Balanced
<1>4. CASE used < MaxConn
  <2>1. used' = used + 1 /\ conn' = conn \cup {user}
    BY <1>4 DEF Get
  <2>2. QED
    BY <1>1, <1>2, <1>3, <1>4, <2>1, LimitsAssumption DEF Balanced
<1>5. CASE ~(used < MaxConn)
  <2>1. UNCHANGED <<used, conn>>
    BY <1>5 DEF Get, poolVars
  <2>2. QED
    BY <1>1, <2>1 DEF Balanced
<1>6. QED
  BY <1>4, <1>5

\* putconn keeps them, whether the user held one or not.
LEMMA PutKeeps ==
  ASSUME Balanced, NEW user, NEW raised, Put(user, raised), UNCHANGED zombies,
         conn' \subseteq Users'
  PROVE  Balanced'
<1>1. Orphans' = Orphans
  BY DEF Orphans
<1>2. /\ IsFiniteSet(conn \ {user})
      /\ Cardinality(conn \ {user})
            = IF user \in conn THEN Cardinality(conn) - 1 ELSE Cardinality(conn)
  BY FS_RemoveElement DEF Balanced
<1>3. Cardinality(conn) \in Nat /\ Cardinality(Orphans) \in Nat
  BY FS_CardinalityType DEF Balanced
<1>4. QED
  BY <1>1, <1>2, <1>3, LimitsAssumption DEF Put, Balanced

\* So does a step that touches neither.
LEMMA NoneKeeps ==
  ASSUME Balanced, UNCHANGED poolVars, UNCHANGED zombies, conn \subseteq Users'
  PROVE  Balanced'
BY DEF Balanced, poolVars, Orphans

\* Every step of the process keeps the pool's books.
LEMMA PoolStep ==
  ASSUME TypeOK, QueueInv, PoolInv, [PipeNext]_pipeVars
  PROVE  PoolInv'
<1> USE DEF TypeOK
<1>0. /\ zombies \in [Tables -> Nat]
      /\ job \in [Workers -> Tables \cup {None}]
      /\ thread \in [Workers -> {"idle", "running", "ok", "failed"}]
      /\ \A w \in Workers : job[w] = None <=> thread[w] = "idle"
      /\ Requests \cap Workers = {}
  BY NamesAssumption
  DEF QueueInv, QP!TypeInv, QP!TypeOK, QP!WorkerShape, QP!ThreadStates
<1>1. stopped => stopped'
  <2>1. [QP!Next]_(QP!vars) \/ Die
    BY SameStep
  <2>2. QED
    BY <2>1, QP!StoppedForGood, QueueFinite, QueueNone, QueueQuota, QueueSize,
       QueueWarmsNothing
    DEF Die
<1> SUFFICES ASSUME ~stopped', ~stopped, Balanced PROVE Balanced'
  BY <1>1 DEF PoolInv
<1>2. ASSUME NEW r \in Requests, Depend(r) PROVE Balanced'
  <2>1. UNCHANGED <<zombies, thread>>
    BY <1>2 DEF Depend, Advance, queueVars
  <2>2. CASE Arrive(r)
    <3>1. pc[r] = "idle"
      BY <2>2 DEF Arrive, CacheMiss, CacheHit
    <3>2. r \notin conn
      BY <1>0, <3>1 DEF Balanced, Users
    <3>3. CASE CacheMiss(r) /\ Get(r)
      <4>1. pc' = [pc EXCEPT ![r] = "loading"]
        BY <3>3 DEF CacheMiss, Goto
      <4>2. conn' \subseteq Users'
        BY <2>1, <3>1, <3>3, <4>1 DEF Balanced, Users, Get, poolVars
      <4>3. QED
        BY <2>1, <3>2, <3>3, <4>2, GetKeeps
    <3>4. CASE CacheHit(r) /\ UNCHANGED poolVars
      <4>1. pc' = [pc EXCEPT ![r] = "loaded"]
        BY <3>4 DEF CacheHit, Goto
      <4>2. conn \subseteq Users'
        BY <2>1, <3>1, <4>1 DEF Balanced, Users
      <4>3. QED
        BY <2>1, <3>4, <4>2, NoneKeeps
    <3>5. QED
      BY <2>2, <3>3, <3>4 DEF Arrive
  <2>3. CASE /\ StoreContext(r) \/ Refuse(r)
             /\ \E raised \in BOOLEAN : Put(r, raised)
    <3>1. PICK state \in PcStates : pc' = [pc EXCEPT ![r] = state]
      BY <2>3 DEF StoreContext, Refuse, EndsEarly, Goto, PcStates
    <3>2. PICK raised \in BOOLEAN : Put(r, raised)
      BY <2>3
    <3>3. conn' \subseteq Users'
      BY <2>1, <3>1, <3>2 DEF Balanced, Users, Put
    <3>4. QED
      BY <2>1, <3>2, <3>3, PutKeeps
  <2>4. CASE /\ Acquire(r) \/ SetActive(r) \/ Bind(r) \/ GrantReplyLost(r)
             /\ UNCHANGED poolVars
    <3>1. \/ UNCHANGED pc
          \/ /\ pc[r] # "loading"
             /\ \E state \in PcStates : pc' = [pc EXCEPT ![r] = state]
      BY <2>4
      DEF Acquire, Grant, Conflict, SetActive, Bind, Invalidate, GrantReplyLost,
          EndsEarly, Goto, reqVars, PcStates
    <3>2. conn \subseteq Users'
      BY <1>0, <2>1, <3>1 DEF Balanced, Users
    <3>3. QED
      BY <2>1, <2>4, <3>2, NoneKeeps
  <2>5. QED
    BY <1>2, <2>2, <2>3, <2>4 DEF Depend, Advance
<1>3. ASSUME NEW r \in Requests, CheckPoint(r) \/ GiveUp(r) \/ Free(r)
      PROVE  Balanced'
  <2>1. UNCHANGED <<zombies, thread, poolVars>>
    BY <1>3 DEF CheckPoint, GiveUp, Free, queueVars
  <2>2. /\ pc[r] # "loading"
        /\ \E state \in PcStates : pc' = [pc EXCEPT ![r] = state]
    BY <1>3
    DEF CheckPoint, GiveUp, Free, CheckOwner, CheckConflict, ClearConflict,
        Raise, Release, Leaves, Goto, Working, PcStates
  <2>3. conn \subseteq Users'
    BY <1>0, <2>1, <2>2 DEF Balanced, Users
  <2>4. QED
    BY <2>1, <2>3, NoneKeeps
<1>4. ASSUME NEW r \in Requests, Ask(r) \/ Wait(r) PROVE Balanced'
  <2>1. UNCHANGED <<zombies, thread, pc, poolVars>>
    BY <1>4, SameQueue
    DEF Ask, Wait, QP!GetSnapshot, QP!CacheLookupEnds, QP!RejectToken,
        QP!RejectQueueFull, QP!Enqueue, QP!Join, QP!Wait, QP!WaitTimeout,
        QP!Resume, QP!workVars, QP!backVars, vars, reqVars
  <2>2. QED
    BY <2>1, NoneKeeps DEF Balanced, Users
<1>5. ASSUME NEW w \in Workers, StartJob(w) PROVE Balanced'
  <2>1. /\ thread[w] = "idle" /\ thread' = [thread EXCEPT ![w] = "running"]
        /\ UNCHANGED <<zombies, pc>> /\ Get(w)
    BY <1>0, <1>5, SameQueue
    DEF StartJob, QP!Dequeue, QP!backVars, vars, reqVars
  <2>2. w \notin conn
    BY <1>0, <2>1 DEF Balanced, Users
  <2>3. conn' \subseteq Users'
    BY <1>0, <2>1 DEF Balanced, Users, Get, poolVars
  <2>4. QED
    BY <2>1, <2>2, <2>3, GetKeeps
<1>6. ASSUME NEW w \in Workers, EndJob(w) PROVE Balanced'
  <2>1. /\ \E state \in {"ok", "failed"} : thread' = [thread EXCEPT ![w] = state]
        /\ UNCHANGED <<zombies, pc>> /\ Put(w, thread'[w] = "failed")
    BY <1>6, SameQueue DEF EndJob, QP!ThreadEnds, QP!backVars, vars, reqVars
  <2>2. conn' \subseteq Users'
    BY <1>0, <2>1 DEF Balanced, Users, Put
  <2>3. QED
    BY <2>1, <2>2, PutKeeps
<1>7. ASSUME NEW w \in Workers, ReportJob(w) PROVE Balanced'
  <2>1. /\ thread[w] # "running" /\ thread' = [thread EXCEPT ![w] = "idle"]
        /\ UNCHANGED <<zombies, pc, poolVars>>
    BY <1>7, SameQueue DEF ReportJob, QP!JobDone, QP!backVars, vars, reqVars
  <2>2. conn \subseteq Users'
    BY <1>0, <2>1 DEF Balanced, Users
  <2>3. QED
    BY <2>1, <2>2, NoneKeeps
<1>8. ASSUME NEW w \in Workers, AbandonJob(w) PROVE Balanced'
  <2>1. /\ thread[w] # "idle" /\ thread' = [thread EXCEPT ![w] = "idle"]
        /\ thread[w] = "running" => w \in conn
        /\ zombies' = IF thread[w] = "running"
                      THEN [zombies EXCEPT ![job[w]] = @ + 1] ELSE zombies
        /\ conn' = conn \ {w} /\ UNCHANGED <<used, pc>>
    BY <1>8, SameQueue DEF AbandonJob, QP!JobTimeout, Orphan, vars, reqVars
  <2>2. conn' \subseteq Users'
    BY <1>0, <2>1 DEF Balanced, Users
  <2>3. CASE thread[w] = "running"
    <3>1. PICK t \in Tables : job[w] = t
      BY <1>0, <2>1
    <3>2. /\ IsFiniteSet(Orphans')
          /\ Cardinality(Orphans') = Cardinality(Orphans) + 1
      BY <1>0, <2>1, <2>3, <3>1, OrphanAdded DEF Balanced
    <3>3. IsFiniteSet(conn') /\ Cardinality(conn') = Cardinality(conn) - 1
      BY <2>1, <2>3, FS_RemoveElement DEF Balanced
    <3>4. Cardinality(conn) \in Nat /\ Cardinality(Orphans) \in Nat
      BY FS_CardinalityType DEF Balanced
    <3>5. QED
      BY <2>1, <2>2, <3>2, <3>3, <3>4 DEF Balanced
  <2>4. CASE thread[w] # "running"
    <3>1. w \notin conn
      BY <1>0, <2>4 DEF Balanced, Users
    <3>2. UNCHANGED <<poolVars, zombies>>
      BY <2>1, <2>4, <3>1 DEF poolVars
    <3>3. QED
      BY <2>2, <3>2, NoneKeeps DEF poolVars
  <2>5. QED
    BY <2>3, <2>4
<1>9. ASSUME NEW t \in Tables, EndOrphan(t) PROVE Balanced'
  <2>1. /\ zombies[t] > 0 /\ zombies' = [zombies EXCEPT ![t] = @ - 1]
        /\ used' = used - 1 /\ UNCHANGED <<thread, pc, conn>>
    BY <1>9, SameQueue DEF EndOrphan, QP!ZombieEnds, QP!workVars, vars, reqVars
  <2>2. IsFiniteSet(Orphans') /\ Cardinality(Orphans') = Cardinality(Orphans) - 1
    BY <1>0, <2>1, OrphanGone DEF Balanced
  <2>3. Cardinality(conn) \in Nat /\ Cardinality(Orphans) \in Nat
    BY FS_CardinalityType DEF Balanced
  <2>4. QED
    BY <2>1, <2>2, <2>3, LimitsAssumption DEF Balanced, Users
<1>10. ASSUME NEW t \in Tables, Age(t) PROVE Balanced'
  <2>1. UNCHANGED <<zombies, thread, pc, poolVars>>
    BY <1>10, SameQueue
    DEF Age, QP!Expire, QP!workVars, QP!backVars, vars, reqVars
  <2>2. QED
    BY <2>1, NoneKeeps DEF Balanced, Users
<1>11. CASE ShutDown
  BY <1>11, SameQueue DEF ShutDown, QP!Stop
<1>12. CASE Die
  <2>1. Orphans' = {}
    BY <1>12 DEF Die, Orphans
  <2>2. QED
    BY <1>12, <2>1, FS_EmptySet, LimitsAssumption DEF Die, Balanced
<1>13. CASE PassTime \/ Over \/ UNCHANGED pipeVars
  <2>1. UNCHANGED <<zombies, thread, pc, poolVars>>
    BY <1>13, SameQueue
    DEF PassTime, Over, Tick, QP!Terminated, QP!vars, pipeVars, vars, reqVars,
        queueVars
  <2>2. QED
    BY <2>1, NoneKeeps DEF Balanced, Users
<1>14. QED
  BY <1>2, <1>3, <1>4, <1>5, <1>6, <1>7, <1>8, <1>9, <1>10, <1>11, <1>12, <1>13
  DEF PipeNext, Request, Refresh

\* A new pool has nothing out.
LEMMA InitPool == PipeInit => PoolInv
<1> SUFFICES ASSUME PipeInit PROVE Balanced
  BY DEF PoolInv
<1>1. Orphans = {}
  BY SameQueue DEF PipeInit, QP!Init, Orphans
<1>2. QED
  BY <1>1, FS_EmptySet, LimitsAssumption DEF PipeInit, Balanced

\* No failure, time-out or death loses a connection while the service runs: each
\* one that is out has a request or thread at the database, or a thread left
\* behind, and the pool is never overdrawn (db.py 32-49).
THEOREM PoolInvariant == PipeSpec => []PoolBalance
<1>1. PipeInit => PoolInv
  BY InitPool
<1>2. TypeOK /\ QueueInv /\ PoolInv /\ [PipeNext]_pipeVars => PoolInv'
  BY PoolStep
<1>3. PipeSpec => []TypeOK
  BY PipelineImplementsGate, TypeInvariant
<1>4. PoolInv => PoolBalance
  BY DEF PoolInv, Balanced, PoolBalance
<1>5. QED
  BY <1>1, <1>2, <1>3, <1>4, QueueInvariant, PTL DEF PipeSpec
=============================================================================
