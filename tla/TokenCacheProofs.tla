-------------------------- MODULE TokenCacheProofs --------------------------
(***************************************************************************)
(* Proofs about TokenCache, for every number of requests and all times:    *)
(* the age of the state a request is judged by, and that lookups that run  *)
(* one at a time never miss a token that has a row.                        *)
(***************************************************************************)
EXTENDS TokenCache, TLAPS

\* The row has its value now, and no value is seen in the future.
SeenInTime ==
  /\ lastSeen[row] = now
  /\ \A v \in Rows : lastSeen[v] <= now

\* What a request has read was the row when it read it, not long ago.
HeldIsRecent ==
  \A r \in Requests :
    pc[r] = "read" => /\ readAt[r] <= now /\ now - readAt[r] <= MaxLoad
                      /\ lastSeen[held[r]] >= readAt[r]

\* What is cached was the row at most a load before it was stored.
EntryIsRecent ==
  entry # "none" => /\ lastSeen[entry] >= 0
                    /\ lastSeen[entry] >= expiry - CacheTTL - MaxLoad

StaleInv == TypeOK /\ SeenInTime /\ HeldIsRecent /\ EntryIsRecent /\ BoundedStaleness

\* Lookups one at a time: one that has missed finds nothing in the cache, or
\* a live entry that says that the row is absent.
AloneInv ==
  alone =>
    /\ \A q, r \in Requests : InFlight(q) /\ InFlight(r) => q = r
    /\ \A r \in Requests :
         pc[r] = "missed" /\ entry # "none" => entry = "absent" /\ Live
    /\ MissingOnlyIfAbsent

-----------------------------------------------------------------------------

LEMMA InitStale == Init => StaleInv
<1> SUFFICES ASSUME Init PROVE StaleInv
  OBVIOUS
<1> USE TimeAssumption, RowsAssumption DEF Init, Rows, Never
<1>1. TypeOK
  BY DEF TypeOK
<1>2. SeenInTime /\ HeldIsRecent /\ EntryIsRecent /\ BoundedStaleness
  BY DEF SeenInTime, HeldIsRecent, EntryIsRecent, BoundedStaleness
<1>3. QED
  BY <1>1, <1>2 DEF StaleInv

\* A store follows the reading of the row by at most MaxLoad; a live entry is
\* at most CacheTTL old, so whom it answers is told no older state.
LEMMA StaleStep == StaleInv /\ [Next]_vars => StaleInv'
<1> SUFFICES ASSUME StaleInv, [Next]_vars PROVE StaleInv'
  OBVIOUS
<1> USE TimeAssumption
    DEF StaleInv, TypeOK, Rows, Never, Goto, reqVars,
        SeenInTime, HeldIsRecent, EntryIsRecent, BoundedStaleness
<1>1. ASSUME NEW r \in Requests, Look(r)
      PROVE  StaleInv'
  BY <1>1 DEF Look, Tell, Live
<1>2. ASSUME NEW r \in Requests, Evict(r)
      PROVE  StaleInv'
  BY <1>2 DEF Evict
<1>3. ASSUME NEW r \in Requests, TestPresence(r)
      PROVE  StaleInv'
  BY <1>3 DEF TestPresence, Tell
<1>4. ASSUME NEW r \in Requests, ReadRow(r)
      PROVE  StaleInv'
  BY <1>4 DEF ReadRow
<1>5. ASSUME NEW r \in Requests, ReadFails(r)
      PROVE  StaleInv'
  BY <1>5 DEF ReadFails
<1>6. ASSUME NEW r \in Requests, Store(r)
      PROVE  StaleInv'
  BY <1>6 DEF Store, Tell
<1>7. CASE Invalidate
  BY <1>7 DEF Invalidate
<1>8. CASE RowChanges
  BY <1>8 DEF RowChanges
<1>9. CASE Tick
  BY <1>9 DEF Tick
<1>10. CASE UNCHANGED vars
  BY <1>10 DEF vars
<1>11. QED
  BY <1>1, <1>2, <1>3, <1>4, <1>5, <1>6, <1>7, <1>8, <1>9, <1>10 DEF Next, Load

\* What lookups one at a time keep.  Only a lookup stores, so nothing is stored
\* while another one is between its look and its test.
LEMMA AloneStep == StaleInv /\ AloneInv /\ [Next]_vars => AloneInv'
<1> SUFFICES ASSUME StaleInv, AloneInv, [Next]_vars PROVE AloneInv'
  OBVIOUS
<1> USE TimeAssumption
    DEF StaleInv, TypeOK, Rows, Never, Goto, reqVars, Live, InFlight,
        SeenInTime, HeldIsRecent, EntryIsRecent, AloneInv, MissingOnlyIfAbsent
<1>1. ASSUME NEW r \in Requests, Look(r)
      PROVE  AloneInv'
  <2> SUFFICES ASSUME alone' PROVE AloneInv'
    OBVIOUS
  <2>1. alone /\ \A q \in Requests : ~InFlight(q)
    BY <1>1 DEF Look
  <2>2. \A q \in Requests : q # r => pc'[q] = pc[q] /\ answer'[q] = answer[q]
                                    /\ age'[q] = age[q]
    BY <1>1 DEF Look, Tell
  <2>3. \A q \in Requests : InFlight(q)' => q = r
    BY <2>1, <2>2
  <2>4. pc'[r] = "missed" /\ entry' # "none" => entry' = "absent" /\ Live'
    BY <1>1 DEF Look, Tell
  <2>5. answer'[r] # "absent" \/ (answer'[r] = answer[r] /\ age'[r] = age[r])
    BY <1>1 DEF Look, Tell
  <2>6. MissingOnlyIfAbsent'
    BY <2>1, <2>2, <2>5
  <2>7. \A q \in Requests :
          pc'[q] = "missed" /\ entry' # "none" => entry' = "absent" /\ Live'
    BY <2>3, <2>4
  <2>8. QED
    BY <2>3, <2>6, <2>7
<1>2. ASSUME NEW r \in Requests, Evict(r)
      PROVE  AloneInv'
  BY <1>2 DEF Evict
<1>3. ASSUME NEW r \in Requests, TestPresence(r)
      PROVE  AloneInv'
  BY <1>3 DEF TestPresence, Tell
<1>4. ASSUME NEW r \in Requests, ReadRow(r)
      PROVE  AloneInv'
  BY <1>4 DEF ReadRow
<1>5. ASSUME NEW r \in Requests, ReadFails(r)
      PROVE  AloneInv'
  BY <1>5 DEF ReadFails
<1>6. ASSUME NEW r \in Requests, Store(r)
      PROVE  AloneInv'
  BY <1>6 DEF Store, Tell
<1>7. CASE Invalidate
  BY <1>7 DEF Invalidate
<1>8. CASE RowChanges
  BY <1>8 DEF RowChanges
<1>9. CASE Tick
  BY <1>9 DEF Tick
<1>10. CASE UNCHANGED vars
  BY <1>10 DEF vars
<1>11. QED
  BY <1>1, <1>2, <1>3, <1>4, <1>5, <1>6, <1>7, <1>8, <1>9, <1>10 DEF Next, Load

LEMMA StaleInvariant == Spec => []StaleInv
  BY InitStale, StaleStep, PTL DEF Spec

\* The cache's state is well-typed; an entry never outlives one lifetime from
\* now (auth.py 225).
THEOREM TypeInvariant == Spec => []TypeOK
<1>1. StaleInv => TypeOK
  BY DEF StaleInv
<1>2. QED
  BY <1>1, StaleInvariant, PTL

\* A request is admitted or refused for a state its row had at most a cache
\* lifetime and a load ago, whatever other lookups and invalidations do
\* (auth.py 131-150, 225).
THEOREM StalenessInvariant == Spec => []BoundedStaleness
<1>1. StaleInv => BoundedStaleness
  BY DEF StaleInv
<1>2. QED
  BY <1>1, StaleInvariant, PTL

\* Lookups that run one at a time report a token as missing only if it had no
\* row that recently (auth.py 148-150, 667-668).
THEOREM MissingInvariant == Spec => []MissingWhenAlone
<1>1. Init => AloneInv
  BY DEF Init, AloneInv, InFlight, MissingOnlyIfAbsent
<1>2. AloneInv => MissingWhenAlone
  BY DEF AloneInv, MissingWhenAlone
<1>3. QED
  BY <1>1, <1>2, AloneStep, StaleInvariant, PTL DEF Spec
=============================================================================
