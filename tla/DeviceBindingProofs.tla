------------------------- MODULE DeviceBindingProofs -------------------------
(***************************************************************************)
(* Proofs about DeviceBinding, for every number of requests and devices,   *)
(* every mode and every budget: what holds however many requests are in    *)
(* the dependency at once, and the documented rules for one at a time.     *)
(***************************************************************************)
EXTENDS DeviceBinding, TLAPS

Working  == {"read", "loaded", "mismatched", "rebinding", "bindUpdate", "rebindUpdate"}
Settling == {"bound", "rebound", "debiting"}

\* A request at work has a context, its own if it has just read it; one that is
\* to be bound has a device.
HasContext ==
  \A r \in Requests :
    /\ pc[r] \in Working \cup Settling \cup {"adopted"} => ctx[r] \in Requests
    /\ pc[r] = "read" => ctx[r] = r
    /\ pc[r] \in {"mismatched", "rebinding", "bindUpdate", "rebindUpdate"} => device[r] # None

\* A context never has fewer rebinds left than the row, and neither has what a
\* request is about to write into one.
ContextsLag ==
  /\ cached # None => objRemain[cached] >= dbRemain
  /\ \A r \in Requests :
       /\ ctx[r] # None => objRemain[ctx[r]] >= dbRemain
       /\ pc[r] = "rebindUpdate" => before[r] >= dbRemain
       /\ pc[r] \in {"rebound", "debiting"} => Less(before[r]) >= dbRemain

\* Every device that a context or the row has held was bound.
DevicesWereBound ==
  /\ dbDevice \in ever \cup {None}
  /\ \A c \in Requests : objDevice[c] \in ever \cup {None}
  /\ \A r \in Requests :
       pc[r] \in Settling \cup {"adopted"} => device[r] \in ever

RowInv ==
  /\ TypeOK /\ HasContext /\ RemainingExact /\ ContextsLag /\ DevicesWereBound
  /\ AdmittedWasBound

Consented ==
  \A r \in Requests : pc[r] \in {"rebinding", "rebindUpdate"} => consents[r]

\* When requests come one at a time, the context in use and the one in the
\* cache agree with the row, but for the steps that carry an update over.
CalmInv ==
  calm =>
    /\ \A q, r \in Requests : q \in Busy /\ r \in Busy => q = r
    /\ BudgetRespected
    /\ \A r \in Requests :
         /\ pc[r] = "reading" => cached = None
         /\ pc[r] = "read" => cached = None
         /\ pc[r] \in Working =>
              /\ objDevice[ctx[r]] = dbDevice /\ objRemain[ctx[r]] = dbRemain
              /\ cached \in {None, ctx[r]}
         /\ pc[r] = "bindUpdate" => dbDevice = None
         /\ pc[r] = "rebindUpdate" => before[r] = dbRemain /\ dbRemain > 0
         /\ pc[r] \in Settling =>
              dbDevice = device[r] /\ cached \in {None, ctx[r]}
         /\ pc[r] = "bound" => objRemain[ctx[r]] = dbRemain
         /\ pc[r] \in {"rebound", "debiting"} => Less(before[r]) = dbRemain
         /\ pc[r] = "debiting" => objDevice[ctx[r]] = dbDevice
    /\ cached # None /\ (\A r \in Requests : pc[r] \notin Settling) =>
         objDevice[cached] = dbDevice /\ objRemain[cached] = dbRemain

-----------------------------------------------------------------------------
(* One step *)

\* Typing, and where contexts come from.
LEMMA TypeStep ==
  ASSUME TypeOK /\ HasContext, [Next]_vars
  PROVE  (TypeOK /\ HasContext)'
<1> USE NoneAssumption, NumberAssumption
         DEF TypeOK, PcStates, Ended, HasContext, Working, Settling,
             Goto, argVars, rowVars, objVars
<1>1. ASSUME NEW r \in Requests, Load(r)
      PROVE  (TypeOK /\ HasContext)'
  BY <1>1 DEF Load
<1>2. ASSUME NEW r \in Requests, ReadRow(r)
      PROVE  (TypeOK /\ HasContext)'
  BY <1>2 DEF ReadRow
<1>3. ASSUME NEW r \in Requests, StoreContext(r)
      PROVE  (TypeOK /\ HasContext)'
  BY <1>3 DEF StoreContext
<1>4. ASSUME NEW r \in Requests, Inspect(r)
      PROVE  (TypeOK /\ HasContext)'
  BY <1>4 DEF Inspect, Mine, Binding
<1>5. ASSUME NEW r \in Requests, CheckRebind(r)
      PROVE  (TypeOK /\ HasContext)'
  BY <1>5 DEF CheckRebind, Mine
<1>6. ASSUME NEW r \in Requests, UpdateBind(r)
      PROVE  (TypeOK /\ HasContext)'
  BY <1>6 DEF UpdateBind, BindRow, SetRow
<1>7. ASSUME NEW r \in Requests, UpdateRebind(r)
      PROVE  (TypeOK /\ HasContext)'
  BY <1>7 DEF UpdateRebind, RebindRow, SetRow, Less
<1>8. ASSUME NEW r \in Requests, UpdateFails(r)
      PROVE  (TypeOK /\ HasContext)'
  <2>1. pc' = [pc EXCEPT ![r] = "refused"]
    BY <1>8 DEF UpdateFails
  <2>2. UNCHANGED <<argVars, cached, objVars, ctx, before>>
    BY <1>8 DEF UpdateFails
  <2>3. calm' \in BOOLEAN
    BY <1>8 DEF UpdateFails
  <2>4. /\ dbDevice' \in Devices \cup {None} /\ dbRemain' \in 0..Budget
        /\ ever' \in SUBSET Devices /\ rebinds' \in Nat
    <3>1. CASE UNCHANGED rowVars
      BY <3>1
    <3>2. CASE BindRow(r) /\ pc[r] = "bindUpdate"
      BY <3>2 DEF BindRow, SetRow
    <3>3. CASE RebindRow(r) /\ pc[r] = "rebindUpdate"
      BY <3>3 DEF RebindRow, SetRow, Less
    <3>4. QED
      BY <1>8, <3>1, <3>2, <3>3 DEF UpdateFails
  <2>5. QED
    BY <2>1, <2>2, <2>3, <2>4
<1>9. ASSUME NEW r \in Requests, AdoptDevice(r)
      PROVE  (TypeOK /\ HasContext)'
  BY <1>9 DEF AdoptDevice
<1>10. ASSUME NEW r \in Requests, AdoptRemaining(r)
       PROVE  (TypeOK /\ HasContext)'
  BY <1>10 DEF AdoptRemaining, Less
<1>11. ASSUME NEW r \in Requests, Invalidate(r)
       PROVE  (TypeOK /\ HasContext)'
  BY <1>11 DEF Invalidate
<1>12. ASSUME NEW r \in Requests, DatabaseFails(r)
       PROVE  (TypeOK /\ HasContext)'
  BY <1>12 DEF DatabaseFails
<1>13. ASSUME NEW r \in Requests, Finish(r)
       PROVE  (TypeOK /\ HasContext)'
  BY <1>13 DEF Finish
<1>16. ASSUME NEW r \in Requests, ConsiderRebind(r)
       PROVE  (TypeOK /\ HasContext)'
  BY <1>16 DEF ConsiderRebind
<1>17. ASSUME NEW r \in Requests, Barred(r)
       PROVE  (TypeOK /\ HasContext)'
  BY <1>17 DEF Barred
<1>14. CASE CacheExpires
  BY <1>14 DEF CacheExpires
<1>15. CASE UNCHANGED vars
  BY <1>15 DEF vars
<1>18. QED
  BY <1>1, <1>2, <1>3, <1>4, <1>5, <1>6, <1>7, <1>8, <1>9, <1>10, <1>11,
     <1>12, <1>13, <1>14, <1>15, <1>16, <1>17 DEF Next, Terminated

\* The row's count: SQL decrements what the row holds, so whatever the contexts
\* say no decrement is lost.
LEMMA CountStep ==
  ASSUME TypeOK /\ RemainingExact, [Next]_vars
  PROVE  RemainingExact'
<1> USE NoneAssumption, NumberAssumption
         DEF TypeOK, RemainingExact, Goto, argVars, rowVars, objVars
<1>1. ASSUME NEW r \in Requests, Load(r)
      PROVE  RemainingExact'
  BY <1>1 DEF Load
<1>2. ASSUME NEW r \in Requests, ReadRow(r)
      PROVE  RemainingExact'
  BY <1>2 DEF ReadRow
<1>3. ASSUME NEW r \in Requests, StoreContext(r)
      PROVE  RemainingExact'
  BY <1>3 DEF StoreContext
<1>4. ASSUME NEW r \in Requests, Inspect(r)
      PROVE  RemainingExact'
  BY <1>4 DEF Inspect, Mine, Binding
<1>5. ASSUME NEW r \in Requests, CheckRebind(r)
      PROVE  RemainingExact'
  BY <1>5 DEF CheckRebind, Mine
<1>6. ASSUME NEW r \in Requests, UpdateBind(r)
      PROVE  RemainingExact'
  BY <1>6 DEF UpdateBind, BindRow, SetRow
<1>7. ASSUME NEW r \in Requests, UpdateRebind(r)
      PROVE  RemainingExact'
  BY <1>7 DEF UpdateRebind, RebindRow, SetRow, Less
<1>8. ASSUME NEW r \in Requests, UpdateFails(r)
      PROVE  RemainingExact'
  BY <1>8 DEF UpdateFails, BindRow, RebindRow, SetRow, Less
<1>9. ASSUME NEW r \in Requests, AdoptDevice(r)
      PROVE  RemainingExact'
  BY <1>9 DEF AdoptDevice
<1>10. ASSUME NEW r \in Requests, AdoptRemaining(r)
       PROVE  RemainingExact'
  BY <1>10 DEF AdoptRemaining, Less
<1>11. ASSUME NEW r \in Requests, Invalidate(r)
       PROVE  RemainingExact'
  BY <1>11 DEF Invalidate
<1>12. ASSUME NEW r \in Requests, DatabaseFails(r)
       PROVE  RemainingExact'
  BY <1>12 DEF DatabaseFails
<1>13. ASSUME NEW r \in Requests, Finish(r)
       PROVE  RemainingExact'
  BY <1>13 DEF Finish
<1>16. ASSUME NEW r \in Requests, ConsiderRebind(r)
       PROVE  RemainingExact'
  BY <1>16 DEF ConsiderRebind
<1>17. ASSUME NEW r \in Requests, Barred(r)
       PROVE  RemainingExact'
  BY <1>17 DEF Barred
<1>14. CASE CacheExpires
  BY <1>14 DEF CacheExpires
<1>15. CASE UNCHANGED vars
  BY <1>15 DEF vars
<1>18. QED
  BY <1>1, <1>2, <1>3, <1>4, <1>5, <1>6, <1>7, <1>8, <1>9, <1>10, <1>11,
     <1>12, <1>13, <1>14, <1>15, <1>16, <1>17 DEF Next, Terminated

\* The contexts' counts lag behind the row's: a decrement of the row precedes
\* that of the context, which starts from a count that was no smaller.
LEMMA LagStep ==
  ASSUME TypeOK /\ HasContext /\ ContextsLag, [Next]_vars
  PROVE  ContextsLag'
<1> USE NoneAssumption, NumberAssumption
         DEF TypeOK, HasContext, ContextsLag, Less, Working, Settling,
             Goto, argVars, rowVars, objVars
<1>1. ASSUME NEW r \in Requests, Load(r)
      PROVE  ContextsLag'
  BY <1>1 DEF Load
<1>2. ASSUME NEW r \in Requests, ReadRow(r)
      PROVE  ContextsLag'
  BY <1>2 DEF ReadRow
<1>3. ASSUME NEW r \in Requests, StoreContext(r)
      PROVE  ContextsLag'
  BY <1>3 DEF StoreContext
<1>4. ASSUME NEW r \in Requests, Inspect(r)
      PROVE  ContextsLag'
  BY <1>4 DEF Inspect, Mine, Binding
<1>5. ASSUME NEW r \in Requests, CheckRebind(r)
      PROVE  ContextsLag'
  BY <1>5 DEF CheckRebind, Mine
<1>6. ASSUME NEW r \in Requests, UpdateBind(r)
      PROVE  ContextsLag'
  BY <1>6 DEF UpdateBind, BindRow, SetRow
<1>7. ASSUME NEW r \in Requests, UpdateRebind(r)
      PROVE  ContextsLag'
  BY <1>7 DEF UpdateRebind, RebindRow, SetRow, Less
<1>8. ASSUME NEW r \in Requests, UpdateFails(r)
      PROVE  ContextsLag'
  BY <1>8 DEF UpdateFails, BindRow, RebindRow, SetRow, Less
<1>9. ASSUME NEW r \in Requests, AdoptDevice(r)
      PROVE  ContextsLag'
  BY <1>9 DEF AdoptDevice
<1>10. ASSUME NEW r \in Requests, AdoptRemaining(r)
       PROVE  ContextsLag'
  BY <1>10 DEF AdoptRemaining, Less
<1>11. ASSUME NEW r \in Requests, Invalidate(r)
       PROVE  ContextsLag'
  BY <1>11 DEF Invalidate
<1>12. ASSUME NEW r \in Requests, DatabaseFails(r)
       PROVE  ContextsLag'
  BY <1>12 DEF DatabaseFails
<1>13. ASSUME NEW r \in Requests, Finish(r)
       PROVE  ContextsLag'
  BY <1>13 DEF Finish
<1>16. ASSUME NEW r \in Requests, ConsiderRebind(r)
       PROVE  ContextsLag'
  BY <1>16 DEF ConsiderRebind
<1>17. ASSUME NEW r \in Requests, Barred(r)
       PROVE  ContextsLag'
  BY <1>17 DEF Barred
<1>14. CASE CacheExpires
  BY <1>14 DEF CacheExpires
<1>15. CASE UNCHANGED vars
  BY <1>15 DEF vars
<1>18. QED
  BY <1>1, <1>2, <1>3, <1>4, <1>5, <1>6, <1>7, <1>8, <1>9, <1>10, <1>11,
     <1>12, <1>13, <1>14, <1>15, <1>16, <1>17 DEF Next, Terminated

\* A device is admitted for a match with a context or after its own UPDATE.
LEMMA BoundStep ==
  ASSUME TypeOK /\ HasContext /\ DevicesWereBound /\ AdmittedWasBound, [Next]_vars
  PROVE  (DevicesWereBound /\ AdmittedWasBound)'
<1> USE NoneAssumption, NumberAssumption
         DEF TypeOK, HasContext, DevicesWereBound, AdmittedWasBound, Binding,
             Working, Settling, Goto, argVars, rowVars, objVars
<1>1. ASSUME NEW r \in Requests, Load(r)
      PROVE  (DevicesWereBound /\ AdmittedWasBound)'
  BY <1>1 DEF Load
<1>2. ASSUME NEW r \in Requests, ReadRow(r)
      PROVE  (DevicesWereBound /\ AdmittedWasBound)'
  BY <1>2 DEF ReadRow
<1>3. ASSUME NEW r \in Requests, StoreContext(r)
      PROVE  (DevicesWereBound /\ AdmittedWasBound)'
  BY <1>3 DEF StoreContext
<1>4. ASSUME NEW r \in Requests, Inspect(r)
      PROVE  (DevicesWereBound /\ AdmittedWasBound)'
  BY <1>4 DEF Inspect, Mine, Binding
<1>5. ASSUME NEW r \in Requests, CheckRebind(r)
      PROVE  (DevicesWereBound /\ AdmittedWasBound)'
  BY <1>5 DEF CheckRebind, Mine
<1>6. ASSUME NEW r \in Requests, UpdateBind(r)
      PROVE  (DevicesWereBound /\ AdmittedWasBound)'
  BY <1>6 DEF UpdateBind, BindRow, SetRow
<1>7. ASSUME NEW r \in Requests, UpdateRebind(r)
      PROVE  (DevicesWereBound /\ AdmittedWasBound)'
  BY <1>7 DEF UpdateRebind, RebindRow, SetRow, Less
<1>8. ASSUME NEW r \in Requests, UpdateFails(r)
      PROVE  (DevicesWereBound /\ AdmittedWasBound)'
  BY <1>8 DEF UpdateFails, BindRow, RebindRow, SetRow, Less
<1>9. ASSUME NEW r \in Requests, AdoptDevice(r)
      PROVE  (DevicesWereBound /\ AdmittedWasBound)'
  BY <1>9 DEF AdoptDevice
<1>10. ASSUME NEW r \in Requests, AdoptRemaining(r)
       PROVE  (DevicesWereBound /\ AdmittedWasBound)'
  BY <1>10 DEF AdoptRemaining, Less
<1>11. ASSUME NEW r \in Requests, Invalidate(r)
       PROVE  (DevicesWereBound /\ AdmittedWasBound)'
  BY <1>11 DEF Invalidate
<1>12. ASSUME NEW r \in Requests, DatabaseFails(r)
       PROVE  (DevicesWereBound /\ AdmittedWasBound)'
  BY <1>12 DEF DatabaseFails
<1>13. ASSUME NEW r \in Requests, Finish(r)
       PROVE  (DevicesWereBound /\ AdmittedWasBound)'
  BY <1>13 DEF Finish
<1>16. ASSUME NEW r \in Requests, ConsiderRebind(r)
       PROVE  (DevicesWereBound /\ AdmittedWasBound)'
  BY <1>16 DEF ConsiderRebind
<1>17. ASSUME NEW r \in Requests, Barred(r)
       PROVE  (DevicesWereBound /\ AdmittedWasBound)'
  BY <1>17 DEF Barred
<1>14. CASE CacheExpires
  BY <1>14 DEF CacheExpires
<1>15. CASE UNCHANGED vars
  BY <1>15 DEF vars
<1>18. QED
  BY <1>1, <1>2, <1>3, <1>4, <1>5, <1>6, <1>7, <1>8, <1>9, <1>10, <1>11,
     <1>12, <1>13, <1>14, <1>15, <1>16, <1>17 DEF Next, Terminated

\* A rebind is entered only with consent, which the request keeps.
LEMMA ConsentStep ==
  ASSUME TypeOK /\ Consented, [Next]_vars
  PROVE  Consented'
<1> USE NoneAssumption, NumberAssumption
         DEF TypeOK, Consented, Goto, argVars, rowVars, objVars
<1>1. ASSUME NEW r \in Requests, Load(r)
      PROVE  Consented'
  BY <1>1 DEF Load
<1>2. ASSUME NEW r \in Requests, ReadRow(r)
      PROVE  Consented'
  BY <1>2 DEF ReadRow
<1>3. ASSUME NEW r \in Requests, StoreContext(r)
      PROVE  Consented'
  BY <1>3 DEF StoreContext
<1>4. ASSUME NEW r \in Requests, Inspect(r)
      PROVE  Consented'
  BY <1>4 DEF Inspect, Mine, Binding
<1>5. ASSUME NEW r \in Requests, CheckRebind(r)
      PROVE  Consented'
  BY <1>5 DEF CheckRebind, Mine
<1>6. ASSUME NEW r \in Requests, UpdateBind(r)
      PROVE  Consented'
  BY <1>6 DEF UpdateBind, BindRow, SetRow
<1>7. ASSUME NEW r \in Requests, UpdateRebind(r)
      PROVE  Consented'
  BY <1>7 DEF UpdateRebind, RebindRow, SetRow, Less
<1>8. ASSUME NEW r \in Requests, UpdateFails(r)
      PROVE  Consented'
  BY <1>8 DEF UpdateFails, BindRow, RebindRow, SetRow, Less
<1>9. ASSUME NEW r \in Requests, AdoptDevice(r)
      PROVE  Consented'
  BY <1>9 DEF AdoptDevice
<1>10. ASSUME NEW r \in Requests, AdoptRemaining(r)
       PROVE  Consented'
  BY <1>10 DEF AdoptRemaining, Less
<1>11. ASSUME NEW r \in Requests, Invalidate(r)
       PROVE  Consented'
  BY <1>11 DEF Invalidate
<1>12. ASSUME NEW r \in Requests, DatabaseFails(r)
       PROVE  Consented'
  BY <1>12 DEF DatabaseFails
<1>13. ASSUME NEW r \in Requests, Finish(r)
       PROVE  Consented'
  BY <1>13 DEF Finish
<1>16. ASSUME NEW r \in Requests, ConsiderRebind(r)
       PROVE  Consented'
  BY <1>16 DEF ConsiderRebind
<1>17. ASSUME NEW r \in Requests, Barred(r)
       PROVE  Consented'
  BY <1>17 DEF Barred
<1>14. CASE CacheExpires
  BY <1>14 DEF CacheExpires
<1>15. CASE UNCHANGED vars
  BY <1>15 DEF vars
<1>18. QED
  BY <1>1, <1>2, <1>3, <1>4, <1>5, <1>6, <1>7, <1>8, <1>9, <1>10, <1>11,
     <1>12, <1>13, <1>14, <1>15, <1>16, <1>17 DEF Next, Terminated

\* One request at a time: nobody touches row, cache or context between the steps
\* that carry an update from the row to the context.
LEMMA CalmStep ==
  ASSUME RowInv /\ CalmInv, [Next]_vars
  PROVE  CalmInv'
<1> USE NoneAssumption, NumberAssumption
         DEF RowInv, TypeOK, PcStates, Ended, HasContext, RemainingExact,
             CalmInv, BudgetRespected, Busy, Less, Working, Settling,
             Goto, argVars, rowVars, objVars
<1>1. ASSUME NEW r \in Requests, Load(r)
      PROVE  CalmInv'
  <2> SUFFICES ASSUME calm' PROVE CalmInv'
    OBVIOUS
  <2>1. calm /\ Busy = {}
    BY <1>1 DEF Load
  <2>2. \A q \in Requests \ {r} : pc'[q] = pc[q] /\ ctx'[q] = ctx[q] /\ device'[q] = device[q]
    BY <1>1 DEF Load
  <2>3. \/ pc'[r] = "loaded" /\ ctx'[r] = cached /\ cached # None
        \/ pc'[r] = "reading" /\ cached = None
    <3>1. CASE /\ cached # None /\ pc' = [pc EXCEPT ![r] = "loaded"]
               /\ ctx' = [ctx EXCEPT ![r] = cached]
      BY <3>1
    <3>2. CASE cached = None /\ pc' = [pc EXCEPT ![r] = "reading"]
      BY <3>2
    <3>3. QED
      BY <1>1, <3>1, <3>2 DEF Load
  <2>4. \A q \in Requests \ {r} : pc'[q] \in {"idle", "refused", "turnedAway", "served"}
    BY <2>1, <2>2
  <2>5. UNCHANGED <<rowVars, cached, objVars, before>>
    BY <1>1 DEF Load
  <2>6. cached # None => objDevice[cached] = dbDevice /\ objRemain[cached] = dbRemain
    BY <2>1
  <2>7. QED
    BY <2>1, <2>2, <2>3, <2>4, <2>5, <2>6
<1>2. ASSUME NEW r \in Requests, ReadRow(r)
      PROVE  CalmInv'
  BY <1>2 DEF ReadRow
<1>3. ASSUME NEW r \in Requests, StoreContext(r)
      PROVE  CalmInv'
  BY <1>3 DEF StoreContext
<1>4. ASSUME NEW r \in Requests, Inspect(r)
      PROVE  CalmInv'
  BY <1>4 DEF Inspect, Mine, Binding
<1>5. ASSUME NEW r \in Requests, CheckRebind(r)
      PROVE  CalmInv'
  BY <1>5 DEF CheckRebind, Mine
<1>6. ASSUME NEW r \in Requests, UpdateBind(r)
      PROVE  CalmInv'
  BY <1>6 DEF UpdateBind, BindRow, SetRow
<1>7. ASSUME NEW r \in Requests, UpdateRebind(r)
      PROVE  CalmInv'
  BY <1>7 DEF UpdateRebind, RebindRow, SetRow, Less
<1>8. ASSUME NEW r \in Requests, UpdateFails(r)
      PROVE  CalmInv'
  <2> SUFFICES ASSUME calm' PROVE CalmInv'
    OBVIOUS
  <2>1. calm /\ UNCHANGED rowVars /\ pc[r] \in {"bindUpdate", "rebindUpdate"}
    BY <1>8 DEF UpdateFails
  <2>2. UNCHANGED <<argVars, cached, objVars, ctx, before>>
    BY <1>8 DEF UpdateFails
  <2>3. pc' = [pc EXCEPT ![r] = "refused"]
    BY <1>8 DEF UpdateFails
  <2>4. QED
    BY <2>1, <2>2, <2>3
<1>9. ASSUME NEW r \in Requests, AdoptDevice(r)
      PROVE  CalmInv'
  BY <1>9 DEF AdoptDevice
<1>10. ASSUME NEW r \in Requests, AdoptRemaining(r)
       PROVE  CalmInv'
  BY <1>10 DEF AdoptRemaining, Less
<1>11. ASSUME NEW r \in Requests, Invalidate(r)
       PROVE  CalmInv'
  BY <1>11 DEF Invalidate
<1>12. ASSUME NEW r \in Requests, DatabaseFails(r)
       PROVE  CalmInv'
  BY <1>12 DEF DatabaseFails
<1>13. ASSUME NEW r \in Requests, Finish(r)
       PROVE  CalmInv'
  BY <1>13 DEF Finish
<1>16. ASSUME NEW r \in Requests, ConsiderRebind(r)
       PROVE  CalmInv'
  BY <1>16 DEF ConsiderRebind
<1>17. ASSUME NEW r \in Requests, Barred(r)
       PROVE  CalmInv'
  BY <1>17 DEF Barred
<1>14. CASE CacheExpires
  BY <1>14 DEF CacheExpires
<1>15. CASE UNCHANGED vars
  BY <1>15 DEF vars
<1>18. QED
  BY <1>1, <1>2, <1>3, <1>4, <1>5, <1>6, <1>7, <1>8, <1>9, <1>10, <1>11,
     <1>12, <1>13, <1>14, <1>15, <1>16, <1>17 DEF Next, Terminated

-----------------------------------------------------------------------------
(* The theorems *)

LEMMA InitRow == Init => RowInv /\ Consented /\ CalmInv
<1> SUFFICES ASSUME Init PROVE RowInv /\ Consented /\ CalmInv
  OBVIOUS
<1> USE NoneAssumption, NumberAssumption DEF Init, Working, Settling
<1>1. TypeOK
  BY DEF TypeOK, PcStates, Ended
<1>2. HasContext /\ RemainingExact /\ ContextsLag
  BY DEF HasContext, RemainingExact, ContextsLag
<1>3. DevicesWereBound /\ AdmittedWasBound
  BY <1>1 DEF DevicesWereBound, AdmittedWasBound, TypeOK
<1>4. Consented /\ CalmInv
  BY DEF Consented, CalmInv, BudgetRespected, Busy
<1>5. QED
  BY <1>1, <1>2, <1>3, <1>4 DEF RowInv

LEMMA RowInvariant == Spec => [](RowInv /\ Consented /\ CalmInv)
<1>1. RowInv /\ Consented /\ CalmInv /\ [Next]_vars
        => (RowInv /\ Consented /\ CalmInv)'
  BY TypeStep, CountStep, LagStep, BoundStep, ConsentStep, CalmStep DEF RowInv
<1>2. QED
  BY InitRow, <1>1, PTL DEF Spec

\* The state is well-typed; no count of rebinds falls below zero
\* (auth.py 325, 332).
THEOREM TypeInvariant == Spec => []TypeOK
<1>1. RowInv => TypeOK
  BY DEF RowInv
<1>2. QED
  BY <1>1, RowInvariant, PTL

\* No decrement of the row is lost, however many requests rebind at once
\* (auth.py 325).
THEOREM RemainingInvariant == Spec => []RemainingExact
<1>1. RowInv => RemainingExact
  BY DEF RowInv
<1>2. QED
  BY <1>1, RowInvariant, PTL

\* No context has fewer rebinds left than the row: a device is turned down for
\* a spent budget only if the row's is spent (auth.py 317-332, 564).
THEOREM ExhaustedInvariant == Spec => []ExhaustedOnlyWhenSpent
<1>1. RowInv => ExhaustedOnlyWhenSpent
  BY NoneAssumption
     DEF RowInv, HasContext, ContextsLag, ExhaustedOnlyWhenSpent, Working
<1>2. QED
  BY <1>1, RowInvariant, PTL

\* A token that insists on a device admits only devices it was bound to
\* (auth.py 538-574).
THEOREM AdmittedInvariant == Spec => []AdmittedWasBound
<1>1. RowInv => AdmittedWasBound
  BY DEF RowInv
<1>2. QED
  BY <1>1, RowInvariant, PTL

\* One request at a time never rebinds beyond the budget (auth.py 302-333): the
\* cache is emptied after each rebind, and until then holds the context that
\* carries the new count.
THEOREM BudgetInvariant == Spec => []BudgetWhenCalm
<1>1. CalmInv => BudgetWhenCalm
  BY DEF CalmInv, BudgetWhenCalm
<1>2. QED
  BY <1>1, RowInvariant, PTL

\* One request at a time replaces a bound device only by a rebind its client
\* has asked for (auth.py 292, 317-330, 561-574).
THEOREM TakeoverExcluded == Spec => NoTakeoverWhenCalm
<1> DEFINE Step ==
      calm /\ dbDevice \notin {None, dbDevice'} =>
        \E r \in Requests :
          pc[r] = "rebindUpdate" /\ consents[r] /\ device[r] = dbDevice'
<1>1. ASSUME RowInv, Consented, CalmInv, [Next]_vars
      PROVE  [Step]_vars
  <2> SUFFICES ASSUME calm, dbDevice \notin {None, dbDevice'}
               PROVE  \E r \in Requests :
                        pc[r] = "rebindUpdate" /\ consents[r] /\ device[r] = dbDevice'
    OBVIOUS
  <2>1. \E r \in Requests : \/ BindRow(r) /\ pc[r] = "bindUpdate"
                            \/ RebindRow(r) /\ pc[r] = "rebindUpdate"
    BY <1>1 DEF Next, Load, ReadRow, StoreContext, Barred, Inspect, ConsiderRebind, CheckRebind,
                UpdateBind, UpdateRebind, UpdateFails, AdoptDevice,
                AdoptRemaining, Invalidate, DatabaseFails, Finish, CacheExpires,
                Terminated, vars, argVars, rowVars, objVars
  <2>2. PICK r \in Requests : \/ BindRow(r) /\ pc[r] = "bindUpdate"
                              \/ RebindRow(r) /\ pc[r] = "rebindUpdate"
    BY <2>1
  <2>3. pc[r] # "bindUpdate"
    BY <1>1 DEF CalmInv
  <2>4. QED
    BY <1>1, <2>2, <2>3 DEF RebindRow, SetRow, Consented
<1>2. QED
  BY <1>1, RowInvariant, PTL DEF Spec, NoTakeoverWhenCalm
=============================================================================
