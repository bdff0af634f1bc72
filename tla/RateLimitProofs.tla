-------------------------- MODULE RateLimitProofs --------------------------
(***************************************************************************)
(* Proofs about RateLimit, for any number of requests and windows, any     *)
(* limits and any lifetimes of the counters that exceed their window by the *)
(* delay of a request.                                                     *)
(***************************************************************************)
EXTENDS RateLimit, FiniteSetTheorems, TLAPS

-----------------------------------------------------------------------------
(* Windows *)

\* Times of one window differ by less than its length.
LEMMA SameWindow ==
  ASSUME NEW L \in Nat \ {0}, NEW s \in Nat, NEW t \in Nat, s \div L = t \div L
  PROVE  s < t + L
<1> DEFINE q == t \div L
<1>1. t \div L \in Int /\ t = L * q + (t % L) /\ t % L \in 0..(L - 1)
  OBVIOUS
<1>2. s = L * q + (s % L) /\ s % L \in 0..(L - 1)
  OBVIOUS
<1> QED
  BY <1>1, <1>2

LEMMA WindowIndex ==
  ASSUME NEW L \in Nat \ {0}, NEW t \in Nat PROVE t \div L \in 0..t
OBVIOUS

LEMMA WindowNumbers ==
  ASSUME NEW w \in Windows PROVE w \in Int /\ w >= 1 /\ w <= NumWindows /\ NumWindows \in Int
BY WindowsAssumption DEF Windows

LEMMA NextWindow ==
  ASSUME NEW w \in Windows, w < NumWindows PROVE w + 1 \in Windows
BY WindowsAssumption DEF Windows

LEMMA KeyFacts ==
  ASSUME NEW w \in Windows, NEW t \in 0..MaxTime
  PROVE  /\ Key(w, t) \in Keys /\ Key(w, t)[1] = w
         /\ \A s \in 0..MaxTime : Key(w, s) = Key(w, t) => s < t + Length[w]
<1>1. Length[w] \in Nat \ {0} /\ MaxTime \in Nat
  BY WindowsAssumption
<1>2. t \div Length[w] \in 0..t
  BY <1>1, WindowIndex
<1>3. Key(w, t) \in Keys /\ Key(w, t)[1] = w
  BY <1>1, <1>2 DEF Key, Keys
<1>4. ASSUME NEW s \in 0..MaxTime, Key(w, s) = Key(w, t) PROVE s < t + Length[w]
  <2>1. s \div Length[w] = t \div Length[w]
    BY <1>4 DEF Key
  <2> QED
    BY <1>1, <2>1, SameWindow
<1> QED
  BY <1>3, <1>4

-----------------------------------------------------------------------------
(* The inductive invariant *)

\* Who has left a mark on the counter of a key.
Spent(k) == Charged(k) \cup Failed(k)

\* A request that computed this key now or earlier charges it no more.
Closed(k) == \A t \in 0..MaxTime : Key(k[1], t) = k => now > t + MaxDelay

\* Requests do not linger, and a key with an expiry outlives all of them.
TimeInv ==
  /\ \A r \in Requests :
       /\ InFlight(r) => at[r] <= now /\ now <= at[r] + MaxDelay
       /\ pc[r] # "done" => outcome[r] = "none"
       /\ pc[r] = "idle" => window[r] = 1
  /\ \A k \in Keys : left[k] > 0 =>
       \A t \in 0..MaxTime : Key(k[1], t) = k => now + left[k] > t + MaxDelay

\* As long as a key can be charged, its counter has seen all it has accepted.
CountInv ==
  /\ \A k \in Keys : Closed(k) \/ Cardinality(Accepted(k)) <= counter[k]
  /\ WithinLimit

\* A counter has seen everybody once, and a second time only in a repeat.
SpentInv ==
  /\ \A q \in Requests, w \in Windows : <<q, w>> \in resent => pc[q] # "idle"
  /\ \A k \in Keys : counter[k] <= Cardinality(Spent(k)) + Cardinality(Repeated(k))
  /\ RefusedOnlyWhenSpent

\* A window reported as spent stays spent until nobody can charge it.
SeenInv ==
  \A k \in Keys :
    seen = [key |-> k, remaining |-> 0] /\ Limit(k[1]) > 0 =>
      Closed(k) \/ counter[k] >= Limit(k[1])

QuotaInv == TypeOK /\ TimeInv /\ CountInv /\ SpentInv /\ SeenInv /\ NoOrphanCounter

-----------------------------------------------------------------------------
(* Who is charged *)

LEMMA LimitIsInt == ASSUME TypeOK, NEW w \in Windows PROVE Limit(w) \in Int
BY ProfilesAssumption DEF TypeOK, Limit

LEMMA MyKeyFacts ==
  ASSUME TypeOK, NEW r \in Requests
  PROVE  /\ MyKey(r) \in Keys /\ MyKey(r)[1] = window[r]
         /\ Key(window[r], at[r]) = MyKey(r)
         /\ \A t \in 0..MaxTime :
              Key(window[r], t) = MyKey(r) => t < at[r] + Length[window[r]]
BY KeyFacts DEF TypeOK, MyKey

LEMMA KeyWindow == ASSUME NEW k \in Keys PROVE k[1] \in Windows /\ k = <<k[1], k[2]>>
BY DEF Keys

\* A key is that of its own window and no other.
LEMMA KeyOfWindow ==
  ASSUME NEW w \in Windows, NEW t \in 0..MaxTime, NEW k \in Keys
  PROVE  Key(w, t) = k <=> w = k[1] /\ Key(k[1], t) = k
BY KeyWindow, KeyFacts

\* Sets of requests are finite.
LEMMA ChargedFinite ==
  ASSUME NEW k
  PROVE  /\ Accepted(k) \subseteq Requests /\ Spent(k) \subseteq Requests
         /\ IsFiniteSet(Accepted(k)) /\ Cardinality(Accepted(k)) \in Nat
         /\ IsFiniteSet(Spent(k)) /\ Cardinality(Spent(k)) \in Nat
<1>1. Accepted(k) \subseteq Requests /\ Spent(k) \subseteq Requests
  BY DEF Accepted, Charged, Spent, Failed
<1> QED
  BY <1>1, RequestsAssumption, FS_Subset, FS_CardinalityType

LEMMA RepeatedFinite ==
  ASSUME NEW k
  PROVE  /\ Repeated(k) \subseteq Requests
         /\ IsFiniteSet(Repeated(k)) /\ Cardinality(Repeated(k)) \in Nat
<1>1. Repeated(k) \subseteq Requests
  BY DEF Repeated
<1> QED
  BY <1>1, RequestsAssumption, FS_Subset, FS_CardinalityType

\* A step of one request changes nothing of another's.
LEMMA OnlyMine ==
  ASSUME TypeOK, TypeOK', NEW r \in Requests, NEW q \in Requests, q # r,
         \A x \in Requests \ {r} : /\ pc'[x] = pc[x] /\ window'[x] = window[x]
                                  /\ at'[x] = at[x] /\ outcome'[x] = outcome[x],
         NEW k
  PROVE  /\ q \in Accepted(k) <=> q \in Accepted(k)'
         /\ q \in Spent(k) <=> q \in Spent(k)'
BY DEF Accepted, Spent, Charged, Failed, MyKey

-----------------------------------------------------------------------------
(* Types *)

LEMMA TypesKept == ASSUME TypeOK, [Next]_vars PROVE TypeOK'
<1> USE WindowsAssumption, ProfilesAssumption
    DEF TypeOK, PcStates, Outcomes, reqVars, redisVars, Ends
<1>1. ASSUME NEW r \in Requests, Pass(r)
      PROVE  /\ pc' \in [Requests -> PcStates] /\ outcome' \in [Requests -> Outcomes]
             /\ window' \in [Requests -> Windows] /\ at' = at
  <2>1. window[r] < NumWindows => window[r] + 1 \in Windows
    BY NextWindow
  <2>2. CASE Ends(r, "admitted")
    BY <2>2
  <2>3. CASE window[r] < NumWindows /\ ~Ends(r, "admitted")
    BY <1>1, <2>1, <2>3 DEF Pass
  <2> QED
    BY <1>1, <2>2, <2>3 DEF Pass
<1>2. ASSUME NEW r \in Requests, Begin(r) PROVE TypeOK'
  BY <1>2 DEF Begin
<1>3. ASSUME NEW r \in Requests, Increment(r) PROVE TypeOK'
  <2>1. counter' \in [Keys -> Nat]
    BY <1>3, MyKeyFacts DEF Increment
  <2>2. /\ pc' \in [Requests -> PcStates] /\ outcome' \in [Requests -> Outcomes]
        /\ window' \in [Requests -> Windows] /\ at' = at
    BY <1>1, <1>3 DEF Increment
  <2> QED
    BY <1>3, <2>1, <2>2 DEF Increment
<1>4. ASSUME NEW r \in Requests, IncrementReplyLost(r) PROVE TypeOK'
  <2>1. counter' \in [Keys -> Nat] /\ resent' \in SUBSET (Requests \X Windows)
    BY <1>4, MyKeyFacts DEF IncrementReplyLost
  <2>2. UNCHANGED reqVars \/ Ends(r, "error")
    BY <1>4 DEF IncrementReplyLost
  <2> QED
    BY <1>4, <2>1, <2>2 DEF IncrementReplyLost
<1>5. ASSUME NEW r \in Requests, SetExpiry(r) PROVE TypeOK'
  <2>1. left' \in [Keys -> Nat]
    BY <1>5, MyKeyFacts DEF SetExpiry
  <2> QED
    BY <1>1, <1>5, <2>1 DEF SetExpiry
<1>6. ASSUME NEW r \in Requests, Fail(r) PROVE TypeOK'
  BY <1>6 DEF Fail
<1>7. ASSUME NEW w \in Windows, ReadUsage(w) PROVE TypeOK'
  <2>1. Key(w, now) \in Keys /\ counter[Key(w, now)] \in Nat
    BY KeyFacts
  <2>2. Remaining(w, counter[Key(w, now)]) \in Int
    BY <2>1 DEF Remaining
  <2> QED
    BY <1>7, <2>1, <2>2 DEF ReadUsage
<1>8. CASE Tick
  <2>1. counter' \in [Keys -> Nat] /\ left' \in [Keys -> Nat]
    BY <1>8 DEF Tick
  <2> QED
    BY <1>8, <2>1 DEF Tick
<1>9. CASE UNCHANGED vars
  BY <1>9 DEF vars
<1> QED
  BY <1>2, <1>3, <1>4, <1>5, <1>6, <1>7, <1>8, <1>9 DEF Next, Charge

-----------------------------------------------------------------------------
(* What a step changes of the marks *)

\* Apart from INCR, no step makes a key accept anyone, and none forgets who has
\* left a mark on it.
LEMMA MarksKept ==
  ASSUME TypeOK, TypeOK', TimeInv, NEW r \in Requests, NEW k \in Keys,
         Begin(r) \/ IncrementReplyLost(r) \/ SetExpiry(r) \/ Fail(r)
  PROVE  Accepted(k)' \subseteq Accepted(k) /\ Spent(k) \subseteq Spent(k)'
<1>1. \A x \in Requests \ {r} : /\ pc'[x] = pc[x] /\ window'[x] = window[x]
                                /\ at'[x] = at[x] /\ outcome'[x] = outcome[x]
  BY DEF TypeOK, Begin, IncrementReplyLost, SetExpiry, Fail, Pass, Ends, reqVars
<1>2. /\ k[1] \in Int /\ window[r] \in Int /\ NumWindows \in Int
      /\ MyKey(r) = k <=> window[r] = k[1] /\ Key(k[1], at[r]) = k
      /\ MyKey(r)' = k <=> window'[r] = k[1] /\ Key(k[1], at'[r]) = k
  <2>1. /\ k[1] \in Windows /\ window[r] \in Windows /\ window'[r] \in Windows
        /\ at[r] \in 0..MaxTime /\ at'[r] \in 0..MaxTime
    BY KeyWindow DEF TypeOK
  <2>2. /\ k[1] \in Int /\ window[r] \in Int /\ NumWindows \in Int
    BY <2>1, WindowNumbers
  <2> QED
    BY <2>1, <2>2, KeyOfWindow DEF MyKey
<1>3. /\ r \in Accepted(k)' => r \in Accepted(k)
      /\ r \in Spent(k) => r \in Spent(k)'
  <2>1. CASE Begin(r)
    <3>1. window[r] = 1 /\ window'[r] = 1 /\ pc[r] = "idle" /\ outcome[r] = "none" /\ k[1] >= 1
      BY <2>1, KeyWindow DEF Begin, Ends, TimeInv, Windows
    <3>2. \/ pc'[r] = "incr" /\ outcome'[r] = "none"
          \/ outcome'[r] = "unconfigured"
      BY <2>1, <3>1 DEF Begin, Ends, TypeOK
    <3> QED
      BY <1>2, <3>1, <3>2 DEF Accepted, Charged, Spent, Failed
  <2>2. CASE IncrementReplyLost(r)
    <3>1. /\ pc[r] = "incr" /\ outcome[r] = "none" /\ window'[r] = window[r] /\ at'[r] = at[r]
          /\ \/ pc'[r] = "incr" /\ outcome'[r] = "none"
             \/ pc'[r] = "done" /\ outcome'[r] = "error"
      BY <2>2 DEF IncrementReplyLost, reqVars, Ends, TypeOK, TimeInv
    <3> QED
      BY <1>2, <3>1 DEF Accepted, Charged, Spent, Failed
  <2>3. CASE SetExpiry(r)
    <3>1. /\ pc[r] = "expire" /\ outcome[r] = "none" /\ at'[r] = at[r]
          /\ \/ /\ pc'[r] = "incr" /\ outcome'[r] = "none"
                /\ window'[r] = window[r] + 1
             \/ /\ pc'[r] = "done" /\ outcome'[r] = "admitted"
                /\ window'[r] = window[r]
      BY <2>3 DEF SetExpiry, Pass, Ends, TypeOK, TimeInv
    <3> QED
      BY <1>2, <3>1 DEF Accepted, Charged, Spent, Failed
  <2>4. CASE Fail(r)
    <3>1. /\ pc[r] \in {"incr", "expire"} /\ outcome[r] = "none" /\ at'[r] = at[r]
          /\ pc'[r] = "done" /\ outcome'[r] = "error" /\ window'[r] = window[r]
      BY <2>4 DEF Fail, Ends, InFlight, TypeOK, TimeInv
    <3> QED
      BY <1>2, <3>1 DEF Accepted, Charged, Spent, Failed
  <2> QED
    BY <2>1, <2>2, <2>3, <2>4
<1>4. ASSUME NEW q \in Requests, q # r
      PROVE  /\ q \in Accepted(k) <=> q \in Accepted(k)'
             /\ q \in Spent(k) <=> q \in Spent(k)'
  BY <1>1, <1>4, OnlyMine
<1>5. Accepted(k)' \subseteq Requests /\ Spent(k) \subseteq Requests
  BY DEF Accepted, Spent, Charged, Failed
<1> QED
  BY <1>3, <1>4, <1>5

\* INCR marks the key of the request for the first time, and that key may now
\* accept it, unless it refuses.
LEMMA MarksOfIncrement ==
  ASSUME TypeOK, TypeOK', TimeInv, NEW r \in Requests, NEW k \in Keys, Increment(r)
  PROVE  /\ Spent(k) \subseteq Spent(k)'
         /\ k # MyKey(r) => Accepted(k)' \subseteq Accepted(k)
         /\ k = MyKey(r) =>
              /\ r \notin Spent(k) /\ r \in Spent(k)'
              /\ Accepted(k)' \subseteq Accepted(k) \cup {r}
              /\ outcome'[r] = "refused" => Accepted(k)' \subseteq Accepted(k)
<1>1. \A x \in Requests \ {r} : /\ pc'[x] = pc[x] /\ window'[x] = window[x]
                                /\ at'[x] = at[x] /\ outcome'[x] = outcome[x]
  BY DEF TypeOK, Increment, Pass, Ends
<1>2. /\ k[1] \in Int /\ window[r] \in Int /\ NumWindows \in Int
      /\ MyKey(r) = k <=> window[r] = k[1] /\ Key(k[1], at[r]) = k
      /\ MyKey(r)' = k <=> window'[r] = k[1] /\ Key(k[1], at'[r]) = k
  <2>1. /\ k[1] \in Windows /\ window[r] \in Windows /\ window'[r] \in Windows
        /\ at[r] \in 0..MaxTime /\ at'[r] \in 0..MaxTime
    BY KeyWindow DEF TypeOK
  <2>2. /\ k[1] \in Int /\ window[r] \in Int /\ NumWindows \in Int
    BY <2>1, WindowNumbers
  <2> QED
    BY <2>1, <2>2, KeyOfWindow DEF MyKey
<1>3. /\ pc[r] = "incr" /\ outcome[r] = "none" /\ at'[r] = at[r]
      /\ \/ /\ pc'[r] = "expire" /\ outcome'[r] = "none"
            /\ window'[r] = window[r]
         \/ /\ pc'[r] = "incr" /\ outcome'[r] = "none"
            /\ window'[r] = window[r] + 1
         \/ /\ pc'[r] = "done" /\ outcome'[r] \in {"admitted", "refused"}
            /\ window'[r] = window[r]
  BY DEF Increment, Pass, Ends, TypeOK, TimeInv
<1>4. /\ r \in Spent(k) => r \in Spent(k)'
      /\ k # MyKey(r) => (r \in Accepted(k)' => r \in Accepted(k))
      /\ k = MyKey(r) =>
           /\ r \notin Spent(k) /\ r \in Spent(k)'
           /\ outcome'[r] = "refused" => r \notin Accepted(k)'
  BY <1>2, <1>3 DEF Accepted, Charged, Spent, Failed
<1>5. ASSUME NEW q \in Requests, q # r
      PROVE  /\ q \in Accepted(k) <=> q \in Accepted(k)'
             /\ q \in Spent(k) <=> q \in Spent(k)'
  BY <1>1, <1>5, OnlyMine
<1>6. Accepted(k)' \subseteq Requests /\ Spent(k) \subseteq Requests
  BY DEF Accepted, Spent, Charged, Failed
<1> QED
  BY <1>4, <1>5, <1>6

-----------------------------------------------------------------------------
(* Preservation *)

LEMMA QuotaInit == ASSUME Init PROVE QuotaInv
<1> USE WindowsAssumption DEF Init
<1>1. TypeOK
  <2>1. 1 \in Windows /\ 0 \in 0..MaxTime /\ <<1, 0>> \in Keys
    BY DEF Windows, Keys
  <2> QED
    BY <2>1 DEF TypeOK, PcStates, Outcomes, Unread
<1>2. TimeInv
  BY DEF TimeInv, InFlight
<1>3. ASSUME NEW k PROVE Accepted(k) = {}
  BY DEF Accepted, Charged
<1>4. CountInv
  <2>1. \A k \in Keys : Cardinality(Accepted(k)) = 0 /\ k[1] \in Windows
    BY <1>3, FS_EmptySet, KeyWindow
  <2> QED
    BY <1>1, <2>1, LimitIsInt DEF CountInv, WithinLimit
<1>5. SpentInv
  <2>1. \A k \in Keys : /\ Cardinality(Spent(k)) \in Nat /\ counter[k] = 0
                        /\ Cardinality(Repeated(k)) \in Nat
    BY ChargedFinite, RepeatedFinite
  <2> QED
    BY <2>1 DEF SpentInv, RefusedOnlyWhenSpent
<1>6. SeenInv
  BY DEF SeenInv, Unread
<1>7. NoOrphanCounter
  BY DEF NoOrphanCounter
<1> QED
  BY <1>1, <1>2, <1>4, <1>5, <1>6, <1>7 DEF QuotaInv

\* A key that a request in flight charges is not closed, and does not expire
\* with the next tick.
LEMMA ChargedIsOpen ==
  ASSUME TypeOK, TimeInv, NEW r \in Requests, InFlight(r) PROVE ~Closed(MyKey(r))
<1>1. /\ at[r] \in 0..MaxTime /\ Key(MyKey(r)[1], at[r]) = MyKey(r)
      /\ now <= at[r] + MaxDelay /\ now \in Int /\ MaxDelay \in Int /\ at[r] \in Int
  BY MyKeyFacts, WindowsAssumption DEF TypeOK, TimeInv
<1> QED
  BY <1>1 DEF Closed

LEMMA TimeKept == ASSUME TypeOK, TypeOK', TimeInv, [Next]_vars PROVE TimeInv'
<1> USE WindowsAssumption
<1>1. ASSUME NEW r \in Requests, Begin(r) \/ Increment(r) \/ IncrementReplyLost(r) \/ Fail(r)
      PROVE  TimeInv'
  <2>1. UNCHANGED <<now, left>>
    BY <1>1 DEF Begin, Increment, IncrementReplyLost, Fail, redisVars
  <2>2. ASSUME NEW q \in Requests
        PROVE  /\ InFlight(q)' => at'[q] <= now' /\ now' <= at'[q] + MaxDelay
               /\ pc'[q] # "done" => outcome'[q] = "none"
               /\ pc'[q] = "idle" => window'[q] = 1
    BY <1>1 DEF TypeOK, TimeInv, InFlight, Begin, Increment, IncrementReplyLost, Fail, Pass,
                Ends, reqVars
  <2> QED
    BY <2>1, <2>2 DEF TimeInv
<1>2. ASSUME NEW r \in Requests, SetExpiry(r) PROVE TimeInv'
  <2>1. now' = now /\ left' = [left EXCEPT ![MyKey(r)] = KeyTTL[window[r]]]
    BY <1>2 DEF SetExpiry
  <2>2. ASSUME NEW q \in Requests
        PROVE  /\ InFlight(q)' => at'[q] <= now' /\ now' <= at'[q] + MaxDelay
               /\ pc'[q] # "done" => outcome'[q] = "none"
               /\ pc'[q] = "idle" => window'[q] = 1
    BY <1>2 DEF TypeOK, TimeInv, InFlight, SetExpiry, Pass, Ends
  <2>3. ASSUME NEW t \in 0..MaxTime, Key(MyKey(r)[1], t) = MyKey(r)
        PROVE  now + KeyTTL[window[r]] > t + MaxDelay
    <3>1. t < at[r] + Length[window[r]]
      BY <2>3, MyKeyFacts
    <3>2. at[r] <= now
      BY <1>2 DEF SetExpiry, TimeInv, InFlight
    <3>3. /\ window[r] \in Windows /\ at[r] \in Int /\ now \in Int /\ t \in Int
      BY <2>3 DEF TypeOK
    <3>4. /\ KeyTTL[window[r]] \in Int /\ Length[window[r]] \in Int /\ MaxDelay \in Int
          /\ KeyTTL[window[r]] >= Length[window[r]] + MaxDelay
      BY <3>3
    <3> QED
      BY <3>1, <3>2, <3>3, <3>4
  <2>4. \A k \in Keys : left'[k] > 0 =>
          \A t \in 0..MaxTime : Key(k[1], t) = k => now' + left'[k] > t + MaxDelay
    BY <2>1, <2>3 DEF TypeOK, TimeInv
  <2> QED
    BY <2>2, <2>4 DEF TimeInv
<1>3. CASE Tick
  <2>1. /\ now' = now + 1 /\ UNCHANGED <<pc, window, at, outcome>>
        /\ \A r \in Requests : InFlight(r) => now - at[r] < MaxDelay
        /\ left' = [k \in Keys |-> IF left[k] > 0 THEN left[k] - 1 ELSE 0]
    BY <1>3 DEF Tick, reqVars
  <2>2. ASSUME NEW q \in Requests
        PROVE  /\ InFlight(q)' => at'[q] <= now' /\ now' <= at'[q] + MaxDelay
               /\ pc'[q] # "done" => outcome'[q] = "none"
               /\ pc'[q] = "idle" => window'[q] = 1
    BY <2>1 DEF TypeOK, TimeInv, InFlight
  <2>3. ASSUME NEW k \in Keys, left'[k] > 0
        PROVE  left[k] > 0 /\ now' + left'[k] = now + left[k]
    BY <2>1, <2>3 DEF TypeOK
  <2> QED
    BY <2>2, <2>3 DEF TimeInv
<1>4. CASE (\E w \in Windows : ReadUsage(w)) \/ UNCHANGED vars
  BY <1>4 DEF ReadUsage, vars, reqVars, redisVars, TimeInv, InFlight
<1> QED
  BY <1>1, <1>2, <1>3, <1>4 DEF Next, Charge

\* What a step changes of the counters and of the repeats.
LEMMA RedisOfStep ==
  ASSUME [Next]_vars
  PROVE  /\ \/ Tick
            \/ /\ now' = now /\ left' = left
               /\ \E r \in Requests :
                    /\ Increment(r) \/ IncrementReplyLost(r)
                    /\ counter' = [counter EXCEPT ![MyKey(r)] = @ + 1]
            \/ /\ now' = now /\ counter' = counter
               /\ \E r \in Requests :
                    SetExpiry(r) /\ left' = [left EXCEPT ![MyKey(r)] = KeyTTL[window[r]]]
            \/ now' = now /\ counter' = counter /\ left' = left
         /\ \/ resent' = resent
            \/ \E r \in Requests :
                 /\ IncrementReplyLost(r) /\ UNCHANGED reqVars
                 /\ resent' = resent \cup {<<r, window[r]>>}
<1>1. CASE Tick \/ \E w \in Windows : ReadUsage(w)
  BY <1>1 DEF Tick, ReadUsage, redisVars
<1>2. CASE UNCHANGED vars
  BY <1>2 DEF vars, redisVars
<1>3. ASSUME NEW r \in Requests, Begin(r) \/ Fail(r)
      PROVE  now' = now /\ counter' = counter /\ left' = left /\ resent' = resent
  BY <1>3 DEF Begin, Fail, redisVars
<1>4. ASSUME NEW r \in Requests, Increment(r)
      PROVE  /\ now' = now /\ left' = left /\ resent' = resent
             /\ counter' = [counter EXCEPT ![MyKey(r)] = @ + 1]
  BY <1>4 DEF Increment
<1>5. ASSUME NEW r \in Requests, SetExpiry(r)
      PROVE  /\ now' = now /\ counter' = counter /\ resent' = resent
             /\ left' = [left EXCEPT ![MyKey(r)] = KeyTTL[window[r]]]
  BY <1>5 DEF SetExpiry
<1>6. ASSUME NEW r \in Requests, IncrementReplyLost(r)
      PROVE  /\ now' = now /\ left' = left
             /\ counter' = [counter EXCEPT ![MyKey(r)] = @ + 1]
             /\ \/ resent' = resent
                \/ UNCHANGED reqVars /\ resent' = resent \cup {<<r, window[r]>>}
  BY <1>6 DEF IncrementReplyLost
<1> QED
  BY <1>1, <1>2, <1>3, <1>4, <1>5, <1>6 DEF Next, Charge

\* The counter of a key that can still be charged is not reset.
LEMMA CounterKept ==
  ASSUME TypeOK, TypeOK', TimeInv, [Next]_vars, NEW k \in Keys
  PROVE  /\ now' >= now /\ (Closed(k) => Closed(k)')
         /\ Closed(k)' \/ counter'[k] >= counter[k]
<1> USE WindowsAssumption
<1>1. CASE Tick
  <2>1. /\ now' = now + 1 /\ now \in Int
        /\ counter' = [j \in Keys |-> IF left[j] = 1 THEN 0 ELSE counter[j]]
    BY <1>1 DEF Tick, TypeOK
  <2>2. CASE left[k] = 1
    <3>1. \A t \in 0..MaxTime : Key(k[1], t) = k => now + 1 > t + MaxDelay
      BY <2>2 DEF TimeInv
    <3> QED
      BY <2>1, <3>1 DEF Closed
  <2>3. CASE left[k] # 1
    BY <2>1, <2>3 DEF Closed, TypeOK
  <2> QED
    BY <2>2, <2>3
<1>2. CASE ~Tick
  <2>1. now' = now
    BY <1>2, RedisOfStep
  <2>2. counter'[k] >= counter[k]
    BY <1>2, RedisOfStep DEF TypeOK
  <2> QED
    BY <2>1, <2>2 DEF Closed, TypeOK
<1> QED
  BY <1>1, <1>2

\* What a step does to the marks on a key: the only new mark that it accepts is
\* an INCR below the limit.
LEMMA MarksOfStep ==
  ASSUME TypeOK, TypeOK', TimeInv, [Next]_vars, NEW k \in Keys
  PROVE  /\ Spent(k) \subseteq Spent(k)'
         /\ \/ Accepted(k)' \subseteq Accepted(k)
            \/ \E r \in Requests :
                 /\ Increment(r) /\ k = MyKey(r)
                 /\ Accepted(k)' \subseteq Accepted(k) \cup {r}
                 /\ Limit(k[1]) > 0 => counter[k] + 1 <= Limit(k[1])
<1>1. CASE \E r \in Requests : Begin(r) \/ IncrementReplyLost(r) \/ SetExpiry(r) \/ Fail(r)
  BY <1>1, MarksKept
<1>2. ASSUME NEW r \in Requests, Increment(r)
      PROVE  /\ Spent(k) \subseteq Spent(k)'
             /\ \/ Accepted(k)' \subseteq Accepted(k)
                \/ /\ k = MyKey(r)
                   /\ Accepted(k)' \subseteq Accepted(k) \cup {r}
                   /\ Limit(k[1]) > 0 => counter[k] + 1 <= Limit(k[1])
  <2>1. CASE k # MyKey(r) \/ outcome'[r] = "refused"
    BY <1>2, <2>1, MarksOfIncrement
  <2>2. CASE k = MyKey(r) /\ outcome'[r] # "refused"
    <3>1. k[1] = window[r] /\ Limit(k[1]) \in Int /\ counter[k] \in Nat
      BY <2>2, MyKeyFacts, KeyWindow, LimitIsInt DEF TypeOK
    <3>2. counter[k] + 1 = 1 \/ ~Over(counter[k] + 1, window[r])
      BY <1>2, <2>2 DEF Increment, Ends, TypeOK
    <3>3. Limit(k[1]) > 0 => counter[k] + 1 <= Limit(k[1])
      BY <3>1, <3>2 DEF Over
    <3> QED
      BY <1>2, <2>2, <3>3, MarksOfIncrement
  <2> QED
    BY <2>1, <2>2
<1>3. CASE (\E w \in Windows : ReadUsage(w)) \/ Tick \/ UNCHANGED vars
  <2>1. UNCHANGED reqVars
    BY <1>3 DEF ReadUsage, Tick, vars
  <2> QED
    BY <2>1 DEF reqVars, Accepted, Spent, Charged, Failed, MyKey
<1> QED
  BY <1>1, <1>2, <1>3 DEF Next, Charge

LEMMA ProfileKept == ASSUME [Next]_vars, NEW w PROVE Limit(w)' = Limit(w)
BY DEF Next, Charge, Begin, Increment, IncrementReplyLost, SetExpiry, Fail, ReadUsage, Tick,
       vars, Limit

LEMMA Grows ==
  ASSUME NEW S, NEW T, IsFiniteSet(T), S \subseteq T, NEW x \in T, x \notin S
  PROVE  Cardinality(S) + 1 <= Cardinality(T)
<1>1. IsFiniteSet(S) /\ Cardinality(S \cup {x}) = Cardinality(S) + 1
  BY FS_Subset, FS_AddElement
<1> QED
  BY <1>1, FS_Subset

LEMMA OneMore ==
  ASSUME NEW S, IsFiniteSet(S), NEW x
  PROVE  /\ IsFiniteSet(S \cup {x}) /\ Cardinality(S \cup {x}) \in Nat
         /\ Cardinality(S \cup {x}) <= Cardinality(S) + 1
<1>1. Cardinality(S) \in Nat
  BY FS_CardinalityType
<1>2. CASE x \in S
  <2>1. S \cup {x} = S
    BY <1>2
  <2>2. Cardinality(S \cup {x}) = Cardinality(S) /\ IsFiniteSet(S \cup {x})
    BY <2>1, Zenon
  <2>3. Cardinality(S) <= Cardinality(S) + 1
    BY <1>1
  <2> QED
    BY <1>1, <2>2, <2>3
<1>3. CASE x \notin S
  BY <1>1, <1>3, FS_AddElement
<1> QED
  BY <1>2, <1>3

LEMMA CountKept == ASSUME QuotaInv, TypeOK', [Next]_vars PROVE CountInv'
<1> USE DEF QuotaInv
<1> SUFFICES ASSUME NEW k \in Keys
             PROVE  /\ Closed(k)' \/ Cardinality(Accepted(k)') <= counter'[k]
                    /\ Limit(k[1]) > 0 => Cardinality(Accepted(k)') <= Limit(k[1])
  BY ProfileKept DEF CountInv, WithinLimit
<1>1. /\ Cardinality(Accepted(k)) \in Nat /\ IsFiniteSet(Accepted(k))
      /\ counter[k] \in Nat /\ counter'[k] \in Nat /\ Limit(k[1]) \in Int
      /\ Closed(k) \/ Cardinality(Accepted(k)) <= counter[k]
      /\ Limit(k[1]) > 0 => Cardinality(Accepted(k)) <= Limit(k[1])
  BY ChargedFinite, KeyWindow, LimitIsInt DEF TypeOK, CountInv, WithinLimit
<1>2. CASE Accepted(k)' \subseteq Accepted(k)
  <2>1. Cardinality(Accepted(k)') <= Cardinality(Accepted(k)) /\ Cardinality(Accepted(k)') \in Nat
    BY <1>1, <1>2, FS_Subset, FS_CardinalityType
  <2> QED
    BY <1>1, <2>1, CounterKept
<1>3. ASSUME NEW r \in Requests, Increment(r), k = MyKey(r),
             Accepted(k)' \subseteq Accepted(k) \cup {r},
             Limit(k[1]) > 0 => counter[k] + 1 <= Limit(k[1])
      PROVE  /\ Cardinality(Accepted(k)') <= counter'[k]
             /\ Limit(k[1]) > 0 => Cardinality(Accepted(k)') <= Limit(k[1])
  <2>1. Cardinality(Accepted(k)) <= counter[k]
    BY <1>1, <1>3, ChargedIsOpen DEF Increment, InFlight
  <2>2. counter'[k] = counter[k] + 1
    BY <1>3 DEF Increment, TypeOK
  <2>3. /\ IsFiniteSet(Accepted(k) \cup {r})
        /\ Cardinality(Accepted(k) \cup {r}) <= Cardinality(Accepted(k)) + 1
        /\ Cardinality(Accepted(k) \cup {r}) \in Nat
    BY <1>1, OneMore
  <2>4. /\ Cardinality(Accepted(k)') <= Cardinality(Accepted(k)) + 1
        /\ Cardinality(Accepted(k)') \in Nat
    BY <1>1, <1>3, <2>3, FS_Subset, FS_CardinalityType
  <2> QED
    BY <1>1, <1>3, <2>1, <2>2, <2>4
<1> QED
  BY <1>2, <1>3, MarksOfStep

\* A request that is done is not touched again.
LEMMA DoneStays ==
  ASSUME TypeOK, [Next]_vars, NEW q \in Requests, pc[q] = "done"
  PROVE  /\ pc'[q] = pc[q] /\ window'[q] = window[q]
         /\ at'[q] = at[q] /\ outcome'[q] = outcome[q]
<1>1. ASSUME NEW r \in Requests, Begin(r) \/ Charge(r) \/ Fail(r)
      PROVE  /\ r # q /\ pc'[q] = pc[q] /\ window'[q] = window[q]
             /\ at'[q] = at[q] /\ outcome'[q] = outcome[q]
  BY <1>1 DEF TypeOK, Charge, Begin, Increment, IncrementReplyLost, SetExpiry, Fail, Pass, Ends,
              InFlight, reqVars
<1>2. CASE (\E w \in Windows : ReadUsage(w)) \/ Tick \/ UNCHANGED vars
  BY <1>2 DEF ReadUsage, Tick, vars, reqVars
<1> QED
  BY <1>1, <1>2 DEF Next

\* No step forgets a repeat; a lost reply that is repeated adds one.
LEMMA RepeatsOfStep ==
  ASSUME QuotaInv, TypeOK', [Next]_vars
  PROVE  /\ \A q \in Requests, w \in Windows : <<q, w>> \in resent' => pc'[q] # "idle"
         /\ \A k \in Keys : Repeated(k) \subseteq Repeated(k)'
         /\ \A r \in Requests, k \in Keys :
              IncrementReplyLost(r) /\ MyKey(r) = k =>
                \/ outcome'[r] = "error"
                \/ r \notin Repeated(k) /\ r \in Repeated(k)'
<1> USE DEF QuotaInv
<1>1. ASSUME NEW q \in Requests, NEW w \in Windows, <<q, w>> \in resent
      PROVE  <<q, w>> \in resent' /\ pc'[q] # "idle" /\ at'[q] = at[q]
  <2>1. pc[q] # "idle"
    BY <1>1 DEF SpentInv
  <2>2. <<q, w>> \in resent'
    BY <1>1, RedisOfStep
  <2>3. at'[q] = at[q] /\ pc'[q] # "idle"
    BY <2>1 DEF Next, Charge, Begin, Increment, IncrementReplyLost, SetExpiry, Fail, ReadUsage,
                Tick, Pass, Ends, vars, reqVars, TypeOK
  <2> QED
    BY <2>2, <2>3
<1>2. ASSUME NEW q \in Requests, NEW w \in Windows, <<q, w>> \in resent', <<q, w>> \notin resent
      PROVE  pc'[q] # "idle"
  <2>1. IncrementReplyLost(q) /\ UNCHANGED reqVars
    BY <1>2, RedisOfStep
  <2> QED
    BY <2>1 DEF IncrementReplyLost, reqVars
<1>3. \A k \in Keys : Repeated(k) \subseteq Repeated(k)'
  BY <1>1, KeyWindow DEF Repeated
<1>4. ASSUME NEW r \in Requests, NEW k \in Keys, IncrementReplyLost(r), MyKey(r) = k,
             outcome'[r] # "error"
      PROVE  r \notin Repeated(k) /\ r \in Repeated(k)'
  <2>1. /\ k[1] = window[r] /\ Key(k[1], at[r]) = k
        /\ <<r, window[r]>> \notin resent /\ <<r, window[r]>> \in resent' /\ UNCHANGED reqVars
    BY <1>4, MyKeyFacts DEF IncrementReplyLost, Ends, TypeOK
  <2> QED
    BY <2>1 DEF Repeated, reqVars
<1> QED
  BY <1>1, <1>2, <1>3, <1>4

\* What charges a counter is marked: INCR and a lost reply after which the
\* request gives up by the request, a lost reply before a repeat by the repeat.
LEMMA MarkOfCharge ==
  ASSUME QuotaInv, TypeOK', [Next]_vars, NEW k \in Keys
  PROVE  \/ counter'[k] <= counter[k]
         \/ /\ counter'[k] = counter[k] + 1
            /\ \E r \in Requests :
                 \/ r \notin Spent(k) /\ r \in Spent(k)'
                 \/ r \notin Repeated(k) /\ r \in Repeated(k)'
<1> USE DEF QuotaInv
<1>1. ASSUME NEW r \in Requests, Increment(r), MyKey(r) = k
      PROVE  counter'[k] = counter[k] + 1 /\ r \notin Spent(k) /\ r \in Spent(k)'
  BY <1>1, MarksOfIncrement DEF Increment, TypeOK
<1>2. ASSUME NEW r \in Requests, IncrementReplyLost(r), MyKey(r) = k
      PROVE  /\ counter'[k] = counter[k] + 1
             /\ \/ r \notin Spent(k) /\ r \in Spent(k)'
                \/ r \notin Repeated(k) /\ r \in Repeated(k)'
  <2>1. counter'[k] = counter[k] + 1
    BY <1>2 DEF IncrementReplyLost, TypeOK
  <2>2. CASE outcome'[r] = "error"
    <3>1. /\ pc[r] = "incr" /\ outcome[r] = "none"
          /\ UNCHANGED reqVars \/ Ends(r, "error")
      BY <1>2 DEF IncrementReplyLost, TimeInv
    <3>2. window'[r] = window[r] /\ at'[r] = at[r]
      BY <3>1 DEF reqVars, Ends
    <3>3. MyKey(r)' = k
      BY <1>2, <3>2 DEF MyKey
    <3>4. r \in Spent(k)'
      BY <2>2, <3>3 DEF Spent, Failed
    <3>5. k[1] = window[r] /\ window[r] \in Int
      BY <1>2, MyKeyFacts, WindowNumbers DEF TypeOK
    <3>6. r \notin Spent(k)
      BY <3>1, <3>5 DEF Spent, Charged, Failed
    <3> QED
      BY <2>1, <3>4, <3>6
  <2>3. CASE outcome'[r] # "error"
    BY <1>2, <2>1, <2>3, RepeatsOfStep
  <2> QED
    BY <2>2, <2>3
<1>3. CASE \A r \in Requests : MyKey(r) = k => ~Increment(r) /\ ~IncrementReplyLost(r)
  <2>1. CASE Tick
    BY <2>1 DEF Tick, TypeOK
  <2>2. CASE ~Tick
    BY <1>3, <2>2, RedisOfStep DEF TypeOK
  <2> QED
    BY <2>1, <2>2
<1> QED
  BY <1>1, <1>2, <1>3

LEMMA SpentKept == ASSUME QuotaInv, TypeOK', [Next]_vars PROVE SpentInv'
<1> USE DEF QuotaInv
<1>1. ASSUME NEW k \in Keys
      PROVE  /\ Spent(k) \subseteq Spent(k)' /\ Repeated(k) \subseteq Repeated(k)'
             /\ IsFiniteSet(Spent(k)) /\ Cardinality(Spent(k)) \in Nat
             /\ IsFiniteSet(Spent(k)') /\ Cardinality(Spent(k)') \in Nat
             /\ IsFiniteSet(Repeated(k)) /\ Cardinality(Repeated(k)) \in Nat
             /\ IsFiniteSet(Repeated(k)') /\ Cardinality(Repeated(k)') \in Nat
             /\ counter[k] \in Nat /\ counter'[k] \in Nat
             /\ counter[k] <= Cardinality(Spent(k)) + Cardinality(Repeated(k))
  <2>1. Spent(k)' \subseteq Requests /\ Repeated(k)' \subseteq Requests
    BY DEF Spent, Charged, Failed, Repeated
  <2> QED
    BY <2>1, ChargedFinite, RepeatedFinite, MarksOfStep, RepeatsOfStep, RequestsAssumption,
       FS_Subset, FS_CardinalityType DEF SpentInv, TypeOK
<1>2. ASSUME NEW k \in Keys
      PROVE  counter'[k] <= Cardinality(Spent(k)') + Cardinality(Repeated(k)')
  <2>1. /\ Cardinality(Spent(k)) <= Cardinality(Spent(k)')
        /\ Cardinality(Repeated(k)) <= Cardinality(Repeated(k)')
    BY <1>1, FS_Subset
  <2>2. ASSUME NEW r, r \notin Spent(k), r \in Spent(k)'
        PROVE  Cardinality(Spent(k)) + 1 <= Cardinality(Spent(k)')
    BY <1>1, <2>2, Grows
  <2>3. ASSUME NEW r, r \notin Repeated(k), r \in Repeated(k)'
        PROVE  Cardinality(Repeated(k)) + 1 <= Cardinality(Repeated(k)')
    BY <1>1, <2>3, Grows
  <2>4. CASE counter'[k] <= counter[k]
    BY <1>1, <2>1, <2>4
  <2>5. CASE /\ counter'[k] = counter[k] + 1
             /\ \E r \in Requests : r \notin Spent(k) /\ r \in Spent(k)'
    BY <1>1, <2>1, <2>2, <2>5
  <2>6. CASE /\ counter'[k] = counter[k] + 1
             /\ \E r \in Requests : r \notin Repeated(k) /\ r \in Repeated(k)'
    BY <1>1, <2>1, <2>3, <2>6
  <2> QED
    BY <2>4, <2>5, <2>6, MarkOfCharge
<1>3. ASSUME NEW q \in Requests, outcome'[q] = "refused",
             NEW k \in Keys, NEW w \in Windows, MyKey(q)' = k, window'[q] = w
      PROVE  Cardinality(Spent(k)' \ {q}) + Cardinality(Repeated(k)') >= Limit(w)
  <2>1. Limit(w) \in Int /\ Cardinality(Repeated(k)) <= Cardinality(Repeated(k)')
    BY <1>1, LimitIsInt, FS_Subset
  <2>2. IsFiniteSet(Spent(k)' \ {q}) /\ Cardinality(Spent(k)' \ {q}) \in Nat
    BY <1>1, FS_Subset, FS_CardinalityType
  <2>3. CASE outcome[q] = "refused"
    <3>1. pc[q] = "done"
      BY <2>3 DEF TimeInv
    <3>2. window[q] = w /\ MyKey(q) = k
      BY <1>3, <3>1, DoneStays DEF MyKey
    <3>3. Cardinality(Spent(k) \ {q}) + Cardinality(Repeated(k)) >= Limit(w)
      BY <2>3, <3>2 DEF SpentInv, RefusedOnlyWhenSpent, Spent
    <3>4. Cardinality(Spent(k) \ {q}) <= Cardinality(Spent(k)' \ {q})
      BY <1>1, <2>2, FS_Subset
    <3>5. Cardinality(Spent(k) \ {q}) \in Nat
      BY <1>1, FS_Subset, FS_CardinalityType
    <3> QED
      BY <1>1, <2>1, <2>2, <3>3, <3>4, <3>5
  <2>4. CASE outcome[q] # "refused"
    <3>1. Increment(q) /\ window[q] = w /\ MyKey(q) = k /\ Over(counter[k] + 1, w)
      <4>1. /\ Increment(q) /\ window'[q] = window[q] /\ at'[q] = at[q]
            /\ Over(counter[MyKey(q)] + 1, window[q])
        BY <1>3, <2>4
        DEF Next, Charge, Begin, Increment, IncrementReplyLost, SetExpiry, Fail, ReadUsage, Tick,
            Pass, Ends, vars, reqVars, TypeOK
      <4> QED
        BY <1>3, <4>1 DEF MyKey
    <3>2. q \notin Spent(k)
      BY <3>1, MarksOfIncrement
    <3>3. Cardinality(Spent(k)) <= Cardinality(Spent(k)' \ {q})
      BY <1>1, <2>2, <3>2, FS_Subset
    <3>4. counter[k] >= Limit(w)
      BY <1>1, <2>1, <3>1 DEF Over
    <3> QED
      BY <1>1, <2>1, <2>2, <3>3, <3>4
  <2> QED
    BY <2>3, <2>4
<1>4. RefusedOnlyWhenSpent'
  <2> SUFFICES ASSUME NEW q \in Requests, outcome'[q] = "refused"
               PROVE  Cardinality((Spent(MyKey(q)) \ {q})') + Cardinality(Repeated(MyKey(q))')
                        >= Limit(window[q])'
    BY DEF RefusedOnlyWhenSpent, Spent
  <2>1. MyKey(q)' \in Keys /\ window'[q] \in Windows
    <3>1. window'[q] \in Windows /\ at'[q] \in 0..MaxTime
      BY DEF TypeOK
    <3> QED
      BY <3>1, KeyFacts DEF MyKey
  <2>2. PICK k \in Keys, w \in Windows : k = MyKey(q)' /\ w = window'[q]
    BY <2>1
  <2>3. Cardinality(Spent(k)' \ {q}) + Cardinality(Repeated(k)') >= Limit(w)
    BY <1>3, <2>2
  <2>4. (Spent(MyKey(q)) \ {q})' = Spent(k)' \ {q} /\ Repeated(MyKey(q))' = Repeated(k)'
    BY <2>2 DEF Spent, Charged, Failed, Repeated
  <2>5. Limit(window[q])' = Limit(w)
    BY <2>2, ProfileKept DEF Limit
  <2> QED
    BY <2>3, <2>4, <2>5
<1> QED
  BY <1>2, <1>4, RepeatsOfStep DEF SpentInv

LEMMA SeenKept == ASSUME QuotaInv, TypeOK', [Next]_vars PROVE SeenInv'
<1> USE DEF QuotaInv
<1> SUFFICES ASSUME NEW k \in Keys, seen' = [key |-> k, remaining |-> 0], Limit(k[1]) > 0
             PROVE  Closed(k)' \/ counter'[k] >= Limit(k[1])
  BY ProfileKept DEF SeenInv
<1>1. counter[k] \in Nat /\ counter'[k] \in Nat /\ Limit(k[1]) \in Int
  BY KeyWindow, LimitIsInt DEF TypeOK
<1>2. CASE seen' = seen
  BY <1>1, <1>2, CounterKept DEF SeenInv
<1>3. ASSUME NEW w \in Windows, ReadUsage(w) PROVE counter'[k] >= Limit(k[1])
  <2>1. k = Key(w, now) /\ Remaining(w, counter[k]) = 0 /\ counter' = counter
    BY <1>3 DEF ReadUsage, redisVars
  <2>2. k[1] = w
    BY <2>1, KeyFacts DEF TypeOK
  <2>3. profile.limit[w] \in Int
    BY ProfilesAssumption DEF TypeOK
  <2>4. counter[k] >= profile.limit[w]
    BY <1>1, <2>1, <2>3 DEF Remaining
  <2> QED
    BY <1>1, <2>1, <2>2, <2>3, <2>4 DEF Limit
<1> QED
  BY <1>2, <1>3
  DEF Next, Charge, Begin, Increment, IncrementReplyLost, SetExpiry, Fail, Tick, vars

\* A counter without an expiry keeps its witness.
LEMMA OrphansKept == ASSUME QuotaInv, TypeOK', [Next]_vars PROVE NoOrphanCounter'
<1> USE DEF QuotaInv
<1> SUFFICES ASSUME NEW k \in Keys, counter'[k] > 0, left'[k] = 0
             PROVE  \E q \in Requests :
                      \/ MyKey(q)' = k /\ (pc'[q] = "expire" \/ outcome'[q] = "error")
                      \/ q \in Repeated(k)'
  BY DEF NoOrphanCounter
<1>1. CASE counter[k] > 0 /\ left[k] = 0
  <2>1. CASE \E q \in Requests : q \in Repeated(k)
    BY <2>1, RepeatsOfStep
  <2>2. ASSUME NEW q \in Requests, MyKey(q) = k, pc[q] = "expire" \/ outcome[q] = "error"
        PROVE  MyKey(q)' = k /\ (pc'[q] = "expire" \/ outcome'[q] = "error")
    <3>1. ASSUME SetExpiry(q) PROVE FALSE
      <4>1. left'[k] = KeyTTL[window[q]] /\ window[q] \in Windows
        BY <2>2, <3>1 DEF SetExpiry, TypeOK
      <4>2. KeyTTL[window[q]] > 0
        BY <4>1, WindowsAssumption
      <4> QED
        BY <4>1, <4>2
    <3>2. /\ window'[q] = window[q] /\ at'[q] = at[q]
          /\ pc'[q] = "expire" \/ outcome'[q] = "error"
      <4>1. CASE pc[q] = "done"
        BY <2>2, <4>1, DoneStays DEF TimeInv
      <4>2. CASE pc[q] # "done"
        <5>1. pc[q] = "expire"
          BY <2>2, <4>2 DEF TypeOK, PcStates, Outcomes, TimeInv
        <5>2. ASSUME NEW r \in Requests, Begin(r) \/ Charge(r) \/ Fail(r)
              PROVE  /\ window'[q] = window[q] /\ at'[q] = at[q]
                     /\ pc'[q] = "expire" \/ outcome'[q] = "error"
          BY <3>1, <5>1, <5>2
          DEF Charge, Begin, Increment, IncrementReplyLost, SetExpiry, Fail, Pass, Ends, InFlight,
              reqVars, TypeOK
        <5> QED
          BY <5>1, <5>2 DEF Next, ReadUsage, Tick, vars, reqVars
      <4> QED
        BY <4>1, <4>2
    <3> QED
      BY <2>2, <3>2 DEF MyKey
  <2> QED
    BY <1>1, <2>1, <2>2 DEF NoOrphanCounter
<1>2. CASE ~(counter[k] > 0 /\ left[k] = 0)
  <2>1. counter[k] \in Nat /\ left[k] \in Nat
    BY DEF TypeOK
  <2>2. ~Tick
    BY <1>2, <2>1 DEF Tick
  <2>3. left'[k] = 0 => left[k] = 0
    <3>1. \A w \in Windows : KeyTTL[w] \in Int /\ KeyTTL[w] > 0
      BY WindowsAssumption
    <3> QED
      BY <2>1, <2>2, <3>1, RedisOfStep DEF TypeOK
  <2>4. counter[k] = 0
    BY <1>2, <2>1, <2>3
  <2>5. PICK r \in Requests : (Increment(r) \/ IncrementReplyLost(r)) /\ MyKey(r) = k
    BY <2>1, <2>2, <2>4, RedisOfStep DEF TypeOK
  <2>6. CASE Increment(r)
    <3>1. pc'[r] = "expire" /\ window' = window /\ at' = at
      BY <2>4, <2>5, <2>6 DEF Increment, TypeOK
    <3> QED
      BY <2>5, <3>1 DEF MyKey
  <2>7. CASE IncrementReplyLost(r) /\ outcome'[r] = "error"
    <3>1. window'[r] = window[r] /\ at'[r] = at[r]
      BY <2>7 DEF IncrementReplyLost, reqVars, Ends
    <3> QED
      BY <2>5, <2>7, <3>1 DEF MyKey
  <2>8. CASE IncrementReplyLost(r) /\ outcome'[r] # "error"
    BY <2>5, <2>8, RepeatsOfStep
  <2> QED
    BY <2>5, <2>6, <2>7, <2>8
<1> QED
  BY <1>1, <1>2

LEMMA AlwaysQuotaInv == Spec => []QuotaInv
<1>1. QuotaInv /\ [Next]_vars => QuotaInv'
  <2> SUFFICES ASSUME QuotaInv, [Next]_vars PROVE QuotaInv'
    OBVIOUS
  <2>1. TypeOK' /\ TimeInv'
    BY TypesKept, TimeKept DEF QuotaInv
  <2> QED
    BY <2>1, CountKept, SpentKept, SeenKept, OrphansKept DEF QuotaInv
<1> QED
  BY <1>1, QuotaInit, PTL DEF Spec

-----------------------------------------------------------------------------
(* What the quota promises *)

\* Every variable keeps its type.
THEOREM QuotaTypes == Spec => []TypeOK
<1>1. QuotaInv => TypeOK
  BY DEF QuotaInv
<1> QED
  BY <1>1, AlwaysQuotaInv, PTL

\* No window accepts more requests than its limit (auth.py 587-602).
THEOREM LimitInvariant == Spec => []WithinLimit
<1>1. QuotaInv => WithinLimit
  BY DEF QuotaInv, CountInv
<1> QED
  BY <1>1, AlwaysQuotaInv, PTL

\* A refusal means that the others and the INCRs sent twice make up the limit
\* (auth.py 590-593).
THEOREM RefusalInvariant == Spec => []RefusedOnlyWhenSpent
<1>1. QuotaInv => RefusedOnlyWhenSpent
  BY DEF QuotaInv, SpentInv
<1> QED
  BY <1>1, AlwaysQuotaInv, PTL

\* A counter without an expiry has a request that is about to set it, failed at
\* it, or sent its INCR twice (auth.py 591).
THEOREM OrphanInvariant == Spec => []NoOrphanCounter
<1>1. QuotaInv => NoOrphanCounter
  BY DEF QuotaInv
<1> QED
  BY <1>1, AlwaysQuotaInv, PTL

\* A window reported as spent accepts nobody any more (main.py 216-224 against
\* auth.py 593).
THEOREM SpentStaysSpent == Spec => SpentIsSpent
<1>1. ASSUME QuotaInv, TypeOK', [Next]_vars, NEW k \in Keys,
             seen = [key |-> k, remaining |-> 0], Limit(k[1]) > 0
      PROVE  Accepted(k)' \subseteq Accepted(k)
  <2>1. Closed(k) \/ counter[k] >= Limit(k[1])
    BY <1>1 DEF QuotaInv, SeenInv
  <2>2. counter[k] \in Nat /\ Limit(k[1]) \in Int
    BY <1>1, KeyWindow, LimitIsInt DEF QuotaInv, TypeOK
  <2>3. ASSUME NEW r \in Requests, Increment(r), k = MyKey(r),
               counter[k] + 1 <= Limit(k[1])
        PROVE  FALSE
    BY <1>1, <2>1, <2>2, <2>3, ChargedIsOpen DEF QuotaInv, Increment, InFlight
  <2> QED
    BY <1>1, <2>3, MarksOfStep DEF QuotaInv
<1>2. QuotaInv /\ QuotaInv' /\ [Next]_vars =>
        [\A k \in Keys :
           seen = [key |-> k, remaining |-> 0] /\ Limit(k[1]) > 0 =>
             Accepted(k)' \subseteq Accepted(k)]_vars
  BY <1>1 DEF QuotaInv
<1> QED
  BY <1>2, AlwaysQuotaInv, PTL DEF Spec, SpentIsSpent
=============================================================================
