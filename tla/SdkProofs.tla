-------------------------- MODULE SdkProofs --------------------------
(***************************************************************************)
(* Proofs about what the SDK brings along: the client's session with its   *)
(* fingerprint (SdkSession, FingerprintFile), for any number of machines,  *)
(* clients and sources of identifiers, and for any rows and filters        *)
(* (FilterRows); and the release of its wheels (ReleaseUpload), for any     *)
(* number of platforms, uploaders and builds.                              *)
(***************************************************************************)
EXTENDS SdkSession, ReleaseUpload, FiniteSetTheorems, TLAPS

-----------------------------------------------------------------------------
(* Identifiers *)

\* No source of the machine ever answers.
Silent(m) == \A i \in 1..Len(Chain[m]) : IdOf[Chain[m][i]] = NoId

\* The first source that can answer gives this identifier.
FirstAnswer(m, value) ==
  \E i \in 1..Len(Chain[m]) :
    /\ value = IdOf[Chain[m][i]] /\ value # NoId
    /\ \A j \in 1..(i - 1) : IdOf[Chain[m][j]] = NoId

AtFile == {"look", "read", "create", "fill"}

\* Identifiers are a machine's own, but for the content of a file left empty.
OwnInv ==
  /\ \A c \in Clients :
       Ready(c) => \/ id[c] \in OwnIds(MachineOf[c])
                   \/ id[c] = NoId /\ MachineOf[c] \in disturbed
  /\ \A m \in Machines : file[m] \in {Missing, NoId} \cup OwnIds(m)
  /\ \A c \in Clients : at[c] = "read" => FileOf(c) # Missing

\* What undisturbed clients know of the sources they have tried.
SourceInv ==
  \A c \in Clients :
    MachineOf[c] \notin disturbed =>
      /\ \A i \in 1..tried[c] : IdOf[Chain[MachineOf[c]][i]] = NoId
      /\ at[c] \in AtFile => Silent(MachineOf[c])
      /\ Ready(c) => \/ FirstAnswer(MachineOf[c], id[c])
                     \/ Silent(MachineOf[c]) /\ id[c] = FileOf(c) /\ id[c] # NoId

\* An undisturbed file is created by one client, seen by nobody until it is
\* written, and empty only while that client is at it.
FileInv ==
  \A m \in Machines \ disturbed :
    /\ \A c, d \in Creating(m) : c = d
    /\ file[m] = NoId => Creating(m) # {}
    /\ file[m] \notin {Missing, NoId} => Creating(m) = {}
    /\ \A c \in Clients : MachineOf[c] = m =>
         /\ at[c] = "create" => file[m] = Missing
         /\ at[c] = "fill" => file[m] = NoId
         /\ at[c] = "read" => file[m] \notin {Missing, NoId}

IdInv == TypeOK /\ OwnInv /\ SourceInv /\ FileInv

LEMMA OwnIsId == ASSUME NEW m \in Machines PROVE OwnIds(m) \subseteq Ids /\ NoId \in Ids
BY DEF Ids

LEMMA UuidIsOwn ==
  ASSUME NEW c \in Clients
  PROVE  /\ MachineOf[c] \in Machines
         /\ Uuid[c] \in OwnIds(MachineOf[c]) /\ Node[MachineOf[c]] \in OwnIds(MachineOf[c])
BY DEF Machines, OwnIds

LEMMA AnswerIsOwn ==
  ASSUME NEW m \in Machines, NEW i \in 1..Len(Chain[m]), IdOf[Chain[m][i]] # NoId
  PROVE  IdOf[Chain[m][i]] \in OwnIds(m)
BY DEF OwnIds

LEMMA IdInit == ASSUME Init PROVE IdInv
<1> USE ChainAssumption, IdsAssumption DEF Init, Machines
<1>1. TypeOK
  <2>1. NoId \in Ids /\ \A c \in Clients : Len(Chain[MachineOf[c]]) \in Nat
    BY DEF Ids
  <2> QED
    BY <2>1 DEF TypeOK, Places
<1>2. OwnInv /\ FileInv
  BY DEF OwnInv, FileInv, Ready, Creating
<1>3. SourceInv
  BY DEF SourceInv, AtFile, Ready
<1> QED
  BY <1>1, <1>2, <1>3 DEF IdInv

\* Two undisturbed answers on one machine are the same, those of two machines
\* are not.
LEMMA InvNames == ASSUME IdInv PROVE IdNamesMachine
<1> SUFFICES ASSUME NEW c \in Clients, NEW d \in Clients, Ready(c), Ready(d)
             PROVE  IF MachineOf[c] = MachineOf[d]
                    THEN id[c] = id[d] \/ MachineOf[c] \in disturbed
                    ELSE id[c] # id[d] \/ {MachineOf[c], MachineOf[d]} \subseteq disturbed
  BY DEF IdNamesMachine
<1>1. MachineOf[c] \in Machines /\ MachineOf[d] \in Machines
  BY UuidIsOwn
<1>2. CASE MachineOf[c] = MachineOf[d] /\ MachineOf[c] \notin disturbed
  <2> DEFINE m == MachineOf[c]
  <2>1. \/ FirstAnswer(m, id[c])
        \/ Silent(m) /\ id[c] = file[m] /\ id[c] # NoId
    BY <1>2 DEF IdInv, SourceInv, FileOf
  <2>2. \/ FirstAnswer(m, id[d])
        \/ Silent(m) /\ id[d] = file[m] /\ id[d] # NoId
    BY <1>2 DEF IdInv, SourceInv, FileOf
  <2>3. ASSUME NEW v, NEW w, FirstAnswer(m, v), FirstAnswer(m, w) PROVE v = w
    <3>1. PICK i \in 1..Len(Chain[m]) :
            v = IdOf[Chain[m][i]] /\ v # NoId /\ \A k \in 1..(i - 1) : IdOf[Chain[m][k]] = NoId
      BY <2>3 DEF FirstAnswer
    <3>2. PICK j \in 1..Len(Chain[m]) :
            w = IdOf[Chain[m][j]] /\ w # NoId /\ \A k \in 1..(j - 1) : IdOf[Chain[m][k]] = NoId
      BY <2>3 DEF FirstAnswer
    <3> QED
      BY <3>1, <3>2
  <2>4. ~(Silent(m) /\ (FirstAnswer(m, id[c]) \/ FirstAnswer(m, id[d])))
    BY DEF Silent, FirstAnswer
  <2> QED
    BY <1>2, <2>1, <2>2, <2>3, <2>4
<1>3. CASE MachineOf[c] # MachineOf[d]
  BY <1>1, <1>3, IdsAssumption DEF IdInv, OwnInv
<1> QED
  BY <1>2, <1>3

-----------------------------------------------------------------------------
(* The steps of a client *)

LEMMA NextSourceFacts ==
  ASSUME TypeOK, NEW c \in Clients, More(c)
  PROVE  /\ tried[c] + 1 \in 1..Len(Chain[MachineOf[c]])
         /\ NextSource(c) = Chain[MachineOf[c]][tried[c] + 1]
<1>1. Len(Chain[MachineOf[c]]) \in Nat /\ tried[c] \in Nat
  BY ChainAssumption, UuidIsOwn DEF TypeOK
<1> QED
  BY <1>1 DEF More, NextSource

LEMMA IdentifyTypes == ASSUME IdInv, NEW c \in Clients, Identify(c) PROVE TypeOK'
<1> USE DEF IdInv, Goto, Found, Disturb
<1>1. /\ MachineOf[c] \in Machines /\ Uuid[c] \in Ids /\ Node[MachineOf[c]] \in Ids
      /\ NoId \in Ids
  BY UuidIsOwn, OwnIsId
<1>2. CASE SourceAnswers(c)
  <2>1. IdOf[NextSource(c)] \in Ids
    BY <1>1, <1>2, NextSourceFacts, AnswerIsOwn, OwnIsId DEF SourceAnswers
  <2> QED
    BY <1>2, <2>1 DEF SourceAnswers, TypeOK, Places
<1>3. CASE SourceFails(c)
  <2>1. tried[c] + 1 <= Len(Chain[MachineOf[c]]) /\ tried[c] \in Nat
    BY <1>3, NextSourceFacts DEF SourceFails, TypeOK
  <2> QED
    BY <1>1, <1>3, <2>1 DEF SourceFails, TypeOK
<1>4. CASE SourcesFail(c)
  BY <1>4 DEF SourcesFail, TypeOK, Places
<1>5. CASE LookForFile(c)
  BY <1>1, <1>5 DEF LookForFile, TypeOK, Places
<1>6. CASE ReadFile(c)
  <2>1. FileOf(c) \in Ids
    BY <1>1, <1>6 DEF ReadFile, TypeOK, OwnInv, FileOf
  <2> QED
    BY <1>6, <2>1 DEF ReadFile, TypeOK, Places
<1>7. CASE OpenForWriting(c)
  BY <1>1, <1>7 DEF OpenForWriting, TypeOK, Places
<1>8. CASE Fill(c)
  BY <1>1, <1>8 DEF Fill, TypeOK, Places
<1>9. CASE FileFails(c)
  BY <1>1, <1>9 DEF FileFails, TypeOK, Places
<1>10. CASE Dies(c)
  BY <1>1, <1>10 DEF Dies, TypeOK, Places
<1> QED
  BY <1>2, <1>3, <1>4, <1>5, <1>6, <1>7, <1>8, <1>9, <1>10 DEF Identify

LEMMA IdentifyOwn == ASSUME IdInv, TypeOK', NEW c \in Clients, Identify(c) PROVE OwnInv'
<1> USE DEF IdInv, TypeOK, Goto, Found, Disturb, OwnInv, Ready, FileOf
<1>1. /\ MachineOf[c] \in Machines /\ Uuid[c] \in OwnIds(MachineOf[c])
      /\ Node[MachineOf[c]] \in OwnIds(MachineOf[c])
      /\ NoId # Missing
  BY UuidIsOwn, IdsAssumption
<1>2. CASE SourceAnswers(c)
  <2>1. IdOf[NextSource(c)] \in OwnIds(MachineOf[c])
    BY <1>1, <1>2, NextSourceFacts, AnswerIsOwn DEF SourceAnswers
  <2> QED
    BY <1>1, <1>2, <2>1 DEF SourceAnswers
<1>3. CASE SourceFails(c)
  BY <1>1, <1>3 DEF SourceFails
<1>4. CASE SourcesFail(c)
  BY <1>1, <1>4 DEF SourcesFail
<1>5. CASE LookForFile(c)
  BY <1>1, <1>5 DEF LookForFile
<1>6. CASE ReadFile(c)
  BY <1>1, <1>6 DEF ReadFile, FileInv
<1>7. CASE OpenForWriting(c)
  BY <1>1, <1>7, UuidIsOwn DEF OpenForWriting
<1>8. CASE Fill(c)
  BY <1>1, <1>8, UuidIsOwn, IdsAssumption DEF Fill
<1>9. CASE FileFails(c)
  BY <1>1, <1>9 DEF FileFails
<1>10. CASE Dies(c)
  BY <1>1, <1>10 DEF Dies
<1> QED
  BY <1>2, <1>3, <1>4, <1>5, <1>6, <1>7, <1>8, <1>9, <1>10 DEF Identify

LEMMA IdentifySources == ASSUME IdInv, TypeOK', NEW c \in Clients, Identify(c) PROVE SourceInv'
<1> USE DEF IdInv, TypeOK, Goto, Found, Disturb, SourceInv, Ready, FileOf, AtFile
<1>1. /\ MachineOf[c] \in Machines /\ Uuid[c] # NoId /\ NoId # Missing
      /\ \A d \in Clients : MachineOf[d] \in Machines
  BY UuidIsOwn, IdsAssumption
<1>2. CASE SourceAnswers(c)
  <2>1. More(c) /\ IdOf[NextSource(c)] # NoId
    BY <1>2 DEF SourceAnswers
  <2>2. MachineOf[c] \notin disturbed => FirstAnswer(MachineOf[c], IdOf[NextSource(c)])
    <3>1. /\ tried[c] + 1 \in 1..Len(Chain[MachineOf[c]])
          /\ NextSource(c) = Chain[MachineOf[c]][tried[c] + 1] /\ tried[c] \in Nat
      BY <2>1, NextSourceFacts
    <3>2. MachineOf[c] \notin disturbed =>
            \A j \in 1..tried[c] : IdOf[Chain[MachineOf[c]][j]] = NoId
      OBVIOUS
    <3>3. (tried[c] + 1) - 1 = tried[c]
      BY <3>1
    <3> QED
      BY <2>1, <3>1, <3>2, <3>3 DEF FirstAnswer
  <2> QED
    BY <1>2, <2>2 DEF SourceAnswers
<1>3. CASE SourceFails(c)
  <2>1. /\ NextSource(c) = Chain[MachineOf[c]][tried[c] + 1]
        /\ tried[c] \in Nat /\ tried'[c] = tried[c] + 1
    BY <1>3, NextSourceFacts DEF SourceFails
  <2>2. MachineOf[c] \notin disturbed' =>
          /\ MachineOf[c] \notin disturbed
          /\ \A i \in 1..tried'[c] : IdOf[Chain[MachineOf[c]][i]] = NoId
    <3> SUFFICES ASSUME MachineOf[c] \notin disturbed'
                 PROVE  /\ MachineOf[c] \notin disturbed
                        /\ \A i \in 1..tried'[c] : IdOf[Chain[MachineOf[c]][i]] = NoId
      OBVIOUS
    <3>1. IdOf[NextSource(c)] = NoId /\ disturbed' = disturbed
      BY <1>3 DEF SourceFails
    <3>2. \A i \in 1..tried[c] : IdOf[Chain[MachineOf[c]][i]] = NoId
      BY <3>1
    <3>3. \A i \in 1..(tried[c] + 1) : i \in 1..tried[c] \/ i = tried[c] + 1
      BY <2>1
    <3> QED
      BY <2>1, <3>1, <3>2, <3>3
  <2> QED
    BY <1>1, <1>3, <2>2 DEF SourceFails
<1>4. CASE SourcesFail(c)
  <2>1. Len(Chain[MachineOf[c]]) \in Nat /\ tried[c] = Len(Chain[MachineOf[c]])
    BY <1>1, <1>4, ChainAssumption DEF SourcesFail, More
  <2>2. MachineOf[c] \notin disturbed => Silent(MachineOf[c])
    BY <2>1 DEF Silent
  <2> QED
    BY <1>1, <1>4, <2>2 DEF SourcesFail
<1>5. CASE LookForFile(c)
  BY <1>1, <1>5 DEF LookForFile, FileInv, Creating
<1>6. CASE ReadFile(c)
  BY <1>1, <1>6 DEF ReadFile, FileInv, Creating
<1>7. CASE OpenForWriting(c)
  BY <1>1, <1>7, IdsAssumption DEF OpenForWriting, FileInv, Creating, OwnInv
<1>8. CASE Fill(c)
  BY <1>1, <1>8 DEF Fill, FileInv, Creating
<1>9. CASE FileFails(c)
  BY <1>1, <1>9 DEF FileFails, FileInv, Creating
<1>10. CASE Dies(c)
  BY <1>1, <1>10 DEF Dies, FileInv, Creating
<1> QED
  BY <1>2, <1>3, <1>4, <1>5, <1>6, <1>7, <1>8, <1>9, <1>10 DEF Identify

LEMMA IdentifyFile == ASSUME IdInv, TypeOK', NEW c \in Clients, Identify(c) PROVE FileInv'
<1> USE DEF IdInv, TypeOK, Goto, Found, Disturb, FileInv, Ready, FileOf, Creating
<1>1. /\ MachineOf[c] \in Machines /\ Uuid[c] \notin {NoId, Missing} /\ NoId # Missing
      /\ \A d \in Clients : MachineOf[d] \in Machines
  BY UuidIsOwn, IdsAssumption
<1>2. CASE SourceAnswers(c)
  BY <1>1, <1>2 DEF SourceAnswers
<1>3. CASE SourceFails(c)
  BY <1>1, <1>3 DEF SourceFails
<1>4. CASE SourcesFail(c)
  BY <1>1, <1>4 DEF SourcesFail
<1>5. CASE LookForFile(c)
  BY <1>1, <1>5 DEF LookForFile
<1>6. CASE ReadFile(c)
  BY <1>1, <1>6 DEF ReadFile
<1>7. CASE OpenForWriting(c)
  BY <1>1, <1>7 DEF OpenForWriting
<1>8. CASE Fill(c)
  BY <1>1, <1>8 DEF Fill
<1>9. CASE FileFails(c)
  BY <1>1, <1>9 DEF FileFails
<1>10. CASE Dies(c)
  BY <1>1, <1>10 DEF Dies
<1> QED
  BY <1>2, <1>3, <1>4, <1>5, <1>6, <1>7, <1>8, <1>9, <1>10 DEF Identify

\* The action formula of FileSettles, for the step of a client.
LEMMA IdentifySettles ==
  ASSUME TypeOK, NEW c \in Clients, Identify(c), NEW m \in Machines, Settled(m)
  PROVE  Settled(m)' /\ file'[m] = file[m]
BY UuidIsOwn
DEF TypeOK, Settled, Creating, Identify, SourceAnswers, SourceFails, SourcesFail, LookForFile,
    ReadFile, OpenForWriting, Fill, FileFails, Dies, Goto, Found, FileOf

\* An identifier that was found stays.
LEMMA ReadyStays ==
  ASSUME TypeOK, NEW c \in Clients, Identify(c), NEW d \in Clients, Ready(d)
  PROVE  Ready(d)' /\ id'[d] = id[d]
BY DEF TypeOK, Ready, Identify, SourceAnswers, SourceFails, SourcesFail, LookForFile,
       ReadFile, OpenForWriting, Fill, FileFails, Dies, Goto, Found

-----------------------------------------------------------------------------
(* The session *)

\* Whoever has bound the token has found its identifier.
BoundInv ==
  /\ state \in [Clients -> {"idle", "binding", "admitted", "finished", "lockedOut"}]
  /\ \A c \in Clients : state[c] = "binding" => Ready(c)
  /\ \A d \in binders : d \in Clients /\ Ready(d)

SessionInv == IdInv /\ BoundInv

LEMMA SessionStarts == ASSUME SessionInit PROVE SessionInv
<1>1. IdInv
  BY IdInit DEF SessionInit
<1>2. BoundInv
  BY DEF SessionInit, BoundInv
<1> QED
  BY <1>1, <1>2 DEF SessionInv

LEMMA IdInvUnchanged == ASSUME IdInv, UNCHANGED fpVars PROVE IdInv'
BY DEF fpVars, IdInv, TypeOK, OwnInv, SourceInv, FileInv, Ready, FileOf, Creating

LEMMA SessionKept == ASSUME SessionInv, [Next]_vars PROVE SessionInv'
<1> USE DEF SessionInv
<1>1. ASSUME NEW c \in Clients, Construct(c) PROVE SessionInv'
  <2>1. Identify(c) /\ UNCHANGED <<callVars, binders>>
    BY <1>1 DEF Construct
  <2>2. TypeOK'
    BY <2>1, IdentifyTypes
  <2>3. IdInv'
    BY <2>1, <2>2, IdentifyOwn, IdentifySources, IdentifyFile DEF IdInv
  <2>4. BoundInv'
    BY <2>1, ReadyStays DEF IdInv, BoundInv, callVars
  <2> QED
    BY <2>3, <2>4
<1>2. ASSUME NEW c \in Clients, DeviceCheck(c) \/ Bind(c) PROVE SessionInv'
  <2>1. IdInv'
    BY <1>2, IdInvUnchanged DEF DeviceCheck, Bind
  <2>2. BoundInv'
    BY <1>2 DEF DeviceCheck, Bind, BoundInv, fpVars, Ready
  <2> QED
    BY <2>1, <2>2
<1>3. ASSUME NEW c \in Clients, TurnedAway(c) \/ Answered(c) PROVE SessionInv'
  <2>1. /\ UNCHANGED fpVars /\ binders' = binders /\ state[c] \in {"binding", "admitted"}
        /\ \E s \in {"idle", "finished"} : state' = [state EXCEPT ![c] = s]
    BY <1>3 DEF TurnedAway, Answered
  <2>2. IdInv'
    BY <2>1, IdInvUnchanged
  <2>3. BoundInv'
    BY <2>1 DEF BoundInv, fpVars, Ready
  <2> QED
    BY <2>2, <2>3
<1>4. CASE Refresh \/ UNCHANGED vars
  <2>1. UNCHANGED <<fpVars, state, binders>>
    BY <1>4 DEF Refresh, vars, callVars
  <2> QED
    BY <2>1, IdInvUnchanged DEF BoundInv, fpVars, Ready
<1> QED
  BY <1>1, <1>2, <1>3, <1>4 DEF Next

LEMMA AlwaysSessionInv == Spec => []SessionInv
BY SessionStarts, SessionKept, PTL DEF Spec

-----------------------------------------------------------------------------
(* What the client promises *)

\* An identifier is one machine's, and a machine has one, unless it was
\* disturbed (fingerprint.py 36-48, 104-114).
THEOREM IdentityInvariant == Spec => []IdNamesMachine
<1>1. SessionInv => IdNamesMachine
  BY InvNames DEF SessionInv
<1> QED
  BY <1>1, AlwaysSessionInv, PTL

\* A file that is written keeps its identifier (fingerprint.py 41-46).
THEOREM FileStays == Spec => FileSettles
<1>1. SessionInv /\ [Next]_vars =>
        [\A m \in Machines : Settled(m) => Settled(m)' /\ file'[m] = file[m]]_fpVars
  <2> SUFFICES ASSUME SessionInv, [Next]_vars, ~UNCHANGED fpVars,
                      NEW m \in Machines, Settled(m)
               PROVE  Settled(m)' /\ file'[m] = file[m]
    OBVIOUS
  <2>1. PICK c \in Clients : Identify(c)
    BY DEF Next, Construct, DeviceCheck, Bind, TurnedAway, Answered, Refresh, vars
  <2> QED
    BY <2>1, IdentifySettles DEF SessionInv, IdInv
<1> QED
  BY <1>1, AlwaysSessionInv, PTL DEF Spec, FileSettles

\* The programs of an undisturbed machine are locked out only after one of
\* another machine has bound the token, although first requests race for it
\* (auth.py 292-303, 543-574).
THEOREM LockoutInvariant == Spec => LockedOutByAnother
<1>1. ASSUME SessionInv, [Next]_vars, NEW c \in Clients,
             state[c] = "idle", state'[c] = "lockedOut", MachineOf[c] \notin disturbed
      PROVE  \E d \in binders : MachineOf[d] # MachineOf[c]
  <2>1. state \in [Clients -> {"idle", "binding", "admitted", "finished", "lockedOut"}]
    BY <1>1 DEF SessionInv, BoundInv
  <2>2. DeviceCheck(c)
    <3>1. CASE Refresh \/ UNCHANGED vars
      BY <1>1, <3>1 DEF Refresh, vars, callVars
    <3>2. ASSUME NEW d \in Clients, Construct(d) PROVE FALSE
      BY <1>1, <3>2 DEF Construct, callVars
    <3>3. ASSUME NEW d \in Clients, Bind(d) \/ TurnedAway(d) \/ Answered(d) PROVE FALSE
      BY <1>1, <2>1, <3>3 DEF Bind, TurnedAway, Answered
    <3>4. ASSUME NEW d \in Clients, DeviceCheck(d) PROVE d = c
      BY <1>1, <2>1, <3>4 DEF DeviceCheck
    <3> QED
      BY <1>1, <3>1, <3>2, <3>3, <3>4 DEF Next
  <2>3. PICK d \in binders : id[d] # id[c]
    BY <1>1, <2>1, <2>2 DEF DeviceCheck
  <2>4. Ready(c) /\ d \in Clients /\ Ready(d)
    BY <1>1, <2>2 DEF DeviceCheck, SessionInv, BoundInv
  <2>5. MachineOf[d] # MachineOf[c]
    BY <1>1, <2>3, <2>4, InvNames DEF SessionInv, IdNamesMachine
  <2> QED
    BY <2>5
<1>2. SessionInv /\ [Next]_vars =>
        [\A c \in Clients :
           state[c] = "idle" /\ state'[c] = "lockedOut" =>
             \/ MachineOf[c] \in disturbed
             \/ \E d \in binders : MachineOf[d] # MachineOf[c]]_vars
  BY <1>1
<1> QED
  BY <1>2, AlwaysSessionInv, PTL DEF Spec, LockedOutByAnother

-----------------------------------------------------------------------------
(* The selection of rows *)

\* How many of the places come up to n, and the place that is the i-th.
Rank(places, n) == Cardinality(places \cap 1..n)
Place(places, i) == CHOOSE n \in places : Rank(places, n) = i

\* Places have ranks of their own, in their order, and every rank is one's.
LEMMA Ranks ==
  ASSUME NEW N \in Nat, NEW P \in SUBSET (1..N)
  PROVE  /\ Cardinality(P) \in Nat
         /\ \A n \in P : Rank(P, n) \in 1..Cardinality(P)
         /\ \A m, n \in P : m < n => Rank(P, m) < Rank(P, n)
         /\ \A i \in 1..Cardinality(P) : \E n \in P : Rank(P, n) = i
<1>1. IsFiniteSet(P) /\ Cardinality(P) \in Nat
  <2>1. IsFiniteSet(1..N)
    BY FS_Interval
  <2>2. IsFiniteSet(P)
    BY <2>1, FS_Subset
  <2> QED
    BY <2>2, FS_CardinalityType
<1>2. \A n \in P : IsFiniteSet(P \cap 1..n) /\ Rank(P, n) \in Nat
  BY <1>1, FS_Subset, FS_CardinalityType DEF Rank
<1>3. ASSUME NEW n \in P PROVE Rank(P, n) \in 1..Cardinality(P)
  <2>1. n \in P \cap 1..n
    OBVIOUS
  <2>2. Rank(P, n) # 0
    BY <1>2, <2>1, FS_EmptySet DEF Rank
  <2>3. Rank(P, n) <= Cardinality(P)
    BY <1>1, FS_Subset DEF Rank
  <2>4. Rank(P, n) \in Nat
    BY <1>2
  <2> QED
    BY <1>1, <2>2, <2>3, <2>4
<1>4. ASSUME NEW m \in P, NEW n \in P, m < n PROVE Rank(P, m) < Rank(P, n)
  <2>1. P \cap 1..m \subseteq P \cap 1..n /\ P \cap 1..m # P \cap 1..n
    BY <1>4
  <2>2. Rank(P, m) <= Rank(P, n) /\ Rank(P, m) # Rank(P, n)
    BY <1>2, <2>1, FS_Subset DEF Rank
  <2>3. Rank(P, m) \in Nat /\ Rank(P, n) \in Nat
    BY <1>2
  <2> QED
    BY <2>2, <2>3
<1>5. ASSUME NEW i \in 1..Cardinality(P) PROVE \E n \in P : Rank(P, n) = i
  <2> DEFINE f == [n \in P |-> Rank(P, n)]
             D == 1..Cardinality(P)
  <2>1. IsFiniteSet(D) /\ Cardinality(D) = Cardinality(P)
    BY <1>1, FS_Interval
  <2>2. f \in [P -> D]
    BY <1>3
  <2>3. \A m, n \in P : f[m] = f[n] => m = n
    <3> SUFFICES ASSUME NEW m \in P, NEW n \in P, m # n PROVE f[m] # f[n]
      OBVIOUS
    <3>1. m < n \/ n < m
      OBVIOUS
    <3>2. Rank(P, m) \in Nat /\ Rank(P, n) \in Nat
      BY <1>2
    <3>3. Rank(P, m) < Rank(P, n) \/ Rank(P, n) < Rank(P, m)
      BY <3>1, <1>4
    <3> QED
      BY <3>2, <3>3
  <2>4. f \in Injection(P, D)
    BY <2>2, <2>3 DEF Injection, IsInjective
  <2>5. f \in Surjection(P, D)
    BY <1>1, <2>1, <2>4, FS_Injection
  <2> QED
    BY <2>5 DEF Surjection
<1> QED
  BY <1>1, <1>3, <1>4, <1>5

\* The i-th places go up with i, and are all the places there are.
LEMMA PlacesInOrder ==
  ASSUME NEW N \in Nat, NEW P \in SUBSET (1..N)
  PROVE  /\ \A i \in 1..Cardinality(P) : Place(P, i) \in P /\ Rank(P, Place(P, i)) = i
         /\ \A i, j \in 1..Cardinality(P) : i < j => Place(P, i) < Place(P, j)
         /\ \A n \in P : Place(P, Rank(P, n)) = n
<1>1. \A i \in 1..Cardinality(P) : Place(P, i) \in P /\ Rank(P, Place(P, i)) = i
  BY Ranks DEF Place
<1>2. \A n \in P : n \in Nat /\ Rank(P, n) \in 1..Cardinality(P)
  <2>1. \A n \in P : n \in Nat
    OBVIOUS
  <2> QED
    BY <2>1, Ranks
<1>3. Cardinality(P) \in Nat
  BY Ranks
<1>4. ASSUME NEW m \in P, NEW n \in P, m < n
      PROVE  Rank(P, m) \in Nat /\ Rank(P, n) \in Nat /\ Rank(P, m) < Rank(P, n)
  <2>1. Rank(P, m) < Rank(P, n)
    BY <1>4, Ranks
  <2> QED
    BY <2>1, <1>2, <1>3
<1>5. ASSUME NEW m \in P, NEW n \in P, Rank(P, m) <= Rank(P, n) PROVE m <= n
  <2> SUFFICES ASSUME n < m PROVE FALSE
    BY <1>2
  <2>1. Rank(P, m) \in Nat /\ Rank(P, n) \in Nat /\ Rank(P, n) < Rank(P, m)
    BY <1>4
  <2> QED
    BY <2>1, <1>5
<1>6. ASSUME NEW i \in 1..Cardinality(P), NEW j \in 1..Cardinality(P), i < j
      PROVE  Place(P, i) < Place(P, j)
  <2> DEFINE m == Place(P, i)
             n == Place(P, j)
  <2>1. m \in P /\ n \in P /\ Rank(P, m) = i /\ Rank(P, n) = j
    BY <1>1
  <2> HIDE DEF m, n
  <2>2. m <= n /\ m # n
    BY <1>3, <1>5, <1>6, <2>1
  <2>3. m \in Nat /\ n \in Nat
    BY <1>2, <2>1
  <2>4. m < n
    BY <2>2, <2>3
  <2> QED
    BY <2>4 DEF m, n
<1>7. ASSUME NEW n \in P PROVE Place(P, Rank(P, n)) = n
  <2> DEFINE m == Place(P, Rank(P, n))
  <2>1. m \in P /\ Rank(P, m) = Rank(P, n)
    BY <1>1, <1>2
  <2> HIDE DEF m
  <2>2. Rank(P, n) \in Nat
    BY <1>2, <1>3
  <2>3. m <= n /\ n <= m
    BY <1>5, <2>1, <2>2
  <2>4. m \in Nat /\ n \in Nat
    BY <1>2, <2>1
  <2>5. m = n
    BY <2>3, <2>4
  <2> QED
    BY <2>5 DEF m
<1> QED
  BY <1>1, <1>6, <1>7

\* A sequence without repetitions whose members come in the order of another.
Picked(t, s) ==
  /\ t \in Seq(ToSet(s)) /\ IsInjective(t)
  /\ \A i, j \in 1..Len(t) :
       i < j => \E k, l \in 1..Len(s) : k < l /\ s[k] = t[i] /\ s[l] = t[j]

\* A sequence without repetitions.
Distinct(s) == s \in Seq(ToSet(s)) /\ IsInjective(s)

LEMMA PickedItself == ASSUME NEW s, Distinct(s) PROVE Picked(s, s)
BY DEF Picked, Distinct

LEMMA PickedIsDistinct ==
  ASSUME NEW s, NEW t, Picked(t, s) PROVE Distinct(t) /\ ToSet(t) \subseteq ToSet(s)
BY DEF Picked, Distinct, ToSet

\* Filters may follow each other.
LEMMA PickedOfPicked ==
  ASSUME NEW s, NEW t, NEW u, Distinct(s), Picked(t, s), Picked(u, t)
  PROVE  Picked(u, s)
<1>1. ToSet(t) \subseteq ToSet(s) /\ Distinct(t) /\ Distinct(u) /\ ToSet(u) \subseteq ToSet(t)
  BY PickedIsDistinct
<1>2. u \in Seq(ToSet(s))
  BY <1>1 DEF Picked
<1>3. ASSUME NEW i \in 1..Len(u), NEW j \in 1..Len(u), i < j
      PROVE  \E k, l \in 1..Len(s) : k < l /\ s[k] = u[i] /\ s[l] = u[j]
  <2>1. PICK k, l \in 1..Len(t) : k < l /\ t[k] = u[i] /\ t[l] = u[j]
    BY <1>3 DEF Picked
  <2> QED
    BY <2>1 DEF Picked
<1> QED
  BY <1>2, <1>3 DEF Picked

\* A list comprehension picks the rows at its places, and no other.
LEMMA RowsAtPicks ==
  ASSUME NEW s, Distinct(s), NEW P \in SUBSET (1..Len(s))
  PROVE  Picked(RowsAt(s, P), s) /\ ToSet(RowsAt(s, P)) = {s[n] : n \in P}
<1> DEFINE t == RowsAt(s, P)
           C == Cardinality(P)
<1>0. /\ Len(s) \in Nat /\ DOMAIN s = 1..Len(s) /\ \A n \in 1..Len(s) : s[n] \in ToSet(s)
      /\ \A m, n \in 1..Len(s) : s[m] = s[n] => m = n
  BY DEF Distinct, ToSet, IsInjective
<1>1. C \in Nat
  BY <1>0, Ranks
<1>2. t = [i \in 1..C |-> s[Place(P, i)]]
  BY DEF RowsAt, Place, Rank
<1>3. \A i \in 1..C : Place(P, i) \in P /\ Rank(P, Place(P, i)) = i
  BY <1>0, PlacesInOrder
<1>4. t \in Seq(ToSet(s)) /\ Len(t) = C /\ DOMAIN t = 1..C
  <2>1. \A i \in 1..C : s[Place(P, i)] \in ToSet(s)
    BY <1>0, <1>3
  <2> HIDE DEF C
  <2>2. t \in [1..C -> ToSet(s)]
    BY <1>2, <2>1
  <2> QED
    BY <1>1, <2>2
<1>5. IsInjective(t)
  <2> SUFFICES ASSUME NEW i \in 1..C, NEW j \in 1..C, t[i] = t[j] PROVE i = j
    BY <1>4 DEF IsInjective
  <2>1. Place(P, i) = Place(P, j)
    BY <1>0, <1>2, <1>3
  <2> QED
    BY <2>1, <1>3
<1>6. ASSUME NEW i \in 1..Len(t), NEW j \in 1..Len(t), i < j
      PROVE  \E k, l \in 1..Len(s) : k < l /\ s[k] = t[i] /\ s[l] = t[j]
  <2>1. i \in 1..C /\ j \in 1..C
    BY <1>4
  <2>2. Place(P, i) < Place(P, j)
    BY <1>0, <1>6, <2>1, PlacesInOrder
  <2>3. Place(P, i) \in 1..Len(s) /\ Place(P, j) \in 1..Len(s)
    BY <1>3, <2>1
  <2> QED
    BY <1>2, <2>1, <2>2, <2>3
<1>7. ToSet(t) \subseteq {s[n] : n \in P}
  BY <1>2, <1>3, <1>4 DEF ToSet
<1>8. ASSUME NEW n \in P PROVE s[n] \in ToSet(t)
  <2>1. Rank(P, n) \in 1..C /\ Place(P, Rank(P, n)) = n
    BY <1>0, Ranks, PlacesInOrder
  <2>2. t[Rank(P, n)] = s[n]
    BY <1>2, <2>1
  <2> QED
    BY <1>4, <2>1, <2>2 DEF ToSet
<1> QED
  BY <1>4, <1>5, <1>6, <1>7, <1>8 DEF Picked

\* Each filter picks the rows that meet it.
LEMMA ByCodesPicks ==
  ASSUME NEW s, Distinct(s), NEW codes
  PROVE  /\ Picked(ByCodes(s, codes), s)
         /\ ToSet(ByCodes(s, codes)) = {row \in ToSet(s) : codes # {} => row.code \in codes}
<1> DEFINE P == {n \in 1..Len(s) : s[n].code \in codes}
<1>1. DOMAIN s = 1..Len(s)
  BY DEF Distinct
<1>2. {s[n] : n \in P} = {row \in ToSet(s) : row.code \in codes}
  BY <1>1 DEF ToSet
<1>3. CASE codes = {}
  BY <1>3, PickedItself DEF ByCodes
<1>4. CASE codes # {}
  BY <1>2, <1>4, RowsAtPicks DEF ByCodes
<1> QED
  BY <1>3, <1>4

LEMMA ByKeywordPicks ==
  ASSUME NEW s, Distinct(s), NEW keyword
  PROVE  /\ Picked(ByKeyword(s, keyword), s)
         /\ ToSet(ByKeyword(s, keyword)) =
              {row \in ToSet(s) : keyword # None =>
                 {row.code, row.name} \cap Containing[keyword] # {}}
<1> DEFINE P == {n \in 1..Len(s) : {s[n].code, s[n].name} \cap Containing[keyword] # {}}
<1>1. DOMAIN s = 1..Len(s)
  BY DEF Distinct
<1>2. {s[n] : n \in P} =
        {row \in ToSet(s) : {row.code, row.name} \cap Containing[keyword] # {}}
  BY <1>1 DEF ToSet
<1>3. CASE keyword = None
  BY <1>3, PickedItself DEF ByKeyword
<1>4. CASE keyword # None
  BY <1>2, <1>4, RowsAtPicks DEF ByKeyword
<1> QED
  BY <1>3, <1>4

LEMMA ByTypePicks ==
  ASSUME NEW s, Distinct(s), NEW type
  PROVE  /\ Picked(ByType(s, type), s)
         /\ ToSet(ByType(s, type)) = {row \in ToSet(s) : type # None => row.type = type}
<1> DEFINE P == {n \in 1..Len(s) : s[n].type = type}
<1>1. DOMAIN s = 1..Len(s)
  BY DEF Distinct
<1>2. {s[n] : n \in P} = {row \in ToSet(s) : row.type = type}
  BY <1>1 DEF ToSet
<1>3. CASE type = None
  BY <1>3, PickedItself DEF ByType
<1>4. CASE type # None
  BY <1>2, <1>4, RowsAtPicks DEF ByType
<1> QED
  BY <1>3, <1>4

\* The parts between commas of the codes a caller gives.
Parts(codes) == UNION {ToSet(codes[i]) : i \in 1..Len(codes)}

\* The string of codes, joined and parsed, has the parts the caller gave.
LEMMA CodesArrive ==
  ASSUME NEW codes, DOMAIN codes = 1..Len(codes)
  PROVE  ParseCodes(JoinCodes(codes)) = Parts(codes) \ {Blank}
<1>1. JoinCodes(codes) \subseteq Parts(codes)
  BY DEF JoinCodes, Parts, ToSet
<1>2. ASSUME NEW part \in Parts(codes), part # Blank PROVE part \in JoinCodes(codes)
  <2>1. PICK i \in 1..Len(codes) : part \in ToSet(codes[i])
    BY DEF Parts
  <2>2. ~IsBlank(codes[i])
    BY <1>2, <2>1 DEF IsBlank, ToSet
  <2>3. codes[i] \in {c \in ToSet(codes) : ~IsBlank(c)}
    BY <2>2 DEF ToSet
  <2> QED
    BY <2>1, <2>3 DEF JoinCodes
<1> QED
  BY <1>1, <1>2 DEF ParseCodes

\* filter_rows selects what the caller asked for, in the order of the snapshot.
LEMMA MatchingIsAsked ==
  ASSUME NEW s, Distinct(s), NEW q, DOMAIN q.codes = 1..Len(q.codes)
  PROVE  /\ Picked(Matching(s, q), s)
         /\ ToSet(Matching(s, q)) = {row \in ToSet(s) : Asked(row, q)}
<1> DEFINE codes == ParseCodes(JoinCodes(q.codes))
           t == ByCodes(s, codes)
           u == ByKeyword(t, q.keyword)
           v == ByType(u, q.type)
<1> HIDE DEF codes, t, u, v
<1>1. Picked(t, s) /\ ToSet(t) = {row \in ToSet(s) : codes # {} => row.code \in codes}
  BY ByCodesPicks DEF t
<1>2. /\ Picked(u, t)
      /\ ToSet(u) = {row \in ToSet(t) : q.keyword # None =>
                       {row.code, row.name} \cap Containing[q.keyword] # {}}
  BY <1>1, PickedIsDistinct, ByKeywordPicks DEF u
<1>3. Picked(v, u) /\ ToSet(v) = {row \in ToSet(u) : q.type # None => row.type = q.type}
  BY <1>2, PickedIsDistinct, ByTypePicks DEF v
<1>4. Picked(v, s)
  BY <1>1, <1>2, <1>3, PickedOfPicked
<1>5. ToSet(v) = {row \in ToSet(s) :
                    /\ codes # {} => row.code \in codes
                    /\ q.keyword # None => {row.code, row.name} \cap Containing[q.keyword] # {}
                    /\ q.type # None => row.type = q.type}
  BY <1>1, <1>2, <1>3
<1>6. codes = Parts(q.codes) \ {Blank}
  BY CodesArrive DEF codes
<1>7. ASSUME NEW row
      PROVE  Asked(row, q) <=>
               /\ codes # {} => row.code \in codes
               /\ q.keyword # None => {row.code, row.name} \cap Containing[q.keyword] # {}
               /\ q.type # None => row.type = q.type
  <2>1. (\E text \in Containing[q.keyword] : text \in {row.code, row.name})
          <=> {row.code, row.name} \cap Containing[q.keyword] # {}
    OBVIOUS
  <2>2. Asked(row, q) <=>
          /\ Parts(q.codes) \ {Blank} # {} => row.code \in Parts(q.codes) \ {Blank}
          /\ q.keyword # None =>
               \E text \in Containing[q.keyword] : text \in {row.code, row.name}
          /\ q.type # None => row.type = q.type
    BY DEF Asked, Parts
  <2> QED
    BY <1>6, <2>1, <2>2
<1>8. Matching(s, q) = v
  BY DEF Matching, codes, t, u, v
<1> QED
  BY <1>4, <1>5, <1>7, <1>8

\* A page continues the rows before it, and is empty only after the last.
LEMMA SliceContinues ==
  ASSUME NEW S, NEW m \in Seq(S), NEW n \in 0..Len(m), NEW limit \in Nat
  PROVE  LET page == Slice(m, n, limit)
             got  == SubSeq(m, 1, n) \o page
         IN  /\ Len(got) \in n..Len(m) /\ got = SubSeq(m, 1, Len(got))
             /\ page = <<>> => Len(got) = Len(m)
<1> DEFINE last == IF limit = 0 THEN Len(m) ELSE AtMost(Len(m), n + limit)
           page == SubSeq(m, n + 1, last)
           got  == SubSeq(m, 1, n) \o page
<1>1. last \in n..Len(m) /\ (last = n => n = Len(m))
  BY DEF AtMost
<1>2. Slice(m, n, limit) = page
  <2>1. AtLeast(0, n) = n
    BY DEF AtLeast
  <2> QED
    BY <2>1 DEF Slice
<1> HIDE DEF last
<1>3. /\ SubSeq(m, 1, n) \in Seq(S) /\ Len(SubSeq(m, 1, n)) = n
      /\ \A i \in 1..n : SubSeq(m, 1, n)[i] = m[i]
  OBVIOUS
<1>4. /\ page \in Seq(S) /\ Len(page) = last - n
      /\ \A i \in 1..(last - n) : page[i] = m[n + i]
  BY <1>1
<1> HIDE DEF page
<1>5. got \in Seq(S) /\ Len(got) = last /\ \A i \in 1..last : got[i] = m[i]
  BY <1>1, <1>3, <1>4
<1>6. /\ SubSeq(m, 1, last) \in Seq(S) /\ Len(SubSeq(m, 1, last)) = last
      /\ \A i \in 1..last : SubSeq(m, 1, last)[i] = m[i]
  BY <1>1
<1> HIDE DEF got
<1>7. got = SubSeq(m, 1, last)
  BY <1>5, <1>6
<1>8. page = <<>> => last = n
  BY <1>1, <1>4
<1>9. /\ Len(got) \in n..Len(m) /\ got = SubSeq(m, 1, Len(got))
      /\ page = <<>> => Len(got) = Len(m)
  BY <1>1, <1>5, <1>7, <1>8
<1> QED
  BY <1>2, <1>9 DEF got

-----------------------------------------------------------------------------
(* The pages *)

\* What a client has collected from one snapshot: the first of the rows that
\* match, and at the end all of them.
Collected(c) ==
  LET matching == Matching(snapshot, query[c])
  IN CASE state[c] = "finished" ->
            \E s \in Snapshots : /\ rows[c] = Matching(s, query[c])
                                 /\ total[c] = Len(rows[c])
       [] state[c] # "finished" /\ total[c] = -1 -> rows[c] = <<>>
       [] OTHER -> /\ total[c] = Len(matching)
                   /\ Len(rows[c]) \in 0..Len(matching)
                   /\ rows[c] = SubSeq(matching, 1, Len(rows[c]))

PagesInv ==
  /\ snapshot \in Snapshots /\ \A c \in Clients : query[c] \in QueriesOf[c]
  /\ DOMAIN rows = Clients /\ DOMAIN total = Clients
  /\ DOMAIN state = Clients /\ DOMAIN steady = Clients
  /\ \A c \in Clients : steady[c] => Collected(c)

LEMMA MatchingExact ==
  ASSUME NEW s \in Snapshots, NEW c \in Clients, NEW q \in QueriesOf[c]
  PROVE  /\ Picked(Matching(s, q), s) /\ Matching(s, q) \in Seq(ToSet(s))
         /\ ToSet(Matching(s, q)) = {row \in ToSet(s) : Asked(row, q)}
<1>1. Distinct(s)
  BY SnapshotsAssumption DEF Distinct
<1>2. DOMAIN q.codes = 1..Len(q.codes)
  BY QueriesAssumption
<1> QED
  BY <1>1, <1>2, MatchingIsAsked DEF Picked

LEMMA PagesStart == ASSUME SessionInit PROVE PagesInv
BY DEF SessionInit, PagesInv, Collected

\* An answer adds the page that follows what was collected.
LEMMA AnswerCollects ==
  ASSUME PagesInv, NEW c \in Clients, Answered(c) PROVE PagesInv'
<1> DEFINE m == Matching(snapshot, query[c])
           page == Slice(m, Len(rows[c]), query[c].limit)
           got == rows[c] \o page
           next == IF Len(got) >= Len(m) \/ page = <<>> THEN "finished" ELSE "idle"
<1>1. /\ state[c] = "admitted" /\ UNCHANGED <<query, steady, snapshot>>
      /\ rows' = [rows EXCEPT ![c] = got]
      /\ total' = [total EXCEPT ![c] = Len(m)]
      /\ state' = [state EXCEPT ![c] = next]
  BY DEF Answered
<1>2. m \in Seq(ToSet(snapshot)) /\ query[c].limit \in Nat
  BY MatchingExact, QueriesAssumption DEF PagesInv
<1> HIDE DEF m, page, got, next
<1>3. ASSUME steady[c] PROVE Collected(c)'
  <2>1. Len(rows[c]) \in 0..Len(m) /\ rows[c] = SubSeq(m, 1, Len(rows[c]))
    <3>1. Collected(c)
      BY <1>3 DEF PagesInv
    <3>2. CASE total[c] = -1
      <4>1. rows[c] = <<>>
        BY <1>1, <3>1, <3>2 DEF Collected
      <4>2. Len(rows[c]) = 0 /\ Len(m) \in Nat /\ SubSeq(m, 1, 0) = <<>>
        BY <1>2, <4>1
      <4> QED
        BY <4>1, <4>2
    <3>3. CASE total[c] # -1
      BY <1>1, <3>1, <3>3 DEF Collected, m
    <3> QED
      BY <3>2, <3>3
  <2>2. /\ Len(got) \in 0..Len(m) /\ got = SubSeq(m, 1, Len(got))
        /\ page = <<>> => Len(got) = Len(m)
    <3> DEFINE n == Len(rows[c])
    <3>1. got = SubSeq(m, 1, n) \o Slice(m, n, query[c].limit) /\ page = Slice(m, n, query[c].limit)
      BY <2>1 DEF got, page
    <3>2. n \in 0..Len(m)
      BY <2>1
    <3> HIDE DEF n
    <3>3. /\ Len(got) \in n..Len(m) /\ got = SubSeq(m, 1, Len(got))
          /\ page = <<>> => Len(got) = Len(m)
      BY <1>2, <3>1, <3>2, SliceContinues
    <3> QED
      BY <3>2, <3>3
  <2>3. /\ rows'[c] = got /\ total'[c] = Len(m) /\ state'[c] = next
        /\ m' = m /\ snapshot \in Snapshots /\ Len(m) \in Nat
    BY <1>1, <1>2 DEF PagesInv, m
  <2>4. CASE Len(got) = Len(m)
    <3>1. got = m
      BY <1>2, <2>2, <2>4
    <3>2. state'[c] = "finished"
      BY <2>3, <2>4 DEF next
    <3> QED
      BY <1>1, <2>3, <3>1, <3>2 DEF Collected, m
  <2>5. CASE Len(got) # Len(m)
    <3>1. state'[c] = "idle"
      BY <2>2, <2>3, <2>5 DEF next
    <3>2. total'[c] # -1
      BY <2>3
    <3> QED
      BY <1>1, <2>2, <2>3, <3>1, <3>2 DEF Collected, m
  <2> QED
    BY <2>4, <2>5
<1>4. ASSUME NEW d \in Clients, d # c, steady[d] PROVE Collected(d)'
  <2>1. Collected(d)
    BY <1>4 DEF PagesInv
  <2>2. /\ rows'[d] = rows[d] /\ total'[d] = total[d] /\ state'[d] = state[d]
        /\ snapshot' = snapshot /\ query' = query
    BY <1>1, <1>4 DEF PagesInv
  <2> QED
    BY <2>1, <2>2 DEF Collected
<1> QED
  BY <1>1, <1>3, <1>4 DEF PagesInv

LEMMA PagesKept == ASSUME PagesInv, [Next]_vars PROVE PagesInv'
<1>1. ASSUME NEW c \in Clients, Answered(c) PROVE PagesInv'
  BY <1>1, AnswerCollects
<1>2. ASSUME NEW c \in Clients, DeviceCheck(c) \/ Bind(c) \/ TurnedAway(c) PROVE PagesInv'
  <2>1. /\ UNCHANGED <<query, rows, total, steady, snapshot>>
        /\ state[c] # "finished"
        /\ \E p \in {"idle", "binding", "admitted", "lockedOut"} : state' = [state EXCEPT ![c] = p]
    BY <1>2 DEF DeviceCheck, Bind, TurnedAway
  <2>2. ASSUME NEW d \in Clients, steady[d] PROVE Collected(d)'
    <3>1. Collected(d)
      BY <2>2 DEF PagesInv
    <3>2. state'[d] = "finished" <=> state[d] = "finished"
      BY <2>1 DEF PagesInv
    <3> QED
      BY <2>1, <3>1, <3>2 DEF Collected
  <2> QED
    BY <2>1, <2>2 DEF PagesInv
<1>3. CASE Refresh
  <2>1. /\ snapshot' \in Snapshots /\ UNCHANGED <<query, state, rows, total>>
        /\ steady' = [c \in Clients |-> steady[c] /\ (total[c] = -1 \/ state[c] = "finished")]
    BY <1>3 DEF Refresh
  <2>2. ASSUME NEW d \in Clients, steady'[d] PROVE Collected(d)'
    <3>1. Collected(d) /\ (total[d] = -1 \/ state[d] = "finished")
      BY <2>1, <2>2 DEF PagesInv
    <3> QED
      BY <2>1, <3>1 DEF Collected
  <2> QED
    BY <2>1, <2>2 DEF PagesInv
<1>4. ASSUME UNCHANGED <<callVars, snapshot>> PROVE PagesInv'
  BY <1>4 DEF callVars, PagesInv, Collected
<1> QED
  BY <1>1, <1>2, <1>3, <1>4 DEF Next, vars, Construct

\* Pages fetched from one snapshot are the rows asked for, each once, in the
\* order of the snapshot and as many as the total (snapshot_service.py 117-142).
THEOREM PagesInvariant == Spec => []PagesExact
<1>1. PagesInv => PagesExact
  <2> SUFFICES ASSUME PagesInv, NEW c \in Clients, state[c] = "finished", steady[c]
               PROVE  \E s \in Snapshots :
                        /\ ToSet(rows[c]) = {row \in ToSet(s) : Asked(row, query[c])}
                        /\ Len(rows[c]) = total[c] /\ IsInjective(rows[c])
                        /\ \A i, j \in 1..Len(rows[c]) :
                             i < j => \E k, l \in 1..Len(s) :
                                        k < l /\ s[k] = rows[c][i] /\ s[l] = rows[c][j]
    BY DEF PagesExact
  <2>1. PICK s \in Snapshots : rows[c] = Matching(s, query[c]) /\ total[c] = Len(rows[c])
    BY DEF PagesInv, Collected
  <2>2. query[c] \in QueriesOf[c]
    BY DEF PagesInv
  <2>3. /\ Picked(rows[c], s)
        /\ ToSet(rows[c]) = {row \in ToSet(s) : Asked(row, query[c])}
    BY <2>1, <2>2, MatchingExact
  <2> QED
    BY <2>1, <2>3 DEF Picked
<1> QED
  BY <1>1, PagesStart, PagesKept, PTL DEF Spec

-----------------------------------------------------------------------------
(* Sequences of wheels *)

\* Listing a finite set misses nothing.
LEMMA ListingIsComplete ==
  ASSUME NEW S \in SUBSET Platforms
  PROVE  SetToSeq(S) \in Seq(Platforms) /\ ToSet(SetToSeq(S)) = S
<1>1. IsFiniteSet(S) /\ Cardinality(S) \in Nat
  BY PlatformsAssumption, FS_Subset, FS_CardinalityType
<1> DEFINE D == 1..Cardinality(S)
<1>2. IsFiniteSet(D) /\ Cardinality(D) = Cardinality(S)
  BY <1>1, FS_Interval
<1>3. PICK f \in Bijection(D, S) : TRUE
  BY <1>1, <1>2, FS_SameCardinalityBij DEF ExistsBijection
<1>4. f \in [D -> S] /\ IsInjective(f)
  BY <1>3 DEF Bijection, Injection
<1>5. SetToSeq(S) \in [D -> S] /\ IsInjective(SetToSeq(S))
  BY <1>4 DEF SetToSeq
<1>6. SetToSeq(S) \in Injection(D, S)
  BY <1>5 DEF Injection
<1>7. SetToSeq(S) \in Surjection(D, S)
  BY <1>1, <1>2, <1>6, FS_Injection
<1> QED
  BY <1>1, <1>5, <1>7 DEF Surjection, ToSet

LEMMA TailLosesHead ==
  ASSUME NEW s \in Seq(Platforms), s # <<>>
  PROVE  /\ Head(s) \in ToSet(s) /\ Tail(s) \in Seq(Platforms)
         /\ ToSet(s) = {Head(s)} \cup ToSet(Tail(s))
<1>1. /\ Len(s) \in Nat \ {0} /\ DOMAIN s = 1..Len(s) /\ Head(s) = s[1]
      /\ Tail(s) \in Seq(Platforms) /\ DOMAIN Tail(s) = 1..(Len(s) - 1)
      /\ \A i \in DOMAIN Tail(s) : Tail(s)[i] = s[i + 1]
  OBVIOUS
<1>2. \A i \in DOMAIN s \ {1} : (i - 1) \in DOMAIN Tail(s) /\ Tail(s)[i - 1] = s[i]
  BY <1>1
<1>3. s[1] \in ToSet(s)
  BY <1>1 DEF ToSet
<1>4. ToSet(Tail(s)) \subseteq ToSet(s)
  BY <1>1 DEF ToSet
<1>5. ASSUME NEW x \in ToSet(s), x # s[1] PROVE x \in ToSet(Tail(s))
  <2>1. PICK i \in DOMAIN s : x = s[i]
    BY DEF ToSet
  <2>2. i \in DOMAIN s \ {1}
    BY <2>1, <1>5
  <2> QED
    BY <2>1, <2>2, <1>2 DEF ToSet
<1> QED
  BY <1>1, <1>3, <1>4, <1>5

-----------------------------------------------------------------------------
(* The inductive invariant *)

\* Files never disappear, and what is queued or published was in the directory.
ListedInv ==
  /\ \A u \in Uploaders : \A p \in ToSet(queue[u]) : DirOf(u)[p] # Absent
  /\ \A u \in Uploaders : uploading[u] = "timed_out" => queue[u] # <<>>

\* A wheel that was listed is published or still to be sent.
BatchInv ==
  \A u \in Uploaders :
    uploading[u] \in {"sending", "timed_out", "success"} =>
      /\ \A p \in batch[u] : pypi[p] # Absent \/ p \in ToSet(queue[u])
      /\ uploading[u] = "success" => queue[u] = <<>>

\* A wheel that fails the check lies only where it was built, until the check.
SoundInv ==
  /\ \A p \in Platforms :
       building[p] = "check" => p \in listed[p] /\ listed[p] \subseteq Platforms
  /\ ~tainted =>
       /\ \A h \in Checkouts, p \in Platforms :
            dir[h][p] \in unsound => h = CheckoutOf[p] /\ building[p] = "check"
       /\ \A upload \in arriving : upload[2] \notin unsound
       /\ PublishedIsChecked

ReleaseInv == ReleaseTypeOK /\ ListedInv /\ BatchInv /\ SoundInv

LEMMA CheckoutsAre ==
  /\ \A p \in Platforms : CheckoutOf[p] \in Checkouts
  /\ \A u \in Uploaders : CheckoutOf[u] \in Checkouts
BY DEF Checkouts

LEMMA ReleaseStarts == ASSUME ReleaseInit PROVE ReleaseInv
<1> USE BuildsAssumption DEF ReleaseInit, Nothing, Present
<1>1. ReleaseTypeOK
  <2>1. /\ queue \in [Uploaders -> Seq(Platforms)]
        /\ uploading \in [Uploaders -> UploadStates]
        /\ building \in [Platforms -> BuildStates]
    BY DEF UploadStates, BuildStates
  <2>2. /\ listed \in [Platforms -> SUBSET Platforms]
        /\ batch \in [Uploaders -> SUBSET Platforms]
    OBVIOUS
  <2>3. builds \in 0..MaxBuilds
    OBVIOUS
  <2>5. /\ unsound \subseteq Contents
        /\ arriving \subseteq Platforms \X Contents
    BY Zenon
  <2>6. tainted \in BOOLEAN
    OBVIOUS
  <2>4. /\ dir \in [Checkouts -> [Platforms -> Contents \cup {Absent}]]
        /\ pypi \in [Platforms -> Contents \cup {Absent}]
        /\ index \subseteq {p \in Platforms : pypi[p] # Absent}
    OBVIOUS
  <2> QED
    BY <2>1, <2>2, <2>3, <2>4, <2>5, <2>6 DEF ReleaseTypeOK
<1>2. ListedInv /\ BatchInv
  BY DEF ListedInv, BatchInv, ToSet
<1>3. SoundInv
  BY DEF SoundInv, PublishedIsChecked
<1> QED
  BY <1>1, <1>2, <1>3 DEF ReleaseInv

-----------------------------------------------------------------------------
(* Builds *)

LEMMA BuildKeepsInv ==
  ASSUME ReleaseInv, NEW p \in Platforms, Build(p) PROVE ReleaseInv'
<1> DEFINE h == CheckoutOf[p]
<1> USE BuildsAssumption
    DEF Build, BuildGoto, Underway, uploadVars, pypiVars, ReleaseInv, Contents, BuildStates
<1>1. h \in Checkouts /\ \A u \in Uploaders : CheckoutOf[u] \in Checkouts
  BY CheckoutsAre
<1>2. /\ builds \in Nat /\ builds' = builds + 1
      /\ dir'[h][p] = builds + 1 /\ builds + 1 \notin unsound
      /\ \A g \in Checkouts, q \in Platforms :
           g # h \/ q # p => dir'[g][q] = dir[g][q]
  BY <1>1 DEF ReleaseTypeOK
<1>3. /\ Present(DirOf(p)') \in SUBSET Platforms /\ p \in Present(DirOf(p)')
  BY <1>1, <1>2 DEF Present, DirOf, ReleaseTypeOK
<1>4. ReleaseTypeOK'
  <2>1. dir' \in [Checkouts -> [Platforms -> Contents' \cup {Absent}]]
    BY <1>1, <1>2 DEF ReleaseTypeOK
  <2>2. listed' \in [Platforms -> SUBSET Platforms]
    BY <1>3 DEF ReleaseTypeOK
  <2> QED
    BY <1>2, <2>1, <2>2 DEF ReleaseTypeOK
<1>5. ListedInv'
  BY <1>1, <1>2 DEF ListedInv, DirOf, ReleaseTypeOK, ToSet
<1>6. BatchInv'
  BY DEF BatchInv
<1>7. SoundInv'
  <2>1. \A q \in Platforms :
          building'[q] = "check" => q \in listed'[q] /\ listed'[q] \subseteq Platforms
    BY <1>3 DEF SoundInv, ReleaseTypeOK
  <2>2. \A n \in Contents : n \in unsound' => n \in unsound
    BY <1>2
  <2>3. ASSUME ~tainted, NEW g \in Checkouts, NEW q \in Platforms, dir'[g][q] \in unsound'
        PROVE  g = CheckoutOf[q] /\ building'[q] = "check"
    BY <1>1, <1>2, <2>2, <2>3 DEF SoundInv, ReleaseTypeOK
  <2>4. ~tainted => /\ \A upload \in arriving : upload[2] \notin unsound'
                    /\ PublishedIsChecked'
    BY <2>2 DEF SoundInv, PublishedIsChecked, Present, ReleaseTypeOK
  <2> QED
    BY <2>1, <2>3, <2>4 DEF SoundInv
<1> QED
  BY <1>4, <1>5, <1>6, <1>7

LEMMA BuildStepsKeepInv ==
  ASSUME ReleaseInv, NEW p \in Platforms, BuildFails(p) \/ Check(p) \/ WriteNotes(p)
  PROVE  ReleaseInv'
<1> USE BuildsAssumption
    DEF BuildGoto, Underway, uploadVars, pypiVars, ReleaseInv, ReleaseTypeOK,
        Contents, BuildStates
<1>1. ReleaseTypeOK'
  <2>1. /\ building' \in [Platforms -> BuildStates]
        /\ listed' \in [Platforms -> SUBSET Platforms]
    BY DEF BuildFails, Check, WriteNotes
  <2>2. /\ UNCHANGED <<builds, unsound, dir, uploadVars, pypiVars>>
        /\ tainted' \in {tainted, TRUE}
    BY DEF BuildFails, Check, WriteNotes
  <2> QED
    BY <2>1, <2>2
<1>2. ListedInv' /\ BatchInv'
  <2>1. UNCHANGED <<uploading, queue, batch, dir, pypi>>
    BY DEF BuildFails, Check, WriteNotes
  <2> QED
    BY <2>1 DEF ListedInv, BatchInv, DirOf
<1>3. SoundInv'
  <2>1. CASE BuildFails(p)
    BY <2>1 DEF BuildFails, SoundInv
  <2>2. CASE Check(p)
    <3>1. p \in listed[p] /\ dir[CheckoutOf[p]][p] \notin unsound
      BY <2>2 DEF Check, SoundInv, DirOf
    <3> QED
      BY <2>2, <3>1 DEF Check, SoundInv, PublishedIsChecked
  <2>3. CASE WriteNotes(p)
    BY <2>3 DEF WriteNotes, SoundInv, PublishedIsChecked
  <2> QED
    BY <2>1, <2>2, <2>3
<1> QED
  BY <1>1, <1>2, <1>3

\* A wheel that is copied while its platform is not being built is sound.
LEMMA CollectKeepsInv ==
  ASSUME ReleaseInv, NEW p \in Platforms, NEW from \in Checkouts, NEW to \in Checkouts,
         Collect(p, from, to)
  PROVE  ReleaseInv'
<1> USE DEF Collect, uploadVars, pypiVars, ReleaseInv
<1>1. \A g \in Checkouts, q \in Platforms :
        dir'[g][q] = IF g = to /\ q = p THEN dir[from][p] ELSE dir[g][q]
  BY DEF ReleaseTypeOK
<1>2. ReleaseTypeOK'
  BY DEF ReleaseTypeOK, Contents
<1>3. ListedInv'
  BY <1>1, CheckoutsAre DEF ListedInv, DirOf, ReleaseTypeOK, ToSet
<1>4. BatchInv'
  BY DEF BatchInv
<1>5. SoundInv'
  <2>1. ~tainted' => ~tainted /\ dir[from][p] \notin unsound
    BY DEF SoundInv, Underway
  <2> QED
    BY <1>1, <2>1 DEF SoundInv, PublishedIsChecked
<1> QED
  BY <1>2, <1>3, <1>4, <1>5

-----------------------------------------------------------------------------
(* Uploads *)

LEMMA ListKeepsInv ==
  ASSUME ReleaseInv, NEW u \in Uploaders, ListWheels(u) PROVE ReleaseInv'
<1> USE DEF ListWheels, UploadGoto, buildVars, pypiVars, ReleaseInv
<1>1. /\ Present(DirOf(u)) \in SUBSET Platforms
      /\ queue'[u] \in Seq(Platforms) /\ ToSet(queue'[u]) = Present(DirOf(u))
  BY ListingIsComplete DEF Present, ReleaseTypeOK
<1>2. ReleaseTypeOK'
  BY <1>1 DEF ReleaseTypeOK, UploadStates, Contents
<1>3. ListedInv'
  BY <1>1 DEF ListedInv, Present, DirOf, ReleaseTypeOK
<1>4. BatchInv'
  BY <1>1 DEF BatchInv, ReleaseTypeOK
<1>5. SoundInv'
  BY DEF SoundInv, PublishedIsChecked
<1> QED
  BY <1>2, <1>3, <1>4, <1>5

\* What an uploader sends lies in the directory, and no build is in the way of
\* an untainted release.
LEMMA SentIsThere ==
  ASSUME ReleaseInv, NEW u \in Uploaders, NEW p \in Platforms, Sends(u, p)
  PROVE  /\ DirOf(u)[p] \in Contents /\ p \in ToSet(queue[u])
         /\ Tail(queue[u]) \in Seq(Platforms)
         /\ ToSet(queue[u]) = {p} \cup ToSet(Tail(queue[u]))
         /\ ~tainted' => ~tainted /\ DirOf(u)[p] \notin unsound
<1>1. queue[u] \in Seq(Platforms) /\ queue[u] # <<>> /\ p = Head(queue[u])
  BY DEF Sends, ReleaseInv, ReleaseTypeOK
<1>2. /\ p \in ToSet(queue[u]) /\ Tail(queue[u]) \in Seq(Platforms)
      /\ ToSet(queue[u]) = {p} \cup ToSet(Tail(queue[u]))
  BY <1>1, TailLosesHead
<1>3. DirOf(u)[p] \in Contents
  BY <1>2, CheckoutsAre DEF ReleaseInv, ReleaseTypeOK, ListedInv, DirOf
<1>4. ~tainted' => ~tainted /\ DirOf(u)[p] \notin unsound
  BY CheckoutsAre DEF Sends, ReleaseInv, SoundInv, Underway, DirOf
<1> QED
  BY <1>2, <1>3, <1>4

LEMMA SendKeepsInv ==
  ASSUME ReleaseInv, NEW u \in Uploaders, NEW p \in Platforms,
         Accepted(u, p) \/ SkipExisting(u, p) \/ UploadFails(u, p) \/ ReadTimeout(u, p)
  PROVE  ReleaseInv'
<1> USE BuildsAssumption
    DEF UploadGoto, NextWheel, buildVars, pypiVars, ReleaseInv, Contents, UploadStates
<1>1. Sends(u, p)
  BY DEF Accepted, SkipExisting, UploadFails, ReadTimeout
<1>2. /\ DirOf(u)[p] \in Contents /\ p \in ToSet(queue[u])
      /\ Tail(queue[u]) \in Seq(Platforms)
      /\ ToSet(queue[u]) = {p} \cup ToSet(Tail(queue[u]))
      /\ ~tainted' => ~tainted /\ DirOf(u)[p] \notin unsound
  BY <1>1, SentIsThere
<1>3. /\ UNCHANGED <<batch, buildVars>> /\ tainted' \in BOOLEAN
      /\ uploading[u] = "sending"
  BY <1>1 DEF Sends, ReleaseTypeOK
<1>5. CASE Accepted(u, p)
  <2> USE <1>2, <1>3, <1>5 DEF Accepted
  <2>1. ReleaseTypeOK'
    BY DEF ReleaseTypeOK
  <2>2. ListedInv'
    BY DEF ListedInv, DirOf, ReleaseTypeOK
  <2>3. BatchInv'
    BY DEF BatchInv, ReleaseTypeOK
  <2>4. SoundInv'
    BY DEF SoundInv, PublishedIsChecked, Present, ReleaseTypeOK
  <2> QED
    BY <2>1, <2>2, <2>3, <2>4
<1>6. CASE SkipExisting(u, p)
  <2> USE <1>2, <1>3, <1>6 DEF SkipExisting
  <2>1. ReleaseTypeOK'
    BY DEF ReleaseTypeOK
  <2>2. ListedInv'
    BY DEF ListedInv, DirOf, ReleaseTypeOK
  <2>3. BatchInv'
    BY DEF BatchInv, ReleaseTypeOK
  <2>4. SoundInv'
    BY DEF SoundInv, PublishedIsChecked
  <2> QED
    BY <2>1, <2>2, <2>3, <2>4
<1>7. CASE UploadFails(u, p)
  <2> USE <1>2, <1>3, <1>7 DEF UploadFails, MayArrive
  <2>1. ReleaseTypeOK'
    BY DEF ReleaseTypeOK
  <2>2. ListedInv'
    BY DEF ListedInv, DirOf, ReleaseTypeOK
  <2>3. BatchInv'
    BY DEF BatchInv, ReleaseTypeOK
  <2>4. SoundInv'
    BY DEF SoundInv, PublishedIsChecked
  <2> QED
    BY <2>1, <2>2, <2>3, <2>4
<1>8. CASE ReadTimeout(u, p)
  <2> USE <1>2, <1>3, <1>8 DEF ReadTimeout, MayArrive
  <2>1. ReleaseTypeOK'
    BY DEF ReleaseTypeOK
  <2>2. ListedInv'
    BY <1>1 DEF ListedInv, DirOf, ReleaseTypeOK, Sends
  <2>3. BatchInv'
    BY DEF BatchInv, ReleaseTypeOK
  <2>4. SoundInv'
    BY DEF SoundInv, PublishedIsChecked
  <2> QED
    BY <2>1, <2>2, <2>3, <2>4
<1> QED
  BY <1>5, <1>6, <1>7, <1>8

LEMMA EndKeepsInv ==
  ASSUME ReleaseInv, NEW u \in Uploaders, Confirm(u) \/ Succeed(u) \/ Rerun(u)
  PROVE  ReleaseInv'
<1> USE DEF UploadGoto, buildVars, pypiVars, ReleaseInv
<1>1. SoundInv'
  BY DEF Confirm, Succeed, Rerun, SoundInv, PublishedIsChecked
<1>2. CASE Confirm(u)
  <2>1. queue[u] # <<>> /\ queue[u] \in Seq(Platforms)
    BY <1>2 DEF Confirm, ListedInv, DirOf, ReleaseTypeOK
  <2>2. /\ Tail(queue[u]) \in Seq(Platforms)
        /\ ToSet(queue[u]) = {Head(queue[u])} \cup ToSet(Tail(queue[u]))
    BY <2>1, TailLosesHead
  <2>3. ReleaseTypeOK'
    BY <1>2, <2>2 DEF Confirm, ReleaseTypeOK, UploadStates, Contents
  <2>4. ListedInv'
    BY <1>2, <2>2 DEF Confirm, ListedInv, DirOf, ReleaseTypeOK
  <2>5. BatchInv'
    BY <1>2, <2>2 DEF Confirm, BatchInv, ReleaseTypeOK
  <2> QED
    BY <1>1, <2>3, <2>4, <2>5
<1>3. CASE Succeed(u)
  BY <1>1, <1>3 DEF Succeed, ReleaseTypeOK, UploadStates, Contents, ListedInv, BatchInv, DirOf
<1>4. CASE Rerun(u)
  <2>1. ReleaseTypeOK'
    BY <1>4 DEF Rerun, ReleaseTypeOK, UploadStates, Contents
  <2>2. ListedInv'
    <3>1. /\ UNCHANGED dir /\ ToSet(queue'[u]) = {} /\ uploading'[u] = "idle"
          /\ \A v \in Uploaders \ {u} :
               queue'[v] = queue[v] /\ uploading'[v] = uploading[v]
      BY <1>4 DEF Rerun, ReleaseTypeOK, ToSet
    <3> QED
      BY <3>1 DEF ListedInv, DirOf
  <2>3. BatchInv'
    BY <1>4 DEF Rerun, ReleaseTypeOK, BatchInv
  <2> QED
    BY <1>1, <2>1, <2>2, <2>3
<1> QED
  BY <1>2, <1>3, <1>4

LEMMA PyPIKeepsInv == ASSUME ReleaseInv, Arrive \/ IndexCatchesUp PROVE ReleaseInv'
<1> USE BuildsAssumption DEF buildVars, uploadVars, ReleaseInv
<1>2. CASE Arrive
  <2>1. PICK upload \in arriving :
          /\ arriving' = arriving \ {upload}
          /\ pypi' = IF pypi[upload[1]] = Absent
                     THEN [pypi EXCEPT ![upload[1]] = upload[2]] ELSE pypi
    BY <1>2 DEF Arrive
  <2>2. upload[1] \in Platforms /\ upload[2] \in Contents
    BY DEF ReleaseTypeOK
  <2>3. UNCHANGED <<index, buildVars, uploadVars, tainted>>
    BY <1>2 DEF Arrive
  <2>4. ReleaseTypeOK'
    BY <2>1, <2>2, <2>3 DEF ReleaseTypeOK, Contents
  <2>5. ListedInv' /\ BatchInv'
    BY <2>1, <2>2, <2>3 DEF ReleaseTypeOK, Contents, ListedInv, BatchInv, DirOf, DirOf
  <2>6. SoundInv'
    BY <2>1, <2>2, <2>3 DEF ReleaseTypeOK, SoundInv, PublishedIsChecked, Present
  <2> QED
    BY <2>4, <2>5, <2>6
<1>3. CASE IndexCatchesUp
  <2>1. ReleaseTypeOK'
    BY <1>3 DEF IndexCatchesUp, ReleaseTypeOK, Contents, Present
  <2>2. ListedInv' /\ BatchInv' /\ SoundInv'
    BY <1>3 DEF IndexCatchesUp, ListedInv, BatchInv, DirOf, SoundInv, PublishedIsChecked, Present
  <2> QED
    BY <2>1, <2>2
<1> QED
  BY <1>2, <1>3

LEMMA AlwaysReleaseInv == ReleaseSpec => []ReleaseInv
<1>1. ASSUME ReleaseInv, UNCHANGED releaseVars PROVE ReleaseInv'
  BY <1>1
  DEF releaseVars, buildVars, uploadVars, pypiVars, ReleaseInv, ReleaseTypeOK, Contents, ListedInv,
      BatchInv, DirOf, SoundInv, PublishedIsChecked, Present
<1>2. ReleaseInv /\ [ReleaseNext]_releaseVars => ReleaseInv'
  BY <1>1, BuildKeepsInv, BuildStepsKeepInv, CollectKeepsInv, ListKeepsInv, SendKeepsInv, EndKeepsInv,
     PyPIKeepsInv
  DEF ReleaseNext
<1> QED
  BY <1>2, ReleaseStarts, PTL DEF ReleaseSpec

-----------------------------------------------------------------------------
(* What a release promises *)

\* An upload that reports success has published every wheel it listed
\* (release_common.py 241-269).
THEOREM SuccessInvariant == ReleaseSpec => []SuccessMeansPublished
<1>1. ReleaseInv => SuccessMeansPublished
  BY DEF ReleaseInv, BatchInv, SuccessMeansPublished, ToSet
<1> QED
  BY <1>1, AlwaysReleaseInv, PTL

\* Only wheels that passed the check are published, unless a wheel was left or
\* sent that no build has vouched for (build_release.py 25-30).
THEOREM CheckedInvariant == ReleaseSpec => []PublishedIsChecked
<1>1. ReleaseInv => PublishedIsChecked
  BY DEF ReleaseInv, SoundInv, PublishedIsChecked
<1> QED
  BY <1>1, AlwaysReleaseInv, PTL
=============================================================================
