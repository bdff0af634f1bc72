----------------------------- MODULE BootProofs -----------------------------
(***************************************************************************)
(* Proofs about Boot, and so about SeedAdmin and Migration as they are used *)
(* at the start of a process: for any number of processes, boots and       *)
(* deletions.                                                              *)
(***************************************************************************)
EXTENDS Boot, FiniteSetTheorems, TLAPS

-----------------------------------------------------------------------------
(* The upgrade *)

PastVersionTable == {"look_schema", "create_schema", "stamp", "commit"}
PastTables == {"stamp", "commit"}

\* What a process has created it still has in its open transaction, and where
\* it is in the upgrade says what is there: by its own doing, or committed.
MigrationInv ==
  /\ M!TypeOK
  /\ \A p \in Processes :
       /\ vtable = p => step[p] \in PastVersionTable
       /\ schema = p => step[p] \in PastTables
       /\ step[p] \in PastVersionTable => vtable \in {p, "committed"}
       /\ step[p] \in PastTables => schema \in {p, "committed"}
       /\ step[p] = "commit" <=> head = p
  /\ StampedIsThere

LEMMA MigrationInit == ASSUME M!Init PROVE MigrationInv
BY ProcessesAssumption
DEF M!Init, MigrationInv, M!TypeOK, M!Steps, M!Versions, PastVersionTable, PastTables,
    StampedIsThere

LEMMA MigrationUpgrade ==
  ASSUME MigrationInv, NEW p \in Processes,
         M!Skip(p) \/ M!Connect(p) \/ M!Upgrade(p)
  PROVE  MigrationInv'
<1> USE ProcessesAssumption
    DEF MigrationInv, M!TypeOK, M!Steps, M!Versions, PastVersionTable, PastTables,
        StampedIsThere, M!Goto, M!tableVars
<1>1. CASE M!Skip(p) \/ M!Connect(p)
  BY <1>1 DEF M!Skip, M!Connect
<1>2. CASE M!ReadHeads(p)
  BY <1>2 DEF M!ReadHeads
<1>3. CASE M!LookForVersionTable(p)
  BY <1>3 DEF M!LookForVersionTable
<1>4. ASSUME M!Fail(p) PROVE MigrationInv'
  BY <1>4 DEF M!Fail, M!Undone
<1>5. CASE M!CreateVersionTable(p)
  BY <1>5, <1>4 DEF M!CreateVersionTable
<1>6. CASE M!LookForTables(p)
  BY <1>6 DEF M!LookForTables
<1>7. CASE M!CreateTables(p)
  BY <1>7, <1>4 DEF M!CreateTables
<1>8. CASE M!Stamp(p)
  BY <1>8, <1>4 DEF M!Stamp
<1>9. CASE M!Commit(p)
  BY <1>9 DEF M!Commit, M!Committed
<1>10. CASE M!UpgradeFails(p)
  BY <1>10, <1>4 DEF M!UpgradeFails
<1> QED
  BY <1>1, <1>2, <1>3, <1>5, <1>6, <1>7, <1>8, <1>9, <1>10 DEF M!Upgrade
\* A process that ends while it serves is in no transaction of the upgrade.
LEMMA MigrationEnd ==
  ASSUME MigrationInv, NEW p \in Processes, step[p] = "migrated",
         UNCHANGED dbVars, step' \in {step, [step EXCEPT ![p] = "down"]}
  PROVE  MigrationInv'
BY ProcessesAssumption
DEF MigrationInv, M!TypeOK, M!Steps, M!Versions, PastVersionTable, PastTables,
    StampedIsThere, dbVars

LEMMA MigrationDowngrade == ASSUME MigrationInv, M!Downgrade PROVE MigrationInv'
BY ProcessesAssumption
DEF M!Downgrade, M!HoldsTables, MigrationInv, M!TypeOK, M!Steps, M!Versions,
    PastVersionTable, PastTables, StampedIsThere

-----------------------------------------------------------------------------
(* The seeding *)

WithRole == {"select_token", "update", "insert_token", "commit"}
Making == {"insert_token", "commit"}

\* The role's row is what the boots queue for: whoever is past it has created
\* it or found it committed, and with it a token.
RoleInv ==
  \A p \in Processes :
    /\ user = p => pc[p] \in {"role"} \cup WithRole
    /\ role = p => pc[p] \in WithRole
    /\ pc[p] \in WithRole => role \in {p, "committed"}

\* Where a process is says what its seed is.
SeedInv ==
  /\ \A p \in Processes :
       /\ pc[p] \in {"update", "audit", "up"} => seed[p] \in tokens \cup deleted
       /\ pc[p] = "commit" => seed[p] \in (1..inserted) \ (tokens \cup deleted)
  /\ \A p, q \in Processes :
       pc[p] = "commit" /\ pc[q] = "commit" /\ p # q => seed[p] # seed[q]

\* As long as no token was deleted, a committed role comes with a token, and
\* only the one who holds the role makes one.
SingleInv ==
  deleted = {} =>
    /\ role = "committed" => tokens # {}
    /\ \A p \in Processes : pc[p] \in Making => role = p /\ tokens = {}
    /\ \A t, u \in tokens : t = u

SeedingInv == TypeOK /\ RoleInv /\ SeedInv /\ SingleInv /\ AuditTrail

LEMMA SeedingInit == ASSUME Init PROVE SeedingInv
BY BoundsAssumption, ProcessesAssumption, NoneAssumption
DEF Init, SeedingInv, TypeOK, RowStates, PcStates, RoleInv, SeedInv, SingleInv, AuditTrail,
    WithRole, Making

LEMMA SeedingBoot ==
  ASSUME SeedingInv, NEW p \in Processes, Boot(p) PROVE SeedingInv'
BY BoundsAssumption, ProcessesAssumption, NoneAssumption
DEF Boot, Goto, rowVars, tokVars, histVars, SeedingInv, TypeOK, RowStates, PcStates, RoleInv, SeedInv, SingleInv, AuditTrail,
    WithRole, Making

\* Whoever dies leaves nothing that was not committed, and no seed.
LEMMA SeedingDies ==
  ASSUME SeedingInv, NEW p \in Processes, Die(p),
         UNCHANGED <<boots, tokVars, audited, deleted>>
  PROVE  SeedingInv'
<1> USE BoundsAssumption, ProcessesAssumption, NoneAssumption
    DEF Die, Goto, Undo, tokVars, SeedingInv, TypeOK, RowStates, PcStates
<1>1. TypeOK'
  BY DEF TypeOK, RowStates, PcStates, SeedInv
<1>2. RoleInv'
  BY DEF RoleInv, WithRole
<1>3. SeedInv'
  BY DEF SeedInv
<1>4. SingleInv'
  BY DEF SingleInv, RoleInv, WithRole, Making
<1>5. AuditTrail'
  BY DEF AuditTrail
<1> QED
  BY <1>1, <1>2, <1>3, <1>4, <1>5 DEF SeedingInv

LEMMA SeedingEnsure ==
  ASSUME SeedingInv, NEW p \in Processes, Ensure(p) PROVE SeedingInv'
<1> USE BoundsAssumption, ProcessesAssumption, NoneAssumption
    DEF Goto, rowVars, tokVars, histVars, SeedingInv, TypeOK, RowStates, PcStates
<1>1. CASE SelectUser(p)
  BY <1>1 DEF SelectUser, RoleInv, SeedInv, SingleInv, AuditTrail, WithRole, Making
<1>2. CASE InsertUser(p) /\ user = "absent"
  <2>1. /\ user' = p /\ Goto(p, "role")
        /\ UNCHANGED <<role, seed, unrecorded, boots, tokVars, audited, deleted>>
    BY <1>2 DEF InsertUser
  <2> QED
    BY <1>2, <2>1 DEF InsertUser, RoleInv, SeedInv, SingleInv, AuditTrail, WithRole, Making
<1>3. CASE GrantRole(p)
  BY <1>3 DEF GrantRole, RoleInv, SeedInv, SingleInv, AuditTrail, WithRole, Making
<1>4. CASE SelectToken(p)
  <2> USE <1>4 DEF SelectToken
  <2>1. TypeOK'
    BY DEF TypeOK, RowStates, PcStates
  <2>2. RoleInv'
    BY DEF RoleInv, WithRole
  <2>3. SeedInv'
    BY DEF SeedInv
  <2>4. SingleInv'
    BY DEF SingleInv, RoleInv, WithRole, Making
  <2>5. AuditTrail'
    BY DEF AuditTrail
  <2> QED
    BY <2>1, <2>2, <2>3, <2>4, <2>5 DEF SeedingInv
<1>5. CASE UpdateToken(p)
  <2> USE <1>5 DEF UpdateToken, Committed
  <2>1. TypeOK'
    BY DEF TypeOK, RowStates, PcStates
  <2>2. RoleInv'
    BY DEF RoleInv, WithRole
  <2>3. SeedInv'
    BY DEF SeedInv
  <2>4. SingleInv'
    BY DEF SingleInv, SeedInv, RoleInv, WithRole, Making
  <2>5. AuditTrail'
    BY DEF AuditTrail
  <2> QED
    BY <2>1, <2>2, <2>3, <2>4, <2>5 DEF SeedingInv
<1>6. CASE InsertToken(p)
  BY <1>6 DEF InsertToken, RoleInv, SeedInv, SingleInv, AuditTrail, WithRole, Making
<1>7. CASE Commit(p)
  <2> USE <1>7 DEF Commit, Committed
  <2>1. TypeOK'
    BY DEF TypeOK, RowStates, PcStates, SeedInv
  <2>2. RoleInv'
    BY DEF RoleInv, WithRole
  <2>3. SeedInv'
    BY DEF SeedInv
  <2>4. SingleInv'
    BY DEF SingleInv, RoleInv, WithRole, Making
  <2>5. AuditTrail'
    BY DEF AuditTrail
  <2> QED
    BY <2>1, <2>2, <2>3, <2>4, <2>5 DEF SeedingInv
<1>8. CASE Audit(p) /\ seed[p] \in tokens
  <2> USE <1>8 DEF Audit
  <2>1. TypeOK'
    BY DEF TypeOK, RowStates, PcStates
  <2>2. RoleInv'
    BY DEF RoleInv, WithRole
  <2>3. SeedInv'
    BY DEF SeedInv
  <2>4. SingleInv'
    BY DEF SingleInv, RoleInv, WithRole, Making
  <2>5. AuditTrail'
    BY DEF AuditTrail
  <2> QED
    BY <2>1, <2>2, <2>3, <2>4, <2>5 DEF SeedingInv
<1>9. CASE Die(p) /\ UNCHANGED <<boots, tokVars, audited, deleted>>
  BY <1>9, SeedingDies
<1> QED
  BY <1>1, <1>2, <1>3, <1>4, <1>5, <1>6, <1>7, <1>8, <1>9 DEF Ensure, InsertUser, Audit

LEMMA SeedingCrash ==
  ASSUME SeedingInv, NEW p \in Processes, Crash(p) PROVE SeedingInv'
BY SeedingDies DEF Crash

LEMMA SeedingAdministered == ASSUME SeedingInv, Disable \/ Delete PROVE SeedingInv'
<1> USE DEF Disable, Delete, rowVars, histVars, SeedingInv, TypeOK, RowStates, PcStates
<1>1. TypeOK'
  BY DEF TypeOK, RowStates, PcStates
<1>2. RoleInv'
  BY DEF RoleInv, WithRole
<1>3. SeedInv'
  BY DEF SeedInv
<1>4. SingleInv'
  BY DEF SingleInv, RoleInv, WithRole, Making
<1>5. AuditTrail'
  <2>1. /\ UNCHANGED <<pc, seed, audited, unrecorded>>
        /\ tokens' \cup deleted' = tokens \cup deleted
    OBVIOUS
  <2> QED
    BY <2>1 DEF AuditTrail
<1> QED
  BY <1>1, <1>2, <1>3, <1>4, <1>5 DEF SeedingInv

LEMMA SeedingUnchanged == ASSUME SeedingInv, UNCHANGED vars PROVE SeedingInv'
BY DEF vars, rowVars, tokVars, histVars, SeedingInv, TypeOK, RowStates, PcStates, RoleInv,
       SeedInv, SingleInv, AuditTrail, WithRole, Making
\* The downgrade waits for the transactions and takes the tokens with it.
LEMMA SeedingDropped == ASSUME SeedingInv, DropTables PROVE SeedingInv'
<1> USE BoundsAssumption, ProcessesAssumption, NoneAssumption
    DEF DropTables, InTransaction, SeedingInv, TypeOK, RowStates, PcStates
<1>1. TypeOK'
  OBVIOUS
<1>2. RoleInv'
  BY DEF RoleInv, WithRole
<1>3. SeedInv'
  BY DEF SeedInv
<1>4. SingleInv'
  BY DEF SingleInv, Making
<1>5. AuditTrail'
  <2>1. /\ UNCHANGED <<pc, seed, audited, unrecorded>>
        /\ tokens' \cup deleted' = tokens \cup deleted
    OBVIOUS
  <2> QED
    BY <2>1 DEF AuditTrail
<1> QED
  BY <1>1, <1>2, <1>3, <1>4, <1>5 DEF SeedingInv

-----------------------------------------------------------------------------
(* The two together *)

\* A process imports the application after the upgrade, transactions hold the
\* tables, and tokens are in them.
LinkInv ==
  /\ outdated \subseteq Processes
  /\ \A p \in Processes : pc[p] # "down" => step[p] = "migrated"
  /\ \A p \in Processes : InTransaction(p) => schema = "committed"
  /\ tokens # {} => schema = "committed"
  /\ UpOnSchema

BootInv == MigrationInv /\ SeedingInv /\ LinkInv

LEMMA InitiallyInv == ASSUME BootInit PROVE BootInv
<1>1. MigrationInv /\ SeedingInv
  BY MigrationInit, SeedingInit DEF BootInit
<1>2. LinkInv
  BY DEF BootInit, Init, LinkInv, InTransaction, UpOnSchema
<1> QED
  BY <1>1, <1>2 DEF BootInv

LEMMA SchemaStays ==
  ASSUME NEW p \in Processes, M!Skip(p) \/ M!Connect(p) \/ M!Upgrade(p),
         schema = "committed"
  PROVE  schema' = "committed"
BY ProcessesAssumption
DEF M!Skip, M!Connect, M!Upgrade, M!ReadHeads, M!LookForVersionTable,
    M!CreateVersionTable, M!LookForTables, M!CreateTables, M!Stamp, M!Commit,
    M!UpgradeFails, M!Fail, M!Undone, M!Committed, M!tableVars

LEMMA StartKeepsInv == ASSUME BootInv, NEW p \in Processes, Start(p) PROVE BootInv'
<1>1. /\ M!Skip(p) \/ M!Connect(p) \/ M!Upgrade(p)
      /\ UNCHANGED <<vars, outdated>>
  BY DEF Start
<1>2. MigrationInv' /\ SeedingInv'
  BY <1>1, MigrationUpgrade, SeedingUnchanged DEF BootInv
<1>3. step[p] # "migrated" /\ \A q \in Processes \ {p} : step'[q] = step[q]
  BY <1>1
  DEF BootInv, MigrationInv, M!TypeOK, M!Skip, M!Connect, M!Upgrade, M!ReadHeads,
      M!LookForVersionTable, M!CreateVersionTable, M!LookForTables, M!CreateTables,
      M!Stamp, M!Commit, M!UpgradeFails, M!Migrating, M!Fail, M!Goto
<1>4. LinkInv'
  BY <1>1, <1>3, SchemaStays DEF BootInv, LinkInv, InTransaction, UpOnSchema, vars, tokVars
<1> QED
  BY <1>2, <1>4 DEF BootInv

LEMMA ServeKeepsInv == ASSUME BootInv, NEW p \in Processes, Serve(p) PROVE BootInv'
<1> DEFINE dies == pc'[p] = "down"
<1>1. /\ step[p] = "migrated" /\ UNCHANGED dbVars
      /\ step' = IF dies THEN [step EXCEPT ![p] = "down"] ELSE step
      /\ outdated' = IF dies THEN outdated \ {p} ELSE outdated
      /\ Boot(p) \/ (Ensure(p) /\ (pc[p] = "start" => schema = "committed")) \/ Crash(p)
  BY DEF Serve, Seed
<1>2. MigrationInv'
  BY <1>1, MigrationEnd DEF BootInv
<1>3. SeedingInv'
  BY <1>1, SeedingBoot, SeedingEnsure, SeedingCrash DEF BootInv
<1>4. /\ \A q \in Processes \ {p} : pc'[q] = pc[q]
      /\ pc'[p] \notin {"down", "start"} => schema = "committed" \/ pc'[p] = "audit"
      /\ tokens' # {} => tokens # {} \/ schema = "committed"
  <2> USE DEF BootInv, SeedingInv, TypeOK, Goto, LinkInv, InTransaction
  <2>1. CASE Boot(p)
    BY <2>1 DEF Boot, tokVars
  <2>2. CASE Ensure(p) /\ (pc[p] = "start" => schema = "committed")
    BY <2>2 DEF Ensure, SelectUser, InsertUser, GrantRole, SelectToken, UpdateToken,
                InsertToken, Commit, Audit, Die, tokVars, rowVars, histVars
  <2>3. CASE Crash(p)
    BY <2>3 DEF Crash, Die, tokVars
  <2> QED
    BY <1>1, <2>1, <2>2, <2>3
<1>5. LinkInv'
  BY <1>1, <1>4 DEF BootInv, LinkInv, InTransaction, UpOnSchema, dbVars, SeedingInv, TypeOK, MigrationInv, M!TypeOK
<1> QED
  BY <1>2, <1>3, <1>5 DEF BootInv

LEMMA OthersKeepInv ==
  ASSUME BootInv, DropTables \/ Administrate \/ UNCHANGED bootVars PROVE BootInv'
<1>1. CASE DropTables
  <2>1. MigrationInv' /\ SeedingInv'
    BY <1>1, MigrationDowngrade, SeedingDropped DEF DropTables, BootInv
  <2>2. LinkInv'
    BY <1>1 DEF DropTables, M!Downgrade, BootInv, LinkInv, InTransaction, UpOnSchema
  <2> QED
    BY <2>1, <2>2 DEF BootInv
<1>2. CASE Administrate \/ UNCHANGED bootVars
  <2>1. SeedingInv'
    BY <1>2, SeedingAdministered, SeedingUnchanged DEF Administrate, bootVars, BootInv
  <2>2. /\ UNCHANGED <<step, vtable, schema, head, outdated, pc>>
        /\ tokens' \subseteq tokens
    BY <1>2 DEF Administrate, Disable, Delete, bootVars, dbVars, vars, tokVars
  <2>3. MigrationInv' /\ LinkInv'
    BY <2>2 DEF BootInv, MigrationInv, LinkInv, InTransaction, UpOnSchema, M!TypeOK,
                StampedIsThere
  <2> QED
    BY <2>1, <2>3 DEF BootInv
<1> QED
  BY <1>1, <1>2

LEMMA AlwaysBootInv == BootSpec => []BootInv
<1>1. BootInv /\ [BootNext]_bootVars => BootInv'
  BY StartKeepsInv, ServeKeepsInv, OthersKeepInv DEF BootNext
<1> QED
  BY <1>1, InitiallyInv, PTL DEF BootSpec

-----------------------------------------------------------------------------
(* What starting promises *)

\* Every variable keeps its type, for any number of processes and boots.
THEOREM BootTypes == BootSpec => []BootTypeOK
<1>1. BootInv => BootTypeOK
  BY DEF BootInv, MigrationInv, SeedingInv, LinkInv, BootTypeOK
<1> QED
  BY <1>1, AlwaysBootInv, PTL

\* The version row is never there without the tables (env.py 84-90).
THEOREM StampedInvariant == BootSpec => []StampedIsThere
<1>1. BootInv => StampedIsThere
  BY DEF BootInv, MigrationInv
<1> QED
  BY <1>1, AlwaysBootInv, PTL

\* No process serves without the service's tables, until an operator drops
\* them (start.py 13-15, 34).
THEOREM SchemaInvariant == BootSpec => []UpOnSchema
<1>1. BootInv => UpOnSchema
  BY DEF BootInv, LinkInv
<1> QED
  BY <1>1, AlwaysBootInv, PTL

\* However many processes boot at once, there is one seed token at most, as
\* long as none was deleted (auth.py 754-850).
THEOREM OneSeedInvariant == BootSpec => []OneSeedToken
<1>1. BootInv => OneSeedToken
  <2> SUFFICES ASSUME \A t, u \in tokens : t = u PROVE Cardinality(tokens) <= 1
    BY DEF BootInv, SeedingInv, SingleInv, OneSeedToken
  <2>1. CASE tokens = {}
    BY <2>1, FS_EmptySet
  <2>2. CASE tokens # {}
    <3>1. PICK t \in tokens : tokens = {t}
      BY <2>2
    <3> QED
      BY <3>1, FS_Singleton
  <2> QED
    BY <2>1, <2>2
<1> QED
  BY <1>1, AlwaysBootInv, PTL

\* Processes that are up offer one committed token, until one is deleted
\* (auth.py 781-824, 861).
THEOREM OfferedInvariant == BootSpec => []SameTokenOffered
<1>1. BootInv => SameTokenOffered
  BY DEF BootInv, SeedingInv, SeedInv, SingleInv, SameTokenOffered
<1> QED
  BY <1>1, AlwaysBootInv, PTL

\* A committed token has its audit event, or its issuer is about to write it
\* or died before it could (auth.py 850-860).
THEOREM AuditInvariant == BootSpec => []AuditTrail
<1>1. BootInv => AuditTrail
  BY DEF BootInv, SeedingInv
<1> QED
  BY <1>1, AlwaysBootInv, PTL
=============================================================================
