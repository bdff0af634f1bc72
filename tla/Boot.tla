-------------------------------- MODULE Boot --------------------------------
(***************************************************************************)
(* The start of a service process, from start.py to the import of           *)
(* app/main.py: the upgrade of the schema (Migration), then the seeding of  *)
(* the administrator's token (SeedAdmin), on a database that several        *)
(* processes and an operator share.                                         *)
(***************************************************************************)
EXTENDS SeedAdmin

VARIABLES
  step, vtable, schema, head, \* see Migration
  outdated                    \* history: processes whose tables were dropped
                              \* while they served

M == INSTANCE Migration

dbVars == <<vtable, schema, head>>
bootVars == <<vars, step, dbVars, outdated>>

BootTypeOK ==
  /\ TypeOK /\ M!TypeOK
  /\ outdated \subseteq Processes

BootInit == Init /\ M!Init /\ outdated = {}

\* Processes started and not yet counted in boots by the import of app.main.
Underway == {p \in Processes : pc[p] = "down" /\ step[p] # "down"}

\* start.py: main() as far as the server's start.
Start(p) ==
  /\ \/ step[p] = "down" /\ boots + Cardinality(Underway) < MaxBoots
        /\ (M!Skip(p) \/ M!Connect(p))
     \/ M!Upgrade(p)
  /\ UNCHANGED <<vars, outdated>>

\* Faulty variant: an error of the seeding is logged, and the server starts.
SeedSoftly(p) ==
  \/ schema = "committed" /\ Ensure(p)
  \/ /\ pc[p] = "start" /\ Goto(p, "up")
     /\ UNCHANGED <<boots, rowVars, tokVars, seed, audited, histVars>>

\* The first SELECT raises without the tables, which is a way to crash.
Seed(p) ==
  /\ pc[p] = "start" => schema = "committed"
  /\ Ensure(p)

\* uvicorn imports app.main, which seeds; an exception ends the process.
Serve(p) ==
  /\ step[p] = "migrated"
  /\ Boot(p) \/ Seed(p) \/ Crash(p)
  /\ LET dies == pc'[p] = "down"
     IN /\ step' = IF dies THEN [step EXCEPT ![p] = "down"] ELSE step
        /\ outdated' = IF dies THEN outdated \ {p} ELSE outdated
  /\ UNCHANGED dbVars

InTransaction(p) == pc[p] \notin {"down", "start", "audit", "up"}

\* The operator's downgrade takes every row with the tables.
DropTables ==
  /\ M!Downgrade
  /\ \A p \in Processes : ~InTransaction(p)
  /\ user' = "absent" /\ role' = "absent"
  /\ tokens' = {} /\ enabled' = {}
  /\ deleted' = deleted \cup tokens
  /\ outdated' = {p \in Processes : pc[p] = "up"}
  /\ UNCHANGED <<boots, pc, inserted, seed, audited, unrecorded>>

Administrate ==
  /\ Disable \/ Delete
  /\ UNCHANGED <<step, dbVars, outdated>>

BootNext ==
  \/ \E p \in Processes : Start(p) \/ Serve(p)
  \/ DropTables
  \/ Administrate

BootSpec == BootInit /\ [][BootNext]_bootVars

-----------------------------------------------------------------------------
(* What starting promises *)

\* The version row never runs ahead of the tables: upgrades that overlap, die
\* half-way or follow a downgrade leave both or neither (env.py 84-90), so a
\* process that finds the head has nothing left to do.
StampedIsThere ==
  head = "committed" => schema = "committed" /\ vtable = "committed"

\* A process that serves does so on the service's tables, whether it upgraded,
\* found them or skipped the upgrade, until an operator drops them under it
\* (start.py 13-15, 34).
UpOnSchema ==
  \A p \in Processes : pc[p] = "up" /\ p \notin outdated => schema = "committed"
=============================================================================
