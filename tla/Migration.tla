----------------------------- MODULE Migration -----------------------------
(***************************************************************************)
(* `alembic upgrade head` as src/start.py runs it before the server starts, *)
(* with the version table of src/alembic/env.py and the one revision of     *)
(* src/alembic/versions.                                                    *)
(*                                                                         *)
(* One upgrade is one PostgreSQL transaction: what it creates is seen by    *)
(* others when it commits.  Creating what another open transaction has      *)
(* created waits for that one to end, and raises if it has committed, even  *)
(* under IF NOT EXISTS, since that test sees committed tables only.         *)
(***************************************************************************)

CONSTANT Processes

VARIABLES
  step,   \* where each process is in the upgrade
  vtable, \* the table alembic_version_data_query: absent, committed, or the
          \* process that has created it and not yet committed
  schema, \* the auth_* tables, in the same way
  head    \* the row with version_num 001, in the same way

tableVars == <<vtable, schema, head>>
migVars == <<step, tableVars>>

Versions == {"absent", "committed"} \cup Processes
Steps == {"down", "heads", "look_vtable", "create_vtable", "look_schema",
          "create_schema", "stamp", "commit", "migrated"}

TypeOK ==
  /\ step \in [Processes -> Steps]
  /\ vtable \in Versions /\ schema \in Versions /\ head \in Versions

\* A new database, or one whose tables come from before alembic was used.
Init ==
  /\ step = [p \in Processes |-> "down"]
  /\ vtable = "absent" /\ head = "absent"
  /\ schema \in {"absent", "committed"}

Goto(p, s) == step' = [step EXCEPT ![p] = s]

Committed(p, version) == IF version = p THEN "committed" ELSE version
Undone(p, version) == IF version = p THEN "absent" ELSE version

\* An exception leaves main() before the server is started, or the process is
\* killed: its transaction is rolled back.
Fail(p) ==
  /\ Goto(p, "down")
  /\ vtable' = Undone(p, vtable)
  /\ schema' = Undone(p, schema)
  /\ head' = Undone(p, head)

-----------------------------------------------------------------------------
(* _run_alembic_upgrade and run_migrations_online *)

\* SKIP_ALEMBIC_UPGRADE is set.
Skip(p) ==
  /\ step[p] = "down"
  /\ Goto(p, "migrated")
  /\ UNCHANGED tableVars

\* No database URL can be made up from the environment or the yaml file, or a
\* connection is opened.
Connect(p) ==
  /\ step[p] = "down"
  /\ Goto(p, "heads")
  /\ UNCHANGED tableVars

\* A database at its head is left alone.
ReadHeads(p) ==
  /\ step[p] = "heads"
  /\ Goto(p, IF head = "committed" THEN "migrated" ELSE "look_vtable")
  /\ UNCHANGED tableVars

LookForVersionTable(p) ==
  /\ step[p] = "look_vtable"
  /\ Goto(p, IF vtable = "committed" THEN "look_schema" ELSE "create_vtable")
  /\ UNCHANGED tableVars

CreateVersionTable(p) ==
  /\ step[p] = "create_vtable"
  /\ \/ vtable = "absent" /\ vtable' = p /\ Goto(p, "look_schema")
        /\ UNCHANGED <<schema, head>>
     \/ vtable = "committed" /\ Fail(p)

\* upgrade() of revision 001: with the tables there, every statement is
\* without effect.
LookForTables(p) ==
  /\ step[p] = "look_schema"
  /\ Goto(p, IF schema = "committed" THEN "stamp" ELSE "create_schema")
  /\ UNCHANGED tableVars

CreateTables(p) ==
  /\ step[p] = "create_schema"
  /\ \/ schema = "absent" /\ schema' = p /\ Goto(p, "stamp")
        /\ UNCHANGED <<vtable, head>>
     \/ schema = "committed" /\ Fail(p)

\* Faulty variant: the version is stamped in a transaction of its own.
StampAtOnce(p) ==
  /\ step[p] = "stamp"
  /\ \/ head = "absent" /\ head' = "committed" /\ Goto(p, "commit")
        /\ UNCHANGED <<vtable, schema>>
     \/ head = "committed" /\ Fail(p)

\* INSERT of the version row, whose number is the table's primary key.
Stamp(p) ==
  /\ step[p] = "stamp"
  /\ \/ head = "absent" /\ head' = p /\ Goto(p, "commit")
        /\ UNCHANGED <<vtable, schema>>
     \/ head = "committed" /\ Fail(p)

Commit(p) ==
  /\ step[p] = "commit"
  /\ vtable' = Committed(p, vtable)
  /\ schema' = Committed(p, schema)
  /\ head' = Committed(p, head)
  /\ Goto(p, "migrated")

Migrating(p) == step[p] \notin {"down", "migrated"}

UpgradeFails(p) == Migrating(p) /\ Fail(p)

Upgrade(p) ==
  \/ ReadHeads(p)
  \/ LookForVersionTable(p) \/ CreateVersionTable(p)
  \/ LookForTables(p) \/ CreateTables(p)
  \/ Stamp(p) \/ Commit(p)
  \/ UpgradeFails(p)

\* A revision that has touched the tables holds their locks until it ends.
HoldsTables(p) == step[p] \in {"stamp", "commit"}

\* `alembic downgrade -1`, run by an operator: one transaction, which waits
\* for those that use the tables.
Downgrade ==
  /\ head = "committed" /\ schema = "committed"
  /\ \A p \in Processes : ~HoldsTables(p)
  /\ schema' = "absent" /\ head' = "absent"
  /\ UNCHANGED <<step, vtable>>
=============================================================================
