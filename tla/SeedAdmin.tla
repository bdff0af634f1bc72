----------------------------- MODULE SeedAdmin -----------------------------
(***************************************************************************)
(* How booting processes create or reuse the administrator's seed token:   *)
(* ensure_seed_data_api_admin in src/app/auth.py, run by src/app/main.py   *)
(* when it is imported.                                                    *)
(*                                                                         *)
(* The statements of one transaction run at the isolation level READ       *)
(* COMMITTED: a SELECT sees what is committed at its time, an INSERT that  *)
(* meets an uncommitted row with the same key waits for that transaction   *)
(* to end.  The audit event is written in a transaction of its own.        *)
(* Tokens are numbered in the order of their INSERTs.                      *)
(***************************************************************************)
EXTENDS Integers, FiniteSets

CONSTANTS
  Processes,
  MaxBoots,   \* bound on the number of boots
  MaxDeletes, \* bound on the tokens the administration deletes
  None

ASSUME BoundsAssumption == MaxBoots \in Nat /\ MaxDeletes \in Nat
ASSUME NoneAssumption == None \notin Processes /\ None \notin Nat
ASSUME ProcessesAssumption == Processes \cap {"absent", "committed"} = {}

VARIABLES
  boots,      \* boots so far
  pc,         \* where each process is
  user, role, \* the rows of the seed user and its role: absent, committed, or
              \* the process that has inserted them and not yet committed
  tokens,     \* committed tokens of that user
  enabled,    \* those that are in the state the seed needs
  inserted,   \* tokens inserted so far
  seed,       \* the token each process has chosen or made
  audited,    \* tokens with an audit event
  deleted,    \* history: tokens the administration has deleted
  unrecorded  \* history: tokens whose issuer died before the audit event

rowVars  == <<user, role>>
tokVars  == <<tokens, enabled, inserted>>
histVars == <<deleted, unrecorded>>
vars == <<boots, pc, rowVars, tokVars, seed, audited, histVars>>

RowStates == {"absent", "committed"} \cup Processes
PcStates == {"down", "start", "insert_user", "role", "select_token", "update",
             "insert_token", "commit", "audit", "up"}

TypeOK ==
  /\ boots \in 0..MaxBoots
  /\ pc \in [Processes -> PcStates]
  /\ user \in RowStates /\ role \in RowStates
  /\ inserted \in Nat
  /\ tokens \subseteq 1..inserted /\ enabled \subseteq tokens
  /\ seed \in [Processes -> 1..inserted \cup {None}]
  /\ audited \subseteq 1..inserted
  /\ deleted \subseteq (1..inserted) \ tokens /\ unrecorded \subseteq 1..inserted

Init ==
  /\ boots = 0
  /\ pc = [p \in Processes |-> "down"]
  /\ user = "absent" /\ role = "absent"
  /\ tokens = {} /\ enabled = {} /\ inserted = 0
  /\ seed = [p \in Processes |-> None]
  /\ audited = {} /\ deleted = {} /\ unrecorded = {}

Goto(p, state) == pc' = [pc EXCEPT ![p] = state]

\* Faulty variant: every statement commits by itself.
UndoNothing(p, rowState) == IF rowState = p THEN "committed" ELSE rowState

\* The rows a process has not committed disappear with its transaction.
Undo(p, rowState) == IF rowState = p THEN "absent" ELSE rowState

\* An exception leaves the module, or the process is killed.
Die(p) ==
  /\ Goto(p, "down")
  /\ user' = Undo(p, user) /\ role' = Undo(p, role)
  /\ seed' = [seed EXCEPT ![p] = None]
  /\ unrecorded' = IF pc[p] = "audit" THEN unrecorded \cup {seed[p]} ELSE unrecorded

-----------------------------------------------------------------------------
(* ensure_seed_data_api_admin *)

Boot(p) ==
  /\ pc[p] = "down" /\ boots < MaxBoots
  /\ boots' = boots + 1
  /\ Goto(p, "start")
  /\ UNCHANGED <<rowVars, tokVars, seed, audited, histVars>>

SelectUser(p) ==
  /\ pc[p] = "start"
  /\ Goto(p, IF user = "committed" THEN "role" ELSE "insert_user")
  /\ UNCHANGED <<boots, rowVars, tokVars, seed, audited, histVars>>

\* username is unique: the row of another process that has committed by now
\* makes the INSERT raise.
InsertUser(p) ==
  /\ pc[p] = "insert_user"
  /\ \/ /\ user = "absent" /\ user' = p
        /\ Goto(p, "role")
        /\ UNCHANGED <<role, seed, unrecorded>>
     \/ user = "committed" /\ Die(p)
  /\ UNCHANGED <<boots, tokVars, audited, deleted>>

\* ON CONFLICT DO NOTHING still waits for a conflicting transaction to end.
GrantRole(p) ==
  /\ pc[p] = "role" /\ role \in {"absent", "committed"}
  /\ role' = IF role = "absent" THEN p ELSE role
  /\ Goto(p, "select_token")
  /\ UNCHANGED <<boots, user, tokVars, seed, audited, histVars>>

\* The newest token of the user, if there is one.
SelectToken(p) ==
  /\ pc[p] = "select_token"
  /\ \/ /\ tokens # {}
        /\ \E t \in tokens :
             /\ \A u \in tokens : u <= t
             /\ seed' = [seed EXCEPT ![p] = t]
        /\ Goto(p, "update")
     \/ tokens = {} /\ Goto(p, "insert_token") /\ UNCHANGED seed
  /\ UNCHANGED <<boots, rowVars, tokVars, audited, histVars>>

Committed(p, rowState) == IF rowState = p THEN "committed" ELSE rowState

\* Faulty variant: the row is inserted again if it is gone.
UpsertToken(p) ==
  /\ pc[p] = "update"
  /\ tokens' = tokens \cup {seed[p]} /\ enabled' = enabled \cup {seed[p]}
  /\ user' = Committed(p, user) /\ role' = Committed(p, role)
  /\ Goto(p, "up")
  /\ UNCHANGED <<boots, inserted, seed, audited, histVars>>

\* UPDATE and commit: the token is put back into the seed's state, whatever
\* the administration did to it.  A deleted row is not missed.
UpdateToken(p) ==
  /\ pc[p] = "update"
  /\ enabled' = enabled \cup ({seed[p]} \cap tokens)
  /\ user' = Committed(p, user) /\ role' = Committed(p, role)
  /\ Goto(p, "up")
  /\ UNCHANGED <<boots, tokens, inserted, seed, audited, histVars>>

InsertToken(p) ==
  /\ pc[p] = "insert_token"
  /\ inserted' = inserted + 1
  /\ seed' = [seed EXCEPT ![p] = inserted + 1]
  /\ Goto(p, "commit")
  /\ UNCHANGED <<boots, rowVars, tokens, enabled, audited, histVars>>

\* Faulty variant: the commit is not followed by the audit event.
CommitSilently(p) ==
  /\ pc[p] = "commit"
  /\ tokens' = tokens \cup {seed[p]} /\ enabled' = enabled \cup {seed[p]}
  /\ user' = Committed(p, user) /\ role' = Committed(p, role)
  /\ Goto(p, "up")
  /\ UNCHANGED <<boots, inserted, seed, audited, histVars>>

\* Faulty variant: an exception of the commit is logged, and the token given
\* out all the same.
CommitOrNot(p) ==
  /\ pc[p] = "commit"
  /\ \/ /\ tokens' = tokens \cup {seed[p]} /\ enabled' = enabled \cup {seed[p]}
        /\ user' = Committed(p, user) /\ role' = Committed(p, role)
        /\ Goto(p, "audit")
     \/ /\ user' = Undo(p, user) /\ role' = Undo(p, role)
        /\ Goto(p, "up")
        /\ UNCHANGED <<tokens, enabled>>
  /\ UNCHANGED <<boots, inserted, seed, audited, histVars>>

Commit(p) ==
  /\ pc[p] = "commit"
  /\ tokens' = tokens \cup {seed[p]} /\ enabled' = enabled \cup {seed[p]}
  /\ user' = Committed(p, user) /\ role' = Committed(p, role)
  /\ Goto(p, "audit")
  /\ UNCHANGED <<boots, inserted, seed, audited, histVars>>

\* The event refers to the token: a token deleted by now makes the INSERT raise.
Audit(p) ==
  /\ pc[p] = "audit"
  /\ \/ /\ seed[p] \in tokens
        /\ audited' = audited \cup {seed[p]}
        /\ Goto(p, "up")
        /\ UNCHANGED <<rowVars, seed, unrecorded>>
     \/ seed[p] \notin tokens /\ Die(p) /\ UNCHANGED audited
  /\ UNCHANGED <<boots, tokVars, deleted>>

Crash(p) ==
  /\ pc[p] # "down"
  /\ Die(p)
  /\ UNCHANGED <<boots, tokVars, audited, deleted>>

-----------------------------------------------------------------------------
(* The administration *)

Disable ==
  /\ \E t \in enabled : enabled' = enabled \ {t}
  /\ UNCHANGED <<boots, pc, rowVars, tokens, inserted, seed, audited, histVars>>

Delete ==
  /\ Cardinality(deleted) < MaxDeletes
  /\ \E t \in tokens :
       /\ tokens' = tokens \ {t} /\ enabled' = enabled \ {t}
       /\ deleted' = deleted \cup {t}
  /\ UNCHANGED <<boots, pc, rowVars, inserted, seed, audited, unrecorded>>

Ensure(p) ==
  \/ SelectUser(p) \/ InsertUser(p) \/ GrantRole(p) \/ SelectToken(p)
  \/ UpdateToken(p) \/ InsertToken(p) \/ Commit(p) \/ Audit(p)

Next ==
  \/ \E p \in Processes : Boot(p) \/ Ensure(p) \/ Crash(p)
  \/ Disable \/ Delete

Spec == Init /\ [][Next]_vars

-----------------------------------------------------------------------------
(* What seeding promises *)

\* However many processes boot at once and die on the way, there is never a
\* second seed token, as long as none was deleted: the rows of the user and of
\* its role, in the same transaction as the token, make the boots wait for each
\* other (auth.py 754-850).
OneSeedToken == deleted = {} => Cardinality(tokens) <= 1

\* Processes that are up offer one and the same token, which is committed: one
\* that is gone, or another, only after a token was deleted (auth.py 781-824,
\* 861; main.py 135).
SameTokenOffered ==
  \A p, q \in Processes :
    pc[p] = "up" /\ pc[q] = "up" =>
      /\ {seed[p], seed[q]} \subseteq tokens \cup deleted
      /\ seed[p] # seed[q] => deleted # {}

\* Every committed token has an audit event, is about to get it, or its issuer
\* died between the two transactions (auth.py 850-860).
AuditTrail ==
  \A t \in tokens \cup deleted :
    \/ t \in audited \cup unrecorded
    \/ \E p \in Processes : pc[p] = "audit" /\ seed[p] = t
=============================================================================
