----------------------------- MODULE SdkSession -----------------------------
(***************************************************************************)
(* Programs that use one token through the SDK (sdk/finsight_data): each   *)
(* makes a FinSightDataClient, which identifies its machine                *)
(* (FingerprintFile), and fetches a table page by page with limit and      *)
(* offset, while the service refreshes its snapshot (FilterRows).          *)
(*                                                                         *)
(* Of the service only what a session depends on is here: the device bound *)
(* to the token, for a token that insists on one and clients that ask for  *)
(* no rebind, and the rows in memory.  A request compares its device with  *)
(* the one its AuthContext names and binds the token later, in an UPDATE   *)
(* without a condition.  The contexts, which are cached and shared, are    *)
(* those of DeviceBinding; here one may name any device the row has held,  *)
(* or none. The client keeps no state between requests; the loop over the  *)
(* pages is the program's own.                                             *)
(***************************************************************************)
EXTENDS FingerprintFile, FilterRows

CONSTANTS
  QueriesOf, \* the arguments each program may fetch with, limit 0 for none
  Snapshots  \* the row sequences the service may hold, one trading day

\* A snapshot lists the rows of a table, each once (snapshot_service.py 76-100).
ASSUME SnapshotsAssumption == \A s \in Snapshots : s \in Seq(ToSet(s)) /\ IsInjective(s)
ASSUME QueriesAssumption ==
  \A c \in Clients : \A q \in QueriesOf[c] :
    q.limit \in Nat /\ q.codes \in Seq(ToSet(q.codes))

VARIABLES
  query,    \* what each program fetches
  state,    \* idle between requests, binding, admitted, finished or lockedOut
  rows,     \* the rows it has collected
  total,    \* the total of the last answer, -1 before the first
  steady,   \* history: the snapshot has not changed since its first page
  binders,  \* history: the clients whose device has been written to the row
  snapshot  \* the service's rows

callVars == <<query, state, rows, total, steady>>
vars == <<fpVars, callVars, binders, snapshot>>

SessionInit ==
  /\ Init
  /\ query \in [Clients -> UNION {QueriesOf[c] : c \in Clients}]
  /\ \A c \in Clients : query[c] \in QueriesOf[c]
  /\ state = [c \in Clients |-> "idle"]
  /\ rows = [c \in Clients |-> <<>>]
  /\ total = [c \in Clients |-> -1]
  /\ steady = [c \in Clients |-> TRUE]
  /\ binders = {}
  /\ snapshot \in Snapshots

\* FinSightDataClient(...): nothing of the session changes.
Construct(c) ==
  /\ Identify(c)
  /\ UNCHANGED <<callVars, binders, snapshot>>

-----------------------------------------------------------------------------
(* One request: _get in the client, the dependency and the endpoint *)

\* _enforce_fingerprint: a context without a device makes the request bind the
\* token, one with another device refuses it.
DeviceCheck(c) ==
  /\ Ready(c) /\ state[c] = "idle"
  /\ \/ state' = [state EXCEPT ![c] = "binding"]
     \/ \E d \in binders :
          state' = [state EXCEPT ![c] = IF id[d] = id[c] THEN "admitted" ELSE "lockedOut"]
  /\ UNCHANGED <<fpVars, query, rows, total, steady, binders, snapshot>>

\* The UPDATE of bind_fingerprint replaces whatever device the row holds.
Bind(c) ==
  /\ state[c] = "binding"
  /\ binders' = binders \cup {c}
  /\ state' = [state EXCEPT ![c] = "admitted"]
  /\ UNCHANGED <<fpVars, query, rows, total, steady, snapshot>>

\* The UPDATE raises, or the request is refused by a rate limit or the gate,
\* failed, or too late for the client's timeout: the call raises, and the
\* program may repeat it.
TurnedAway(c) ==
  /\ state[c] \in {"binding", "admitted"}
  /\ state' = [state EXCEPT ![c] = "idle"]
  /\ UNCHANGED <<fpVars, query, rows, total, steady, binders, snapshot>>

\* The page from the rows collected so far on.
Answered(c) ==
  /\ state[c] = "admitted"
  /\ LET matching == Matching(snapshot, query[c])
         page == Slice(matching, Len(rows[c]), query[c].limit)
         got == rows[c] \o page
     IN /\ rows' = [rows EXCEPT ![c] = got]
        /\ total' = [total EXCEPT ![c] = Len(matching)]
        /\ state' = [state EXCEPT ![c] = IF Len(got) >= Len(matching) \/ page = <<>>
                                         THEN "finished" ELSE "idle"]
  /\ UNCHANGED <<fpVars, query, steady, binders, snapshot>>

\* A refresh of the same trading day: rows move, come and go.  An answer names
\* the day and not the refresh, so a client cannot notice.
Refresh ==
  /\ snapshot' \in Snapshots \ {snapshot}
  /\ steady' = [c \in Clients |-> steady[c] /\ (total[c] = -1 \/ state[c] = "finished")]
  /\ UNCHANGED <<fpVars, query, state, rows, total, binders>>

Next ==
  \/ \E c \in Clients : Construct(c) \/ DeviceCheck(c) \/ Bind(c) \/ TurnedAway(c) \/ Answered(c)
  \/ Refresh

Spec == SessionInit /\ [][Next]_vars

-----------------------------------------------------------------------------
(* What a session promises *)

\* A client is locked out only after a client of another machine has bound the
\* token, served or turned away afterwards, or because its own machine gave two
\* identifiers; first requests may replace one another's device, but no program
\* is refused for one of its own machine (auth.py 292-303, 543-574).
LockedOutByAnother ==
  [][\A c \in Clients :
       state[c] = "idle" /\ state'[c] = "lockedOut" =>
         \/ MachineOf[c] \in disturbed
         \/ \E d \in binders : MachineOf[d] # MachineOf[c]]_vars

\* Pages fetched from one snapshot are the rows asked for: each of them once,
\* no other, and as many as the answer's total (snapshot_service.py 117-142,
\* main.py 90-91, client.py 60-63).
PagesExact ==
  \A c \in Clients :
    state[c] = "finished" /\ steady[c] =>
      \E s \in Snapshots :
        /\ ToSet(rows[c]) = {row \in ToSet(s) : Asked(row, query[c])}
        /\ Len(rows[c]) = total[c] /\ IsInjective(rows[c])
        /\ \A i, j \in 1..Len(rows[c]) :
             i < j => \E k, l \in 1..Len(s) : k < l /\ s[k] = rows[c][i] /\ s[l] = rows[c][j]
=============================================================================
