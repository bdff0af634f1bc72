---------------------------- MODULE SharedFlight ----------------------------
(***************************************************************************)
(* What callers of get_snapshot are promised, with no queue, worker,       *)
(* thread, cache or quota in sight: per table at most one flight (a shared *)
(* refresh) at a time; a caller is answered or refused at once, or boards  *)
(* the flight of its table; a flight's fate is decided once and everyone   *)
(* aboard leaves with that fate, except those whose own time ran out.  A   *)
(* passenger whose time runs out aborts the flight for the others.         *)
(***************************************************************************)
CONSTANTS Callers, Tables, None

VARIABLES
  flight,   \* the flight of each table, named after who started it
  fate,     \* what became of the flight each caller started
  aboard,   \* the flight each caller boarded
  late,     \* callers whose time ran out
  verdict   \* what each caller was told

vars == <<flight, fate, aboard, late, verdict>>

Immediate == {"cached", "failed", "tokenFull", "queueFull"}
VerdictOf == [result |-> "refreshed", error |-> "failed", cancelled |-> "cancelled"]

Init ==
  /\ flight = [t \in Tables |-> None]
  /\ fate = [c \in Callers |-> "none"]
  /\ aboard = [c \in Callers |-> None]
  /\ late = {}
  /\ verdict = [c \in Callers |-> "none"]

Unserved(c) == verdict[c] = "none" /\ aboard[c] = None

AnswerAtOnce(c) ==
  /\ Unserved(c)
  /\ \E v \in Immediate : verdict' = [verdict EXCEPT ![c] = v]
  /\ UNCHANGED <<flight, fate, aboard, late>>

Launch(c, t) ==
  /\ Unserved(c)
  /\ flight[t] = None
  /\ flight' = [flight EXCEPT ![t] = c]
  /\ fate' = [fate EXCEPT ![c] = "open"]
  /\ aboard' = [aboard EXCEPT ![c] = c]
  /\ UNCHANGED <<late, verdict>>

\* A flight already aborted is still the flight of its table: boarding it
\* means being cancelled with it.
Board(c, t) ==
  /\ Unserved(c)
  /\ flight[t] # None
  /\ aboard' = [aboard EXCEPT ![c] = flight[t]]
  /\ UNCHANGED <<flight, fate, late, verdict>>

Settle(f, how) ==
  fate' = IF fate[f] = "open" THEN [fate EXCEPT ![f] = how] ELSE fate

Land(t) ==
  /\ flight[t] # None
  /\ \E how \in {"result", "error"} : Settle(flight[t], how)
  /\ flight' = [flight EXCEPT ![t] = None]
  /\ UNCHANGED <<aboard, late, verdict>>

RunOutOfTime(c) ==
  /\ aboard[c] # None /\ verdict[c] = "none" /\ c \notin late
  /\ Settle(aboard[c], "cancelled")
  /\ late' = late \cup {c}
  /\ UNCHANGED <<flight, aboard, verdict>>

Disembark(c) ==
  /\ aboard[c] # None /\ verdict[c] = "none"
  /\ \/ c \in late /\ verdict' = [verdict EXCEPT ![c] = "timeout"]
     \/ /\ c \notin late
        /\ fate[aboard[c]] \in DOMAIN VerdictOf
        /\ verdict' = [verdict EXCEPT ![c] = VerdictOf[fate[aboard[c]]]]
  /\ UNCHANGED <<flight, fate, aboard, late>>

Next ==
  \/ \E c \in Callers : AnswerAtOnce(c) \/ RunOutOfTime(c) \/ Disembark(c)
  \/ \E c \in Callers, t \in Tables : Launch(c, t) \/ Board(c, t)
  \/ \E t \in Tables : Land(t)

Spec == Init /\ [][Next]_vars
=============================================================================
