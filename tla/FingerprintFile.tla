-------------------------- MODULE FingerprintFile --------------------------
(***************************************************************************)
(* How the clients of the SDK find the identifier of the machine they run   *)
(* on: src/sdk/finsight_data/fingerprint.py.  The sources of an identifier   *)
(* are tried in turn; the last resort is a file in the home directory that   *)
(* the first client to miss it creates.                                     *)
(*                                                                         *)
(* write_text opens the file, which empties it, and then writes; a reader    *)
(* may come in between, and a process may die there.                         *)
(***************************************************************************)
EXTENDS Integers, Sequences

CONSTANTS
  Clients,   \* processes that build a fingerprint
  MachineOf, \* the machine each runs on
  Chain,     \* the sources tried on each machine, before the file
  IdOf,      \* what each source answers when it works, NoId if it never does
  Flaky,     \* sources that run a command, which may fail or time out
  NoId,      \* the empty string
  Node,      \* the answer of uuid.getnode on each machine
  Uuid,      \* the value of uuid4 for each client; no two are the same
  Missing    \* in place of the content of a file that does not exist

Machines == {MachineOf[c] : c \in Clients}

\* What a machine's sources, its clients and its network address answer.
OwnIds(m) ==
  ({IdOf[Chain[m][i]] : i \in 1..Len(Chain[m])} \ {NoId})
    \cup {Uuid[c] : c \in {d \in Clients : MachineOf[d] = m}} \cup {Node[m]}

ASSUME ChainAssumption ==
  \A m \in Machines : Chain[m] \in Seq(DOMAIN IdOf)
ASSUME IdsAssumption ==
  /\ NoId # Missing
  /\ \A m \in Machines : NoId \notin OwnIds(m) /\ Missing \notin OwnIds(m)
  /\ \A m, n \in Machines : m # n => OwnIds(m) \cap OwnIds(n) = {}

VARIABLES
  at,       \* where each client is
  tried,    \* sources it has tried
  id,       \* the identifier it found
  file,     \* content of each machine's file, or Missing
  disturbed \* history: machines where a source failed that has an answer, the
            \* file could not be used, or a client came upon its creation

fpVars == <<at, tried, id, file, disturbed>>

Ids == {NoId} \cup UNION {OwnIds(m) : m \in Machines}

Places == {"source", "look", "read", "create", "fill", "ready", "dead"}

TypeOK ==
  /\ at \in [Clients -> Places]
  /\ tried \in [Clients -> Nat]
  /\ \A c \in Clients : tried[c] <= Len(Chain[MachineOf[c]])
  /\ id \in [Clients -> Ids]
  /\ file \in [Machines -> Ids \cup {Missing}]
  /\ disturbed \subseteq Machines

Init ==
  /\ at = [c \in Clients |-> "source"]
  /\ tried = [c \in Clients |-> 0]
  /\ id = [c \in Clients |-> NoId]
  /\ file = [m \in Machines |-> Missing]
  /\ disturbed = {}

Goto(c, place) == at' = [at EXCEPT ![c] = place]

Found(c, value) ==
  /\ Goto(c, "ready")
  /\ id' = [id EXCEPT ![c] = value]

FileOf(c) == file[MachineOf[c]]
Disturb(c) == disturbed' = disturbed \cup {MachineOf[c]}

\* The clients that have missed the file and not yet written it.
Creating(m) == {c \in Clients : MachineOf[c] = m /\ at[c] \in {"create", "fill"}}

-----------------------------------------------------------------------------
(* _primary_device_identifier *)

More(c) == tried[c] < Len(Chain[MachineOf[c]])
NextSource(c) == Chain[MachineOf[c]][tried[c] + 1]

SourceAnswers(c) ==
  /\ at[c] = "source" /\ More(c)
  /\ IdOf[NextSource(c)] # NoId
  /\ Found(c, IdOf[NextSource(c)])
  /\ UNCHANGED <<tried, file, disturbed>>

\* The source does not exist here, or its command fails this time.
SourceFails(c) ==
  /\ at[c] = "source" /\ More(c)
  /\ IdOf[NextSource(c)] = NoId \/ NextSource(c) \in Flaky
  /\ tried' = [tried EXCEPT ![c] = @ + 1]
  /\ IF IdOf[NextSource(c)] = NoId THEN UNCHANGED disturbed ELSE Disturb(c)
  /\ UNCHANGED <<at, id, file>>

SourcesFail(c) ==
  /\ at[c] = "source" /\ ~More(c)
  /\ Goto(c, "look")
  /\ UNCHANGED <<tried, id, file, disturbed>>

-----------------------------------------------------------------------------
(* _persistent_fallback_id *)

\* Faulty variant: the file is created without looking for it.
LookForNothing(c) ==
  /\ at[c] = "look"
  /\ Goto(c, "create")
  /\ IF Creating(MachineOf[c]) = {} THEN UNCHANGED disturbed ELSE Disturb(c)
  /\ UNCHANGED <<tried, id, file>>

LookForFile(c) ==
  /\ at[c] = "look"
  /\ Goto(c, IF FileOf(c) = Missing THEN "create" ELSE "read")
  /\ IF Creating(MachineOf[c]) = {} THEN UNCHANGED disturbed ELSE Disturb(c)
  /\ UNCHANGED <<tried, id, file>>

\* Faulty variant: an identifier of its own for a client that finds a file.
ReadFileAnew(c) ==
  /\ at[c] = "read"
  /\ Found(c, Uuid[c])
  /\ UNCHANGED <<tried, file, disturbed>>

\* Whatever the file holds is the identifier, an empty file included.
ReadFile(c) ==
  /\ at[c] = "read"
  /\ Found(c, FileOf(c))
  /\ UNCHANGED <<tried, file, disturbed>>

OpenForWriting(c) ==
  /\ at[c] = "create"
  /\ file' = [file EXCEPT ![MachineOf[c]] = NoId]
  /\ Goto(c, "fill")
  /\ UNCHANGED <<tried, id, disturbed>>

Fill(c) ==
  /\ at[c] = "fill"
  /\ file' = [file EXCEPT ![MachineOf[c]] = Uuid[c]]
  /\ Found(c, Uuid[c])
  /\ UNCHANGED <<tried, disturbed>>

\* Any exception of these steps ends in the network address instead.
FileFails(c) ==
  /\ at[c] \in {"look", "read", "create", "fill"}
  /\ Found(c, Node[MachineOf[c]])
  /\ Disturb(c)
  /\ UNCHANGED <<tried, file>>

Dies(c) ==
  /\ at[c] \notin {"ready", "dead"}
  /\ Goto(c, "dead")
  /\ IF at[c] = "fill" THEN Disturb(c) ELSE UNCHANGED disturbed
  /\ UNCHANGED <<tried, id, file>>

Identify(c) ==
  \/ SourceAnswers(c) \/ SourceFails(c) \/ SourcesFail(c)
  \/ LookForFile(c) \/ ReadFile(c) \/ OpenForWriting(c) \/ Fill(c)
  \/ FileFails(c) \/ Dies(c)

-----------------------------------------------------------------------------

Ready(c) == at[c] = "ready"

\* Two clients find the same identifier on one machine unless a command that
\* works failed once, or they met over the creation of the file; and different
\* ones on two machines unless both hold a file somebody left empty
\* (fingerprint.py 36-48, 104-114).
IdNamesMachine ==
  \A c, d \in Clients :
    Ready(c) /\ Ready(d) =>
      IF MachineOf[c] = MachineOf[d]
      THEN id[c] = id[d] \/ MachineOf[c] \in disturbed
      ELSE id[c] # id[d] \/ {MachineOf[c], MachineOf[d]} \subseteq disturbed

Settled(m) == file[m] \notin {Missing, NoId} /\ Creating(m) = {}

\* Once it is written and nobody who missed it is still on the way, the file
\* keeps its identifier, and nobody sets out to create it again: later clients
\* agree for good (fingerprint.py 41-46).
FileSettles ==
  [][\A m \in Machines : Settled(m) => Settled(m)' /\ file'[m] = file[m]]_fpVars
=============================================================================
