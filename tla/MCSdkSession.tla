---------------------------- MODULE MCSdkSession ----------------------------
(* A small instance of SdkSession for TLC: a machine under WSL, whose        *)
(* registry commands may fail, and one without any source but the file.      *)
EXTENDS SdkSession, TLC

CONSTANTS a1, b1, b2, wsl, box, reg, powershell, guid, machineId, node1, node2, u1, u2, u3, w

TheClients  == {a1, b1, b2}
TheMachines == a1 :> wsl @@ b1 :> box @@ b2 :> box
TheChains   == wsl :> <<reg, powershell>> @@ box :> <<machineId>>
TheAnswers  == reg :> guid @@ powershell :> guid @@ machineId :> NoId
TheNodes    == wsl :> node1 @@ box :> node2
TheUuids    == a1 :> u1 @@ b1 :> u2 @@ b2 :> u3
TheCommands == {reg, powershell}

r1 == [code |-> "c1", name |-> "n1", type |-> "t1"]
r2 == [code |-> "c2", name |-> "n2", type |-> "t2"]
r3 == [code |-> "c3", name |-> "n3", type |-> "t1"]

TheSnapshots == {<<r1, r2, r3>>, <<r3, r1>>}
Words == w :> {"c1", "n3"}

Fetch(codes, keyword, type, limit) ==
  [codes |-> codes, keyword |-> keyword, type |-> type, limit |-> limit]

\* With lists of codes that are blank, have a comma inside or are unknown.
Fetches ==
  {Fetch(<< <<"c1">>, <<"c2", "c3">> >>, None, None, 2),
   Fetch(<< <<Blank>>, <<"c3">>, <<"c9">> >>, w, None, 1),
   Fetch(<< <<Blank>>, <<Blank, Blank>> >>, w, None, 0),
   Fetch(<<>>, None, "t1", 1)}

\* The programs on the box fetch the table at once.
WholeTable == {Fetch(<<>>, None, None, 0)}

TheQueries == [c \in TheClients |-> IF c = a1 THEN Fetches ELSE WholeTable]
=============================================================================
