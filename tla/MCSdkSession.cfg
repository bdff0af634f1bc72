CONSTANTS
  a1 = a1
  b1 = b1
  b2 = b2
  wsl = wsl
  box = box
  reg = reg
  powershell = powershell
  guid = guid
  machineId = machineId
  w = w
  node1 = node1
  node2 = node2
  u1 = u1
  u2 = u2
  u3 = u3
  Missing = Missing
  NoId = NoId
  Blank = Blank
  Clients <- TheClients
  MachineOf <- TheMachines
  Chain <- TheChains
  IdOf <- TheAnswers
  Flaky <- TheCommands
  Node <- TheNodes
  Uuid <- TheUuids
  QueriesOf <- TheQueries
  Snapshots <- TheSnapshots
  Containing <- Words
SPECIFICATION Spec
CHECK_DEADLOCK FALSE
INVARIANTS
  IdNamesMachine
  PagesExact
PROPERTIES
  LockedOutByAnother
  FileSettles
