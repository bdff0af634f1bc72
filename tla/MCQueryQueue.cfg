CONSTANTS
  None = None
  r1 = r1
  r2 = r2
  r3 = r3
  t1 = t1
  t2 = t2
  k1 = k1
  w1 = w1
  w2 = w2
  Requests <- ThreeRequests
  Tables <- TwoTables
  Tokens <- OneToken
  Workers <- TwoWorkers
  MaxQueueOf <- QuotaOfTwo
  QueueMaxSize = 1
  TableSeq <- WarmOne
SPECIFICATION Spec
SYMMETRY Symmetry
INVARIANTS
  SingleFlight
  NoLostWakeup
  CancelledOnlyByPeer
  TokenWaitersExact
PROPERTIES
  SettledOnce
  FullOnlyOfOthers
  FlightSpec
