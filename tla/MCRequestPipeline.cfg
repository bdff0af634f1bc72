CONSTANTS
  None = None
  r1 = r1
  r2 = r2
  t1 = t1
  w1 = w1
  Token = k1
  Requests <- TwoRequests
  NumChecks = {3}
  LockTTL = 2
  CacheTTL = 1
  MaxDelay = 0
  Tables <- OneTable
  Workers <- OneWorker
  QueueMaxSize = 1
  MaxQueue <- QuotaBelowOne
  MaxConn = 2
SPECIFICATION PipeFairSpec
INVARIANTS
  QuotaOutOfSight
  PoolBalance
PROPERTY ComesToRest
