CONSTANTS
  i1 = i1
  i2 = i2
  t1 = t1
  t2 = t2
  acc = acc
  Items = {i1, i2}
  Work <- Apart
  Txns = {t1, t2}
  TxnRow <- SameReference
  FirstStatus <- OneCompleted
  Accounts = {acc}
  OpeningBalance <- Two
  Goroutines = {g1, g2}
  MaxWorkers = 2
  MaxRetries = 1
  MaxFaults = 1
  Faults = {"crash"}
  HookSeesValues = TRUE
  MaxFailures = 1
  ResetTimeout = 1
  HalfOpenMaxSucc = 1
SPECIFICATION FairSpec
INVARIANT CompletedItemIsDone
PROPERTIES StatusFollowsTable Settled ShutdownCompletes
