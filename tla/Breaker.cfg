CONSTANTS
  Callers = {c1, c2, c3}
  MaxFailures = 3
  ResetTimeout = 2
  HalfOpenMaxSucc = 2
SPECIFICATION FairSpec
INVARIANTS TypeOK StateFollowsReports
PROPERTIES OpenWaits Recovers
