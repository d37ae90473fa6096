SPECIFICATION FairSpec
CONSTANTS
  Executions = {e1, e2}
  Users = {u1, u2}
  e1 = e1
  e2 = e2
  u1 = u1
  u2 = u2
  Members <- SharedUser
  Scores <- SpreadAndSplit
  ScanOrders <- ByExecution
  Queries <- Filters
  MaxTries = 2
  MaxFaults = 1
  MaxScans = 1
INVARIANTS TableFollowsResults ScanIsComplete LatestIsLatest
PROPERTY QuietPredictDelivers
CHECK_DEADLOCK FALSE
