SPECIFICATION Spec
CONSTANTS
  Executions = {e1, e2}
  Users = {u1, u2}
  e1 = e1
  e2 = e2
  u1 = u1
  u2 = u2
  Members <- SharedUser
  Scores <- SpreadAndSplit
  ScanOrders <- ByExecution
  Queries = {}
  MaxTries = 2
  MaxFaults = 0
  MaxScans = 0
INVARIANT StageOutlivesAUser
CHECK_DEADLOCK FALSE
