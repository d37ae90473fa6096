SPECIFICATION StageSpec
CONSTANTS
  u1 = u1
  w1 = w1
  w2 = w2
  u2 = u2
  Users = {u1, u2}
  Writers = {w1, w2}
  Readers = {}
  MaxAttempts = 2
  PageSize = 1
  Generated <- OneDate
  FromDates = {}
  StaleReads = {TRUE, FALSE}
  MaxCalls = 4
  MaxLost = 1
  Lists <- MCLists
  MaxTries = 2
INVARIANTS OutputIsStored OutputIsNewestCopy CopiesPerTry
CHECK_DEADLOCK FALSE
