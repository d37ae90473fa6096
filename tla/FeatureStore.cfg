SPECIFICATION FairSpec
CONSTANTS
  Users = {u1}
  w1 = w1
  w2 = w2
  Writers = {w1, w2}
  Readers = {r1}
  MaxAttempts = 3
  PageSize = 1
  Generated <- ByWriter
  FromDates = {0, 2}
  StaleReads = {TRUE, FALSE}
  MaxCalls = 1
  MaxLost = 1
INVARIANTS ReturnedVersionIsOwn ConflictsAreContention HistoryIsWhole
PROPERTIES ImplementsLog EveryCallEnds
CHECK_DEADLOCK FALSE
