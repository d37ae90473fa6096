SPECIFICATION FairSpec
CONSTANTS
  Users = {a, b}
  NoUser = NoUser
  Limits = {1, 2}
  BatchSize = 2
  MaxSessions = 5
  MaxRetries = 1
  RateTicks = 1
  Faults = {"transient", "auth", "client", "other", "hollow"}
  Sizes = {2, 6}
  MaxArrivals = 1
INVARIANTS BatchAccounting NothingSkipped ExactWhenQuiet
PROPERTIES BatchEnds AuthErrorAborts
PROPERTIES RateLimited NoRequestAfterAbort
CHECK_DEADLOCK FALSE
