SPECIFICATION LocalSpec
CONSTANTS
  upper = upper
  lower = lower
  other = other
  third = third
  ill = ill
  Spellings = {upper, lower, other, third, ill}
  Lower <- LowerCase
  WellFormed = {upper, lower, other, third}
  NoId = NoId
  NoDate = NoDate
  Null = Null
  NoneText = "None"
  LastMonths = "last6months"
  WindowStart = "2024-03-01"
  Today = "2024-09-01"
  Files <- UpToThreeRows
  Formats = {"csv", "json", "other"}
  Globals <- EventDates
  MaxValidIds = 2
  Stages <- StageNames
  Fields <- FieldNames
  Requires <- CodeRequires
  Produces <- CodeProduces
  Order <- CodeOrder
  Handlers <- SomeHandlers
  Inputs <- SomeInputs
  Batches <- FittingBatches
  Failed = Failed
  Broken = Broken
  MaxCalls = 2
  MaxTries = 2
  NoTrend = NoTrend
  NoTime <- Never
  WeekLength = 604800
  Subscribers <- SomeSubscribers
  MinSessions = 5
  MinWeeks = 4
INVARIANTS IngestedExactly PeriodIsOwn BreachFoundWhereMade
INVARIANTS ExplanationsAccountedFor TrendComparesTheEnds NobodyLostToRounding
PROPERTY DegradesGracefully
CHECK_DEADLOCK FALSE
