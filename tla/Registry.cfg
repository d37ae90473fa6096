SPECIFICATION Spec
CONSTANTS
  Operators = {o1, o2}
  Batches = {b1}
  Pipeline = pipeline
  MaxModels = 2
  MaxCalls = 3
  NumVectors = 2
  Ops <- AllOps
  Exclusive = FALSE
  MayFail = TRUE
SYMMETRY MCSymmetry
CHECK_DEADLOCK FALSE
INVARIANTS
  RowsAreTraceable
  RowsMatchOutput
PROPERTY RollbackKeepsAModel
