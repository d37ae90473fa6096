SPECIFICATION Spec
CONSTANTS
  Operators = {o1}
  Batches = {b1, b2}
  Pipeline = pipeline
  MaxModels = 2
  MaxCalls = 3
  NumVectors = 1
  Ops <- AllOps
  Exclusive = TRUE
  MayFail = TRUE
SYMMETRY MCSymmetry
CHECK_DEADLOCK FALSE
INVARIANT UsedModelsStay
