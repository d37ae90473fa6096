CONSTANTS
    Users = {u1, u2}
    None = None
    Triggers <- AllTriggers
    Carried <- AnyUsers
    MaxValidIds = 2
    StoreCopies = 2
    PayloadIds = 4
    MayFail = {TRUE}
SPECIFICATION Spec
SYMMETRY UserSymmetry
INVARIANTS
    EventPointsToStored
    TableNeverAhead
    Provenance
PROPERTY ResultsAreKept
CHECK_DEADLOCK FALSE
