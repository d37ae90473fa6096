CONSTANTS
    Users = {u1, u2}
    None = None
    Triggers <- UploadOnly
    Carried <- NoUsers
    MaxValidIds = 2
    StoreCopies = 1
    PayloadIds = 4
    MayFail = {FALSE}
SPECIFICATION Spec
INVARIANT StoredBeforePrediction
CHECK_DEADLOCK FALSE
