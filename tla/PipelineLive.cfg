CONSTANTS
    Users = {u1, u2}
    None = None
    Triggers <- AllTriggers
    Carried <- NoUsers
    MaxValidIds = 2
    StoreCopies = 1
    PayloadIds = 4
    MayFail = {TRUE, FALSE}
SPECIFICATION WatchFairSpec
PROPERTIES QuietUploadDelivers WatchEnds
CHECK_DEADLOCK FALSE
