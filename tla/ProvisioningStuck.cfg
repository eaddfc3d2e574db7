SPECIFICATION FairSpec
CONSTANTS
    Job = {j1, j2}
    LastDay = 0
    MaxRetries = 1
    GraphFails = TRUE
    WorkersCrash = FALSE
    UserCancels = {}
PROPERTIES
    OrderSettles
CHECK_DEADLOCK FALSE
