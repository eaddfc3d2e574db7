SPECIFICATION FairSpec
CONSTANTS
    Job = {j1, j2}
    LastDay = 1
    MaxRetries = 1
    GraphFails = TRUE
    WorkersCrash = TRUE
    UserCancels = {}
PROPERTIES
    TasksEnd
CHECK_DEADLOCK FALSE
