SPECIFICATION FairSpec
CONSTANTS
    Job = {j1, j2}
    LastDay = 1
    MaxRetries = 0
    GraphFails = TRUE
    WorkersCrash = TRUE
    UserCancels = {j1}
INVARIANTS
    TypeOK
PROPERTIES
    WorkflowOnce
    TasksEnd
CHECK_DEADLOCK FALSE
