SPECIFICATION FairSpec
CONSTANTS
    pre_release = pre_release
    active = active
    locked = locked
    full = full
    read = read
    Window = {pre_release, active, locked}
    Level = {full, read}
    LevelOf <- MCLevelOf
    NoWindow = NoWindow
    Schedule <- MCSchedule
    LastDay = 3
    Worker = {w1, w2}
    MaxRetries = 1
    MaxQueue = 2
    OverrideSettings <- MCOverrides
    MaxOverrides = 0
    SharePointFails = FALSE
    WorkersCrash = FALSE
    LoopRaises = FALSE
PROPERTIES
    SharePointConvergesAlways
CHECK_DEADLOCK FALSE
