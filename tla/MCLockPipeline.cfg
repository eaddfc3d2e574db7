SPECIFICATION FairSpec
CONSTANTS
    pre_release = pre_release
    active = active
    locked = locked
    full = full
    read = read
    Window = {pre_release, active, locked}
    Level = {full, read}
    LevelOf <- MCLevelOf
    NoWindow = NoWindow
    Schedule <- MCSchedule
    LastDay = 3
    Worker = {w1, w2}
    MaxRetries = 1
    MaxQueue = 1
    OverrideSettings <- MCOverrides
    MaxOverrides = 1
    SharePointFails = TRUE
    WorkersCrash = TRUE
    LoopRaises = TRUE
INVARIANTS
    TypeOK
    RowIsOneSetting
PROPERTIES
    RowConverges
    SharePointConverges
CHECK_DEADLOCK FALSE
