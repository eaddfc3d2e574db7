SPECIFICATION ManualSpec
SYMMETRY Symmetry
CONSTANTS
    Session = {s1, s2}
    MaxHours = 1
    MaxRows = 2
    MaxTasks = 1
    MaxTime = 3
    MaxFaults = 1
INVARIANTS
    ManualTypeOK
    SerialLocks
    SharePointFollows
CHECK_DEADLOCK FALSE
