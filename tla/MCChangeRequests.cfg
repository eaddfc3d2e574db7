SPECIFICATION Spec
CONSTANTS
    f1 = f1
    f2 = f2
    t1 = t1
    t2 = t2
    NoCR = NoCR
    CR = {c1, c2}
    Target = {t1, t2}
    Folder = {f1, f2}
    Sweeper = {s1, s2}
    CRTarget <- MCCRTarget
    FolderTarget <- MCFolderTarget
    MaxTime = 3
    MaxDuration = 2
INVARIANTS
    TypeOK
    UnlockHolds
    RelockMissedByOverlap
PROPERTIES
    ImplementsWindows
    UnlockedForTheUnion
