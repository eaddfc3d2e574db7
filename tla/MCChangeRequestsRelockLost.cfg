SPECIFICATION Spec
CONSTANTS
    f1 = f1
    f2 = f2
    t1 = t1
    t2 = t2
    NoCR = NoCR
    CR = {c1, c2}
    Target = {t1, t2}
    Folder = {f1}
    Sweeper = {s1}
    CRTarget <- MCCRTarget
    FolderTarget <- MCFolderTarget
    MaxTime = 2
    MaxDuration = 2
INVARIANTS
    RelockedWhenAllEnded
