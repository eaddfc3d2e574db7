--------------------------- MODULE MCLockPipeline ---------------------------
(* Instances of LockPipeline: three windows, one per day; the last day       *)
(* returns to the first window, as when T is moved.                          *)
EXTENDS LockPipeline, TLC

CONSTANTS pre_release, active, locked, full, read

MCLevelOf == (pre_release :> read) @@ (active :> full) @@ (locked :> read)
MCSchedule ==
    (0 :> active) @@ (1 :> pre_release) @@ (2 :> locked) @@ (3 :> active)
\* Settings of no rule; each shares its state with one rule and its permission
\* with another.
MCOverrides == {[state |-> locked, level |-> full],
                [state |-> active, level |-> read]}
=============================================================================
