---------------------------- MODULE UnlockWindows ----------------------------
(***************************************************************************)
(* What the Change Request service promises, without rows or sweeps: a     *)
(* window opens once and ends once; opening it may unlock folders of its   *)
(* scope; a folder is re-locked only when no window of its scope is open.  *)
(* A re-lock may come with the end of the last window, later, or never:    *)
(* ChangeRequests implements this and nothing stronger                     *)
(* (MCChangeRequestsRelockLost.cfg shows the "never").                     *)
(***************************************************************************)
CONSTANTS CR, Target, Folder, CRTarget, FolderTarget

VARIABLES
    phase,     \* of each window
    unlocked   \* folders some window unlocked and nothing re-locked

vars == <<phase, unlocked>>

OpenFor(t) == {c \in CR : phase[c] = "open" /\ CRTarget[c] = t}

Init ==
    /\ phase = [c \in CR |-> "unused"]
    /\ unlocked = {}

Open(c) ==
    /\ phase[c] = "unused"
    /\ phase' = [phase EXCEPT ![c] = "open"]
    /\ unlocked \subseteq unlocked'
    /\ \A f \in unlocked' \ unlocked :
            f \in Folder /\ FolderTarget[f] = CRTarget[c]

\* Folders leave the unlocked set only when no window of theirs is open.
RelockSome ==
    /\ unlocked' \subseteq unlocked
    /\ \A f \in unlocked \ unlocked' : OpenFor(FolderTarget[f])' = {}

End(c) ==
    /\ phase[c] = "open"
    /\ phase' = [phase EXCEPT ![c] = "ended"]
    /\ RelockSome

LateRelock ==
    /\ RelockSome
    /\ UNCHANGED phase

Next ==
    \/ \E c \in CR : Open(c)
    \/ \E c \in CR : End(c)
    \/ LateRelock

Spec == Init /\ [][Next]_vars
=============================================================================
