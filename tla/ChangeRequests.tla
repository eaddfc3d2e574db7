--------------------------- MODULE ChangeRequests ---------------------------
(***************************************************************************)
(* Temporary unlocks by Change Request: api/services/locks/cr_service.py   *)
(* over the lock_state rows its LIKE patterns select, the admin override   *)
(* worker that writes the same rows (worker/tasks/lock_application.py) and *)
(* the periodic expiry sweep (scheduler/tasks/cr_expiry_checker.py).       *)
(*                                                                         *)
(* A handler is one action: AuditService.log_event commits the session, so *)
(* the status of a CR and the rows it re-locks become visible together.    *)
(* The sweep is not one action: it selects the overdue CRs once and        *)
(* commits them one at a time, and the API runs between two commits.       *)
(***************************************************************************)
EXTENDS Naturals

CONSTANTS
    CR,            \* ids of the change requests that may be opened
    NoCR,          \* lock_state.cr_id IS NULL
    Target,        \* (em_id, scope) pairs
    Folder,        \* folder paths some scope pattern matches
    Sweeper,       \* expire_crs executions that may overlap
    CRTarget,      \* the em_id and scope a CR is opened for
    FolderTarget,  \* the em_id and scope whose patterns match a folder path
    MaxTime,       \* bound: the clock, in units of the sweep period
    MaxDuration    \* bound: the longest duration_hours, in the same unit

ASSUME TargetAssumption ==
    /\ CRTarget \in [CR -> Target]
    /\ FolderTarget \in [Folder -> Target]
ASSUME NoCRAssumption == NoCR \notin CR
ASSUME BoundAssumption == MaxTime \in Nat /\ MaxDuration \in Nat

VARIABLES
    crs,      \* change_request rows: status and expires_at
    locks,    \* active lock_state rows, one per folder path
    pending,  \* per sweep, the selected CRs it has not committed yet
    now,      \* the clock
    overlapped \* history: CRs that were active beside another of their scope

vars == <<crs, locks, pending, now, overlapped>>

Time == 0..MaxTime
NoTime == 0   \* cr_expires_at IS NULL; an expiry is always later

CRStatus == {"none", "active", "expired", "closed"}
PermissionLevel == {"full", "write", "read"}
\* is_manual_override with the origin that override_reason records.
OverrideBy == {"nobody", "cr", "admin"}

ChangeRequest == [status : CRStatus, expires_at : Time]
LockState == [exists           : BOOLEAN,
              permission_level : PermissionLevel,
              lock_type        : {"manual", "automatic"},
              override         : OverrideBy,
              cr_id            : CR \cup {NoCR},
              cr_expires_at    : Time]

NoLockState == [exists |-> FALSE, permission_level |-> "full",
                lock_type |-> "automatic", override |-> "nobody",
                cr_id |-> NoCR, cr_expires_at |-> NoTime]

TypeOK ==
    /\ crs \in [CR -> ChangeRequest]
    /\ locks \in [Folder -> LockState]
    /\ pending \in [Sweeper -> SUBSET CR]
    /\ now \in Time
    /\ overlapped \subseteq CR

-----------------------------------------------------------------------------
Active(c) == crs[c].status = "active"

\* Mutant of OtherActive: the query is forgotten.
NoneActive(c) == {}

\* The query for other ACTIVE CRs of the same em_id and scope.
OtherActive(c) == {d \in CR \ {c} : Active(d) /\ CRTarget[d] = CRTarget[c]}

ActiveFor(t) == {c \in CR : Active(c) /\ CRTarget[c] = t}

\* The LIKE patterns of the CR's scope match the path.
InScope(f, c) == FolderTarget[f] = CRTarget[c]

\* Mutant of Unlocked: SharePoint's name for the level instead of the enum's.
UnlockedContribute(row, c, expires) ==
    [row EXCEPT !.permission_level = "contribute", !.lock_type = "manual",
                !.override = "cr", !.cr_id = c, !.cr_expires_at = expires]

\* _apply_cr_unlock on one row: the row becomes this CR's, whoever had it.
Unlocked(row, c, expires) ==
    [row EXCEPT !.permission_level = "write", !.lock_type = "manual",
                !.override = "cr", !.cr_id = c, !.cr_expires_at = expires]

\* _revert_cr_lock on one row.
Relocked(row) ==
    [row EXCEPT !.permission_level = "read", !.lock_type = "automatic",
                !.override = "nobody", !.cr_id = NoCR,
                !.cr_expires_at = NoTime]

\* Mutant of UnlockRows: the LIKE patterns match the other scope too.
UnlockAllRows(c, expires) ==
    [f \in Folder |->
        IF locks[f].exists THEN Unlocked(locks[f], c, expires) ELSE locks[f]]

\* The rows after _apply_cr_unlock(c).
UnlockRows(c, expires) ==
    [f \in Folder |->
        IF locks[f].exists /\ InScope(f, c)
        THEN Unlocked(locks[f], c, expires) ELSE locks[f]]

\* Mutant of EndRows: only rows without an admin override are re-locked.
EndOwnRows(c) ==
    [f \in Folder |->
        IF OtherActive(c) = {} /\ locks[f].cr_id = c /\ locks[f].override = "cr"
        THEN Relocked(locks[f]) ELSE locks[f]]

\* The rows after the end of c: _revert_cr_lock runs only when no other CR
\* of the scope is active, and selects rows by cr_id.
EndRows(c) ==
    [f \in Folder |->
        IF OtherActive(c) = {} /\ locks[f].cr_id = c
        THEN Relocked(locks[f]) ELSE locks[f]]

-----------------------------------------------------------------------------
Init ==
    /\ crs = [c \in CR |-> [status |-> "none", expires_at |-> NoTime]]
    /\ locks = [f \in Folder |-> NoLockState]
    /\ pending = [s \in Sweeper |-> {}]
    /\ now = 0
    /\ overlapped = {}

NewCR(duration) == [status |-> "active", expires_at |-> now + duration]

\* The history: c opens beside CRs of its scope that are still active.
NoteOverlap(c) ==
    overlapped' = IF OtherActive(c) = {} THEN overlapped
                  ELSE overlapped \cup {c} \cup OtherActive(c)

\* Mutant of CreateCR: an id is used again after its CR ended.
CreateCRAgain(c, duration) ==
    /\ ~Active(c)
    /\ now + duration <= MaxTime
    /\ crs' = [crs EXCEPT ![c] = NewCR(duration)]
    /\ locks' = UnlockRows(c, now + duration)
    /\ NoteOverlap(c)
    /\ UNCHANGED <<pending, now>>

\* POST /locks/cr: create_cr.  The CRs already active are only read for a log line.
CreateCR(c, duration) ==
    /\ crs[c].status = "none"
    /\ now + duration <= MaxTime
    /\ crs' = [crs EXCEPT ![c] = NewCR(duration)]
    /\ locks' = UnlockRows(c, now + duration)
    /\ NoteOverlap(c)
    /\ UNCHANGED <<pending, now>>

\* The end of a CR by close_cr or expire_crs: its status and its rows.
Ends(c, status) ==
    /\ crs' = [crs EXCEPT ![c].status = status]
    /\ locks' = EndRows(c)

\* POST /locks/cr/close.  Only an ACTIVE CR; any other is a ConflictError.
CloseCR(c) ==
    /\ Active(c)
    /\ Ends(c, "closed")
    /\ UNCHANGED <<pending, now, overlapped>>

\* Mutant of BeginSweep: the expiry is looked up in the lock_state rows, whose
\* copy an overlapping CR overwrites.
SweepByRows(s) ==
    LET overdue == {c \in CR : /\ Active(c)
                               /\ \E f \in Folder :
                                     /\ locks[f].cr_id # NoCR
                                     /\ InScope(f, c)
                                     /\ locks[f].cr_expires_at <= now} IN
    /\ pending[s] = {}
    /\ overdue # {}
    /\ pending' = [pending EXCEPT ![s] = overdue]
    /\ UNCHANGED <<crs, locks, now, overlapped>>

\* expire_crs selects the overdue CRs.  The Redis lock around the task has a
\* fixed timeout and is never renewed, so two sweeps may overlap.
BeginSweep(s) ==
    LET overdue == {c \in CR : Active(c) /\ crs[c].expires_at <= now} IN
    /\ pending[s] = {}
    /\ overdue # {}
    /\ pending' = [pending EXCEPT ![s] = overdue]
    /\ UNCHANGED <<crs, locks, now, overlapped>>

\* One iteration of the loop of expire_crs, up to the commit of its audit
\* event.  The status the CR has by now is not read again.
ExpireCR(s, c) ==
    /\ c \in pending[s]
    /\ Ends(c, "expired")
    /\ pending' = [pending EXCEPT ![s] = @ \ {c}]
    /\ UNCHANGED <<now, overlapped>>

\* The sweep dies, or its session fails and every later iteration with it.
SweepFails(s) ==
    /\ pending[s] # {}
    /\ pending' = [pending EXCEPT ![s] = {}]
    /\ UNCHANGED <<crs, locks, now, overlapped>>

\* apply_manual_override: the row of the folder is created or overwritten.
ManualOverride(f, level) ==
    /\ locks' = [locks EXCEPT ![f] = [@ EXCEPT !.exists = TRUE,
                                               !.permission_level = level,
                                               !.override = "admin"]]
    /\ UNCHANGED <<crs, pending, now, overlapped>>

Tick ==
    /\ now < MaxTime
    /\ now' = now + 1
    /\ UNCHANGED <<crs, locks, pending, overlapped>>

Next ==
    \/ \E c \in CR : \E d \in 1..MaxDuration : CreateCR(c, d)
    \/ \E c \in CR : CloseCR(c)
    \/ \E s \in Sweeper : BeginSweep(s)
    \/ \E s \in Sweeper : \E c \in CR : ExpireCR(s, c)
    \/ \E s \in Sweeper : SweepFails(s)
    \/ \E f \in Folder : \E level \in PermissionLevel : ManualOverride(f, level)
    \/ Tick

Spec == Init /\ [][Next]_vars

-----------------------------------------------------------------------------
\* Properties.

\* What a row says of the CR it names: the row is in the CR's scope, is marked
\* as an override, and its cr_expires_at is that CR's, whichever CR of the scope
\* ends last; a row without a cr_id carries no expiry.  No promise of the
\* service, but what its other properties rest on.
TagAgrees ==
    \A f \in Folder :
        LET row == locks[f] IN
        IF row.cr_id = NoCR
        THEN row.cr_expires_at = NoTime /\ row.override # "cr"
        ELSE /\ row.exists
             /\ row.cr_id \in CR
             /\ InScope(f, row.cr_id)
             /\ crs[row.cr_id].status # "none"
             /\ row.cr_expires_at = crs[row.cr_id].expires_at
             /\ row.lock_type = "manual"
             /\ row.override # "nobody"

\* While a CR of a scope is active no row of the scope is under the automatic
\* lock: each is unlocked by some CR or under an admin override.  It fails if
\* any end of an overlapping CR re-locks too early.
UnlockHolds ==
    \A f \in Folder :
        /\ locks[f].exists
        /\ ActiveFor(FolderTarget[f]) # {}
        => locks[f].cr_id # NoCR \/ locks[f].override = "admin"

\* A selected CR was active once and is overdue, however long the sweep takes
\* and whatever the API closes in between.
PendingOverdue ==
    \A s \in Sweeper : \A c \in pending[s] :
        crs[c].status # "none" /\ crs[c].expires_at <= now

\* A step that re-locks a row leaves no CR of the row's scope active ("Only
\* re-lock if there are no other active CRs", close_cr and expire_crs).
RelockOnlyWhenAllEnded ==
    [][\A f \in Folder :
          locks[f].cr_id # NoCR /\ locks'[f].cr_id = NoCR
          => ActiveFor(FolderTarget[f])' = {}]_vars

\* "Union of unlock windows": a folder is re-locked only when every CR of its
\* scope has been closed or has reached its own expiry, also where a shorter CR
\* that overlapped has moved the rows' copy of the expiry back.
UnlockedForTheUnion ==
    [][\A f \in Folder :
          locks[f].cr_id # NoCR /\ locks'[f].cr_id = NoCR
          => \A c \in CR : CRTarget[c] = FolderTarget[f] =>
                \/ crs'[c].status \in {"none", "closed"}
                \/ crs'[c].expires_at <= now]_vars

\* Only an overlap makes an end miss its rows: a row still names a CR that has
\* ended only if another CR of the scope was active beside it.  (With one CR at
\* a time every folder is locked again, whatever an admin wrote in between and
\* however late a sweep commits.)
RelockMissedByOverlap ==
    \A f \in Folder : \A c \in CR :
        locks[f].cr_id = c /\ ~Active(c) => c \in overlapped

\* The service implements the promise of UnlockWindows.
Phase ==
    [c \in CR |-> CASE crs[c].status = "none"   -> "unused"
                    [] crs[c].status = "active" -> "open"
                    [] OTHER                    -> "ended"]

UnlockedFolders == {f \in Folder : locks[f].cr_id # NoCR}

Windows == INSTANCE UnlockWindows WITH phase <- Phase,
                                       unlocked <- UnlockedFolders

\* Refinement: read with Phase and UnlockedFolders, every behaviour of the
\* service is one UnlockWindows allows.
ImplementsWindows == Windows!Spec

\* What the documents say and the code does not do.

\* "Overlapping CRs for same scope extend the unlock period", "extend expiry to
\* new CR's expiry time": the expiry a row shows covers every active CR of the
\* row's scope.
ExpiryCoversActive ==
    \A f \in Folder :
        locks[f].cr_id # NoCR =>
            \A c \in ActiveFor(FolderTarget[f]) :
                crs[c].expires_at <= locks[f].cr_expires_at

\* "Only re-lock when ALL CRs for scope have expired/closed" and "enforces
\* automatic re-lock at expiration": with no CR of a scope active, no folder
\* of the scope is left with a CR's write access.
RelockedWhenAllEnded ==
    \A f \in Folder :
        ActiveFor(FolderTarget[f]) = {} =>
            ~(locks[f].override = "cr" /\ locks[f].permission_level = "write")
=============================================================================
