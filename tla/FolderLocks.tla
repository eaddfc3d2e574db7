----------------------------- MODULE FolderLocks -----------------------------
(***************************************************************************)
(* The locks people put on one folder: the rows of lock_state that         *)
(* LockService ("rbac") and ManualLockService ("pm") insert and end, the   *)
(* permission assignments the first restricts, and the SharePoint          *)
(* permission the second has a worker set.                                 *)
(*                                                                         *)
(* The services do not find each other's rows by folder (one searches a    *)
(* folder_id, the other order and path), but LockService also removes,     *)
(* extends and expires rows by id, whoever inserted them.  A request       *)
(* searches in one step and commits in a later one.                        *)
(*                                                                         *)
(* The PM's service and its task build the folder's path from columns name *)
(* and sharepoint_site_id of the order that the table does not have yet    *)
(* and raise before they do anything; they are modelled with the columns.  *)
(***************************************************************************)
EXTENDS Naturals, FiniteSets

CONSTANTS
    Session,    \* concurrent requests
    MaxHours,   \* the longest expiry or extension
    MaxRows,    \* bound: locks ever inserted
    MaxTasks,   \* bound: tasks of one action queued or about to be
    MaxTime,    \* bound: the clock
    MaxFaults   \* bound: SharePoint failures, and requests that die

ASSUME ManualAssumption ==
    /\ MaxHours \in Nat \ {0} /\ MaxRows \in Nat /\ MaxTasks \in Nat
    /\ MaxTime \in Nat \ {0} /\ MaxFaults \in Nat
    /\ IsFiniteSet(Session)

VARIABLES
    locks,       \* lock_state rows in the order of their insertion
    restricted,  \* is_locked of the folder's permission assignments
    req,         \* what each request is doing and the row it found
    tasks,       \* queued apply_manual_lock_permissions, per action
    granted,     \* what SharePoint grants
    raced,       \* requests, or tasks, have overlapped
    faults,
    now

manualVars == <<locks, restricted, req, tasks, granted, raced, faults, now>>

Row == 1..MaxRows
NoTime == 0
NoRow == 0
LockRow == [by : {"none", "rbac", "pm"}, active : BOOLEAN, expires_at : 0..(MaxTime + MaxHours)]
Permission == {"Read", "Contribute"}
Action == {"lock", "unlock"}
Op == {"idle", "create", "remove", "extend", "read", "clean up", "delay"}
        \cup Action
Request == [op : Op, row : 0..MaxRows, action : Action]

Unused == [by |-> "none", active |-> FALSE, expires_at |-> NoTime]
NoRequest == [op |-> "idle", row |-> NoRow, action |-> "lock"]
NoTask == [a \in Action |-> 0]

ManualTypeOK ==
    /\ locks \in [Row -> LockRow]
    /\ restricted \in BOOLEAN
    /\ req \in [Session -> Request]
    /\ tasks \in [Action -> 0..MaxTasks]
    /\ granted \in Permission
    /\ raced \in BOOLEAN
    /\ faults \in 0..MaxFaults
    /\ now \in 1..MaxTime

ManualInit ==
    /\ locks = [l \in Row |-> Unused]
    /\ restricted = FALSE
    /\ req = [s \in Session |-> NoRequest]
    /\ tasks = NoTask
    /\ granted = "Contribute"
    /\ raced = FALSE
    /\ faults = 0
    /\ now = 1

Inserted == {l \in Row : locks[l].by # "none"}
Active(by) == {l \in Row : locks[l].by = by /\ locks[l].active}
Overdue(l) == locks[l].expires_at # NoTime /\ locks[l].expires_at < now
Busy(s, op) == req[s].op = op

\* A request searches; from here on it knows the row it found, or none.
Search(s, op, l) ==
    /\ Busy(s, "idle")
    /\ req' = [req EXCEPT ![s] = [NoRequest EXCEPT !.op = op, !.row = l]]
    /\ raced' = (raced \/ \E t \in Session : ~Busy(t, "idle"))
    /\ UNCHANGED <<locks, restricted, tasks, granted, faults, now>>

Done(s) == req' = [req EXCEPT ![s] = NoRequest]

NewLock(by, expires) ==
    /\ Cardinality(Inserted) < MaxRows
    /\ locks' = [locks EXCEPT ![Cardinality(Inserted) + 1] =
                   [by |-> by, active |-> TRUE, expires_at |-> expires]]

End(l) == locks' = [locks EXCEPT ![l].active = FALSE]

\* _apply_lock_permissions and _restore_calculated_permissions update the
\* assignments of the folder_id, which a lock of a PM does not have.
Restricts == restricted' = TRUE
Restore(l) ==
    restricted' = IF locks[l].by = "rbac" THEN FALSE ELSE restricted

-----------------------------------------------------------------------------
\* create_manual_lock raises when the folder has a lock, or two of them.
BeginCreate(s) == Active("rbac") = {} /\ Search(s, "create", NoRow)

Created(s, hours) ==
    /\ Busy(s, "create")
    /\ NewLock("rbac", IF hours = 0 THEN NoTime ELSE now + hours)
    /\ Restricts
    /\ Done(s)
    /\ UNCHANGED <<tasks, granted, raced, faults, now>>

\* remove_lock, by id.
BeginRemove(s, l) == locks[l].active /\ Search(s, "remove", l)

\* Mutant of Removed: the assignments stay restricted.
RemovedOnly(s) ==
    /\ Busy(s, "remove")
    /\ End(req[s].row)
    /\ Done(s)
    /\ UNCHANGED <<restricted, tasks, granted, raced, faults, now>>

Removed(s) ==
    /\ Busy(s, "remove")
    /\ End(req[s].row)
    /\ Restore(req[s].row)
    /\ Done(s)
    /\ UNCHANGED <<tasks, granted, raced, faults, now>>

\* extend_lock, by id: adds to the expiry it found, or to now.
BeginExtend(s, l) == locks[l].active /\ Search(s, "extend", l)

Extended(s, hours) ==
    LET l == req[s].row IN
    /\ Busy(s, "extend")
    /\ locks[l].expires_at + hours <= MaxTime + MaxHours
    /\ locks' = [locks EXCEPT ![l].expires_at =
                   (IF @ = NoTime THEN now ELSE @) + hours]
    /\ Done(s)
    /\ UNCHANGED <<restricted, tasks, granted, raced, faults, now>>

\* get_active_locks and check_lock_override end the overdue locks they meet.
BeginRead(s, l) == locks[l].active /\ Overdue(l) /\ Search(s, "read", l)

ExpiredOnRead(s) ==
    /\ Busy(s, "read")
    /\ End(req[s].row)
    /\ Restore(req[s].row)
    /\ Done(s)
    /\ UNCHANGED <<tasks, granted, raced, faults, now>>

\* cleanup_expired_locks ends an overdue lock and restores the assignments, but
\* only flushes: when its session closes, all of it is rolled back.
BeginCleanUp(s, l) == locks[l].active /\ Overdue(l) /\ Search(s, "clean up", l)
CleanUpClosed(s) ==
    /\ Busy(s, "clean up")
    /\ Done(s)
    /\ UNCHANGED <<locks, restricted, tasks, granted, raced, faults, now>>

-----------------------------------------------------------------------------
\* ManualLockService finds a lock of a PM, if there is one, to lock or unlock.
BeginManual(s, op) ==
    IF Active("pm") = {} THEN Search(s, op, NoRow)
                         ELSE \E l \in Active("pm") : Search(s, op, l)

Committed(s, action) ==
    /\ req' = [req EXCEPT ![s] = [NoRequest EXCEPT !.op = "delay", !.action = action]]
    /\ UNCHANGED <<restricted, tasks, granted, raced, faults, now>>

\* _apply_lock: a lock that was found gets a new reason, or one is inserted.
LockFound(s) ==
    /\ Busy(s, "lock") /\ req[s].row # NoRow
    /\ UNCHANGED locks
    /\ Committed(s, "lock")
LockNew(s) ==
    /\ Busy(s, "lock") /\ req[s].row = NoRow
    /\ NewLock("pm", NoTime)
    /\ Committed(s, "lock")

\* _remove_lock: the lock that was found is ended, however many there are.
UnlockFound(s) ==
    /\ Busy(s, "unlock") /\ req[s].row # NoRow
    /\ End(req[s].row)
    /\ Committed(s, "unlock")
UnlockNone(s) ==
    /\ Busy(s, "unlock") /\ req[s].row = NoRow
    /\ UNCHANGED locks
    /\ Committed(s, "unlock")

\* The router queues the SharePoint update after the commit.
Delay(s) ==
    LET action == req[s].action IN
    /\ Busy(s, "delay")
    /\ tasks[action] < MaxTasks
    /\ tasks' = [tasks EXCEPT ![action] = @ + 1]
    /\ raced' = (raced \/ tasks # NoTask)
    /\ Done(s)
    /\ UNCHANGED <<locks, restricted, granted, faults, now>>

\* Mutants of SharePointPermission: the action is passed on as it is, or the
\* levels are swapped.
SharePointAction(action) == action
SharePointSwapped(action) == IF action = "lock" THEN "Contribute" ELSE "Read"

SharePointPermission(action) ==
    IF action = "lock" THEN "Read" ELSE "Contribute"

Taken(action) ==
    /\ tasks[action] > 0
    /\ tasks' = [tasks EXCEPT ![action] = @ - 1]

\* apply_manual_lock_permissions sets what its action says.  The worker has
\* several processes: any queued task may come next.
Apply ==
    /\ \E action \in Action : /\ Taken(action)
                              /\ granted' = SharePointPermission(action)
    /\ UNCHANGED <<locks, restricted, req, raced, faults, now>>

\* A failed SharePoint call is reported as "partial" and not retried.
ApplyFails ==
    /\ \E action \in Action : Taken(action)
    /\ faults < MaxFaults
    /\ faults' = faults + 1
    /\ UNCHANGED <<locks, restricted, req, granted, raced, now>>

\* A worker that dies after the call leaves the message to be delivered again.
ApplyAgain ==
    /\ \E action \in Action : tasks[action] > 0 /\ granted' = SharePointPermission(action)
    /\ faults < MaxFaults
    /\ faults' = faults + 1
    /\ UNCHANGED <<locks, restricted, req, tasks, raced, now>>

\* A request dies before its commit, or between its commit and the delay.
Dies(s) ==
    /\ ~Busy(s, "idle")
    /\ faults < MaxFaults
    /\ faults' = faults + 1
    /\ Done(s)
    /\ UNCHANGED <<locks, restricted, tasks, granted, raced, now>>

Tick ==
    /\ now < MaxTime
    /\ now' = now + 1
    /\ UNCHANGED <<locks, restricted, req, tasks, granted, raced, faults>>

-----------------------------------------------------------------------------
\* The operations, each with its steps.
CreateManualLock(s) ==
    BeginCreate(s) \/ \E hours \in 0..MaxHours : Created(s, hours)
RemoveLock(s) == (\E l \in Row : BeginRemove(s, l)) \/ Removed(s)
ExtendLock(s) ==
    \/ \E l \in Row : BeginExtend(s, l)
    \/ \E hours \in 1..MaxHours : Extended(s, hours)
\* Also apply_lock_overrides, which checks the lock of each permission.
ReadLocks(s) == (\E l \in Row : BeginRead(s, l)) \/ ExpiredOnRead(s)
CleanUp(s) == (\E l \in Row : BeginCleanUp(s, l)) \/ CleanUpClosed(s)

ApplyLock(s) == LockFound(s) \/ LockNew(s)
RemovePMLock(s) == UnlockFound(s) \/ UnlockNone(s)
ApplyManualLock(s) ==
    (\E op \in Action : BeginManual(s, op)) \/ ApplyLock(s) \/ RemovePMLock(s)

LockService(s) ==
    \/ CreateManualLock(s) \/ RemoveLock(s) \/ ExtendLock(s)
    \/ ReadLocks(s) \/ CleanUp(s)
ManualLockService(s) == ApplyManualLock(s) \/ Delay(s)

ManualNext ==
    \/ \E s \in Session : LockService(s) \/ ManualLockService(s) \/ Dies(s)
    \/ Apply \/ ApplyFails \/ ApplyAgain \/ Tick

ManualSpec == ManualInit /\ [][ManualNext]_manualVars

-----------------------------------------------------------------------------
\* Properties.

\* As long as no two requests overlapped, no sequence of creations, removals,
\* extensions, expiries and deaths leaves two locks of a service on the folder,
\* restricts it without a lock of LockService, or leaves it open with one.
SerialLocks ==
    ~raced => /\ \A by \in {"rbac", "pm"} : Cardinality(Active(by)) <= 1
              /\ restricted <=> Active("rbac") # {}

\* As long as requests and tasks did not overlap, nothing died and SharePoint
\* did not fail, a folder a PM has locked is read-only in SharePoint once the
\* queue is empty, whatever LockService did to the PM's rows meanwhile.
SharePointFollows ==
    /\ ~raced /\ faults = 0 /\ tasks = NoTask
    /\ \A s \in Session : ~Busy(s, "delay")
    /\ Active("pm") # {}
    => granted = "Read"
=============================================================================
