------------------------------ MODULE Permissions ------------------------------
(***************************************************************************)
(* RBACBatchProcessor and SharePointBulkPermissionProcessor apply          *)
(* permission assignments of one folder to SharePoint.  A batch is queued  *)
(* for a processor task, or run at once; its operations run beside each    *)
(* other, up to a limit, in one event loop and over one AsyncSession.      *)
(* Each calls apply_permissions, which is skipped when the folder was      *)
(* completed in this hour, and otherwise reads the folder's permissions,   *)
(* makes them those of its own assignment, one call after the other, and   *)
(* marks the hour.  Every await is a point where another operation runs.   *)
(***************************************************************************)
EXTENDS Naturals, FiniteSets, Sequences

CONSTANTS
    Batch, Assignment, Permission,
    Principal,      \* what _get_principal_key tells apart
    Id,             \* ids of SharePoint permissions
    PrincipalOf,    \* granted_to_id of an assignment
    RoleOf,         \* its permission
    Users,          \* the principals that are users, not groups
    Unique,         \* assignments with requires_unique_permissions
    Content,        \* the assignments of a batch, all in one chunk of _batch_size
    Kinds,          \* bound: how a batch may be handed over
    Before,         \* bound: the folder's permissions at the start
    PageSize,       \* permissions Graph lists on a page
    Processor,      \* bound: tasks that run _process_queue
    MaxConcurrent,  \* operations of one batch that run at a time
    MaxAttempts,    \* max_retries of _process_single_operation
    LastHour        \* bound: the last hour

ASSUME ParameterAssumption ==
    /\ PrincipalOf \in [Assignment -> Principal] /\ Users \subseteq Principal
    /\ RoleOf \in [Assignment -> Permission]
    /\ Unique \subseteq Assignment
    /\ Content \in [Batch -> (SUBSET Assignment) \ {{}}]
    /\ Kinds \in [Batch -> SUBSET {"queued", "immediate", "bulk"}]
    /\ Before \subseteq SUBSET [id : Id, principal : Principal, role : Permission]
    /\ PageSize \in Nat
    /\ MaxConcurrent \in Nat \ {0} /\ MaxAttempts \in Nat \ {0}
    /\ LastHour \in Nat

VARIABLES
    sharePoint, \* the folder's permissions: a principal may have several
    sync,       \* sharepoint_sync_status of the assignments
    hour,       \* now
    completed,  \* hours whose idempotency record is completed
    session,    \* the AsyncSession all operations share
    queue,      \* _queue
    processing, \* the flag _processing
    task,       \* what each task of _process_queue is doing
    batch,      \* kind and status of the batches
    op          \* the operations of the batches

vars == <<sharePoint, sync, hour, completed, session, queue, processing, task,
          batch, op>>

Kind == {"queued", "immediate", "bulk"}
Ended == {"completed", "partial", "failed"}
Held == [id : Id, principal : Principal, role : Permission]
Todo == [kind : {"grant", "update", "none"}, update : SUBSET Id, revoke : SUBSET Id]
Off == [pc |-> "off"]
Running == [pc : {"begin", "apply"}, attempt : 1..MaxAttempts,
            hour : 0..LastHour, todo : Todo,
            page : SUBSET Held] \* history: what others hold of the folder it read,
                                \* until somebody else changes the folder
Op == {Off, [pc |-> "waiting"], [pc |-> "done"], [pc |-> "failed"]} \cup Running

TypeOK ==
    /\ sharePoint \subseteq Held
    /\ sync \in [Assignment -> {"pending", "synced", "failed"}]
    /\ hour \in 0..LastHour /\ completed \subseteq 0..LastHour
    /\ session \in {"usable", "broken"}
    /\ queue \in Seq(Batch)
    /\ processing \in BOOLEAN
    /\ task \in [Processor -> {"idle", "created", "loop"} \cup Batch]
    /\ batch \in [Batch -> [kind : Kind,
                            status : {"none", "pending", "processing"} \cup Ended]]
    /\ op \in [Batch -> [Assignment -> Op]]

-----------------------------------------------------------------------------
IsRunning(b, a) == op[b][a].pc \in {"begin", "apply"}
RunningIn(b) == {a \in Assignment : IsRunning(b, a)}
RunningOps == {ba \in Batch \X Assignment : IsRunning(ba[1], ba[2])}

\* Mutant of HasEnded: a failed operation is not counted by update_progress.
HasEndedWell(b, a) == op[b][a].pc = "done"

HasEnded(b, a) == op[b][a].pc \in {"done", "failed"}

Of(p, page) == {g \in page : g.principal = p}
\* _update_sync_status writes every assignment of the folder,
\* _update_assignment_status that of the operation.
FolderMarked(status) == [x \in Assignment |-> status]
Marked(a, status) == [sync EXCEPT ![a] = status]

\* _convert_assignment_to_permissions: the one permission of an assignment; a
\* user is named by e-mail, a group by its id.
Wanted(a) == [principal |-> PrincipalOf[a], role |-> RoleOf[a],
              byEmail |-> PrincipalOf[a] \in Users]

NoTodo == [kind |-> "none", update |-> {}, revoke |-> {}]

\* _get_current_permissions reads the first page of the list only.
Pages(sp) ==
    IF Cardinality(sp) <= PageSize THEN {sp}
    ELSE {page \in SUBSET sp : Cardinality(page) = PageSize}

\* current_by_principal keeps the last permission of each principal.
ByPrincipal(page) ==
    {last \in SUBSET page : \A g \in page : Cardinality(Of(g.principal, last)) = 1}

\* Mutant of Changes: the permissions of other principals are left.
ChangesOnly(a, last) ==
    LET matched == IF PrincipalOf[a] \in Users THEN {} ELSE Of(PrincipalOf[a], last)
        changed == {g \in matched : g.role # RoleOf[a]}
    IN [kind |-> IF matched = {} THEN "grant" ELSE IF changed # {} THEN "update" ELSE "none",
        update |-> {g.id : g \in changed}, revoke |-> {}]

\* _calculate_permission_changes for the one permission of the assignment.
\* A user has no principal key that a current permission could match: the
\* user is granted, and what the user has is revoked.
Changes(a, last) ==
    LET matched == IF Wanted(a).byEmail THEN {} ELSE Of(Wanted(a).principal, last)
        changed == {g \in matched : g.role # Wanted(a).role}
    IN [kind |-> IF matched = {} THEN "grant" ELSE IF changed # {} THEN "update" ELSE "none",
        update |-> {g.id : g \in changed},
        revoke |-> {g.id : g \in last \ matched}]

Init ==
    /\ sharePoint \in Before
    /\ sync = [a \in Assignment |-> "pending"]
    /\ hour = 0 /\ completed = {}
    /\ session = "usable"
    /\ queue = <<>> /\ processing = FALSE
    /\ task = [p \in Processor |-> "idle"]
    /\ batch = [b \in Batch |-> [kind |-> "queued", status |-> "none"]]
    /\ op = [b \in Batch |-> [a \in Assignment |-> Off]]

FolderUnchanged == UNCHANGED <<sharePoint, sync, hour, completed, session>>
QueueUnchanged == UNCHANGED <<queue, processing, task>>

Launched(b) == [a \in Assignment |-> IF a \in Content[b] THEN [pc |-> "waiting"]
                                     ELSE Off]

\* queue_permission_changes: a task is created if none has set the flag yet.
QueueChanges(b) ==
    /\ batch[b].status = "none" /\ "queued" \in Kinds[b]
    /\ batch' = [batch EXCEPT ![b] = [kind |-> "queued", status |-> "pending"]]
    /\ queue' = Append(queue, b)
    /\ IF processing THEN UNCHANGED task
       ELSE LET idle == {p \in Processor : task[p] = "idle"}
            IN idle # {} /\ task' = [task EXCEPT ![CHOOSE p \in idle : TRUE] = "created"]
    /\ UNCHANGED <<processing, op>> /\ FolderUnchanged

\* process_immediate and process_bulk_permissions run in their caller.
RunAtOnce(b, kind) ==
    /\ batch[b].status = "none" /\ kind \in Kinds[b] \ {"queued"}
    /\ batch' = [batch EXCEPT ![b] = [kind |-> kind, status |-> "processing"]]
    /\ op' = [op EXCEPT ![b] = Launched(b)]
    /\ QueueUnchanged /\ FolderUnchanged

\* _process_queue: one turn of the loop.  queue.get() does not wait, as the
\* queue was seen not to be empty in the same step.
TakeBatch(p) ==
    /\ task[p] \in {"created", "loop"}
    /\ queue # <<>>
    /\ processing' = TRUE
    /\ task' = [task EXCEPT ![p] = Head(queue)]
    /\ queue' = Tail(queue)
    /\ batch' = [batch EXCEPT ![Head(queue)].status = "processing"]
    /\ op' = [op EXCEPT ![Head(queue)] = Launched(Head(queue))]
    /\ FolderUnchanged

\* The queue is empty: the loop ends and the flag is reset.
TaskEnds(p) ==
    /\ task[p] \in {"created", "loop"}
    /\ queue = <<>>
    /\ processing' = FALSE
    /\ task' = [task EXCEPT ![p] = "idle"]
    /\ UNCHANGED <<queue, batch, op>> /\ FolderUnchanged

\* process_with_limit.
Admit(b, a) ==
    /\ op[b][a].pc = "waiting"
    /\ Cardinality(RunningIn(b)) < MaxConcurrent
    /\ op' = [op EXCEPT ![b][a] = [pc |-> "begin", attempt |-> 1, hour |-> hour,
                                   todo |-> NoTodo, page |-> {}]]
    /\ UNCHANGED batch /\ QueueUnchanged /\ FolderUnchanged

\* A change of the folder by <<b, a>>: other operations no longer work on
\* what they read.
Disturbed(f, b, a) ==
    [c \in Batch |-> [d \in Assignment |->
        IF <<c, d>> # <<b, a>> /\ f[c][d].pc = "apply"
        THEN [f[c][d] EXCEPT !.page = {}] ELSE f[c][d]]]

-----------------------------------------------------------------------------
\* check_idempotency and mark_operation_complete: the record of a key exists
\* only as a completed one.
Completed(h) == h \in completed
MarkedComplete(h) == completed \cup {h}

\* check_idempotency finds the hour's key completed: nothing is applied, and
\* the operation of a queued batch marks its assignment as synced.
Skip(b, a) ==
    /\ op[b][a].pc = "begin" /\ session = "usable"
    /\ Completed(op[b][a].hour)
    /\ op' = [op EXCEPT ![b][a] = [pc |-> "done"]]
    /\ sync' = IF batch[b].kind = "queued" THEN Marked(a, "synced")
               ELSE sync
    /\ UNCHANGED <<sharePoint, hour, completed, session, batch>>
    /\ QueueUnchanged

\* Breaking the inheritance without copying leaves the folder empty.
\* Whether it does so again on a folder that is broken already is Graph's
\* choice.
Broken(a) == {sharePoint} \cup
    (IF a \in Unique THEN {{}} ELSE {})

\* The folder is found, its inheritance broken if asked for, and its
\* permissions read.
Read(b, a) ==
    /\ op[b][a].pc = "begin" /\ session = "usable"
    /\ ~Completed(op[b][a].hour)
    /\ \E sp \in Broken(a) : \E page \in Pages(sp) : \E last \in ByPrincipal(page) :
          /\ sharePoint' = sp
          /\ op' = [(IF sp = sharePoint THEN op ELSE Disturbed(op, b, a))
                      EXCEPT ![b][a] =
                        [pc |-> "apply", attempt |-> @.attempt, hour |-> @.hour,
                         todo |-> Changes(a, last), page |-> page \ Of(PrincipalOf[a], page)]]
    /\ UNCHANGED <<sync, hour, completed, session, batch>>
    /\ QueueUnchanged

\* Permission i is deleted, or is now the permission of p with role r.
Without(i) == {g \in sharePoint : g.id # i}
With(i, p, r) == Without(i) \cup {[id |-> i, principal |-> p, role |-> r]}

\* One call of _apply_permission_action: the new roles of a permission that
\* still exists, or an invitation by e-mail.  Whether the invitation of a user
\* who has permissions changes one of them, which is now revoked, or makes
\* another one is Graph's choice.
Give(b, a) ==
    /\ op[b][a].pc = "apply"
    /\ \E i \in Id :
          /\ \/ /\ op[b][a].todo.kind = "grant" /\ PrincipalOf[a] \in Users
                /\ \A g \in sharePoint : g.id = i => g.principal = PrincipalOf[a]
             \/ /\ op[b][a].todo.kind = "update" /\ i \in op[b][a].todo.update
                /\ \E g \in sharePoint : g.id = i
          /\ sharePoint' = With(i, PrincipalOf[a], RoleOf[a])
    /\ op' = [Disturbed(op, b, a) EXCEPT ![b][a].todo.kind = "none"]
    /\ UNCHANGED <<sync, hour, completed, session, batch>> /\ QueueUnchanged

\* ... or the revocation of one permission, which comes after it.
Revoke(b, a, i) ==
    /\ op[b][a].pc = "apply" /\ op[b][a].todo.kind = "none"
    /\ i \in op[b][a].todo.revoke
    /\ \E g \in sharePoint : g.id = i
    /\ sharePoint' = Without(i)
    /\ op' = [Disturbed(op, b, a) EXCEPT ![b][a].todo.revoke = @ \ {i}]
    /\ UNCHANGED <<sync, hour, completed, session, batch>> /\ QueueUnchanged

\* All calls succeeded: every assignment of the folder is marked as synced
\* and the key of the hour in which the attempt began as completed.
Finish(b, a) ==
    /\ op[b][a].pc = "apply" /\ session = "usable"
    /\ op[b][a].todo.kind = "none" /\ op[b][a].todo.revoke = {}
    /\ sync' = FolderMarked("synced")
    /\ completed' = MarkedComplete(op[b][a].hour)
    /\ op' = [op EXCEPT ![b][a] = [pc |-> "done"]]
    /\ UNCHANGED <<sharePoint, hour, session, batch>> /\ QueueUnchanged

\* Mutant of Again: one attempt too many.
AgainOnceMore(b, a) == batch[b].kind # "bulk" /\ op[b][a].attempt <= MaxAttempts

\* The bulk processor does not retry: what reaches it is never the
\* GraphAPIError it waits for.
Again(b, a) == batch[b].kind # "bulk" /\ op[b][a].attempt < MaxAttempts

\* Graph or the database refuses a call, in the try of apply_permissions or,
\* while it asks for the hour's key, before it.  An operation of
\* RBACBatchProcessor tries again up to max_retries times, with the key of
\* that hour.
AttemptFails(b, a) ==
    LET last == batch[b].kind = "queued" /\ ~Again(b, a)
    IN /\ IsRunning(b, a)
       /\ \/ session = "usable" /\ sync' = FolderMarked("failed")
          \/ /\ op[b][a].pc = "begin" /\ session = "usable"
             /\ sync' = IF last THEN Marked(a, "failed") ELSE sync
          \/ session = "broken" /\ UNCHANGED sync
       /\ op' = [op EXCEPT ![b][a] =
             IF Again(b, a) THEN [pc |-> "begin", attempt |-> op[b][a].attempt + 1,
                            hour |-> hour, todo |-> NoTodo, page |-> {}]
             ELSE [pc |-> "failed"]]
       /\ UNCHANGED <<sharePoint, hour, completed, session, batch>>
       /\ QueueUnchanged

\* Two operations use the session at once, which SQLAlchemy does not allow:
\* a commit may fail and leave it waiting for a rollback nobody does.
SessionBreaks ==
    /\ session = "usable" /\ Cardinality(RunningOps) > 1
    /\ session' = "broken"
    /\ UNCHANGED <<sharePoint, sync, hour, completed, batch, op>>
    /\ QueueUnchanged

\* update_progress after the last operation, and the return to the loop.
EndBatch(b) ==
    LET done == {a \in Content[b] : op[b][a].pc = "done"} IN
    /\ batch[b].status = "processing"
    /\ \A a \in Content[b] : HasEnded(b, a)
    /\ batch' = [batch EXCEPT ![b].status =
          IF done = Content[b] THEN "completed"
          ELSE IF done = {} THEN "failed" ELSE "partial"]
    /\ task' = [p \in Processor |-> IF task[p] = b THEN "loop" ELSE task[p]]
    /\ UNCHANGED <<queue, processing, op>> /\ FolderUnchanged

NextHour ==
    /\ hour < LastHour
    /\ hour' = hour + 1
    /\ UNCHANGED <<sharePoint, sync, completed, session, batch, op>>
    /\ QueueUnchanged

-----------------------------------------------------------------------------
ApplyPermissions(b, a) ==
    \/ Skip(b, a) \/ Read(b, a) \/ Give(b, a) \/ Finish(b, a)
    \/ \E i \in Id : Revoke(b, a, i)
ProcessOperation(b, a) == ApplyPermissions(b, a) \/ AttemptFails(b, a)
ProcessBatch(b) ==
    \/ \E a \in Assignment : Admit(b, a) \/ ProcessOperation(b, a)
    \/ EndBatch(b)
ProcessQueue(p) == TakeBatch(p) \/ TaskEnds(p)

Next ==
    \/ \E b \in Batch :
          \/ QueueChanges(b)
          \/ \E kind \in Kind : RunAtOnce(b, kind)
          \/ ProcessBatch(b)
    \/ \E p \in Processor : ProcessQueue(p)
    \/ SessionBreaks
    \/ NextHour

\* The event loop runs every task that can run, and every call is answered.
Fairness ==
    /\ \A b \in Batch :
          /\ WF_vars(EndBatch(b))
          /\ \A a \in Assignment : WF_vars(Admit(b, a)) /\ WF_vars(ProcessOperation(b, a))
    /\ \A p \in Processor : WF_vars(TakeBatch(p)) /\ WF_vars(TaskEnds(p))

Spec == Init /\ [][Next]_vars /\ Fairness

-----------------------------------------------------------------------------
\* An operation that completes has taken a permission from every other principal
\* of the page it read, unless somebody else has changed the folder meanwhile:
\* only who had several permissions there keeps any of them.
NoLeftovers ==
    [][\A b \in Batch, a \in Assignment :
          op[b][a].pc = "apply" /\ op'[b][a].pc = "done" =>
             \A g \in op[b][a].page : ~Of(g.principal, op[b][a].page) \subseteq sharePoint]_vars

\* Every batch that is handed over ends, with one or several tasks on the
\* queue, whatever calls fail and even if the session breaks.
BatchesEnd ==
    \A b \in Batch : batch[b].status = "pending" ~> batch[b].status \in Ended
=============================================================================
