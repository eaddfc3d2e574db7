---------------------------- MODULE Provisioning ----------------------------
(***************************************************************************)
(* Provisioning of one order (EM): POST /orders/{id}/provision and the     *)
(* cancellation of a job (api/services/provisioning.py over                *)
(* api/services/orders.py), and the Celery task that does the work         *)
(* (worker/tasks/provisioning.py) behind the daily idempotency record of   *)
(* api/core/idempotency.py.                                                *)
(*                                                                         *)
(* A request, a cancellation and a task each take one step per commit or   *)
(* Redis command that another of them can see.  Graph, Redis and the       *)
(* worker may fail between any two steps; the database answers.  The       *)
(* phases that only create Graph resources are one step: what they have    *)
(* created is in nobody's state before the order is marked.                *)
(*                                                                         *)
(* check_idempotency and the Redis commands of the task are read as their  *)
(* synchronous forms, which is what the task's sessions and client are     *)
(* (README, "Calls that cannot work as written").                          *)
(***************************************************************************)
EXTENDS Naturals

CONSTANTS
    Job,           \* requests to provision the order, one job id each
    LastDay,       \* bound: the last day; a key is valid for one UTC day
    MaxRetries,    \* max_retries of ProvisioningTask
    GraphFails,    \* TRUE: a step of the workflow may raise
    WorkersCrash,  \* TRUE: a worker may die inside the task
    UserCancels    \* the jobs a user may cancel

ASSUME ParameterAssumption ==
    /\ LastDay \in Nat /\ MaxRetries \in Nat
    /\ GraphFails \in BOOLEAN /\ WorkersCrash \in BOOLEAN
    /\ UserCancels \subseteq Job

VARIABLES
    day,      \* the UTC date
    order,    \* order_em.provisioning_status
    job,      \* status in the Redis hash of each job
    request,  \* where trigger_provisioning of each job is
    cancel,   \* where cancel_job of each job is
    task,     \* where provision_order of each job is, its key and retries
    record    \* status of the idempotency record, per key

vars == <<day, order, job, request, cancel, task, record>>

Day == 0..LastDay
OrderStatus == {"pending", "in_progress", "completed", "failed"}
JobStatus == {"none", "pending", "in_progress", "completed", "failed",
              "cancelled"}
RecordStatus == {"none", "pending", "completed", "failed"}
RequestStep == {"none", "checked", "started", "sent", "answered"}
CancelStep == {"none", "revoking", "marking", "failing"}

\* The workflow proper: between the commit of the record and its result.
Workflow == {"validating", "working", "ordered", "reported", "aborting",
             "aborted"}
TaskStep == {"none", "queued", "creating", "failing", "done"} \cup Workflow
Task == [pc : TaskStep, key : Day, retries : 0..MaxRetries]

TypeOK ==
    /\ day \in Day
    /\ order \in OrderStatus
    /\ job \in [Job -> JobStatus]
    /\ request \in [Job -> RequestStep]
    /\ cancel \in [Job -> CancelStep]
    /\ task \in [Job -> Task]
    /\ record \in [Day -> RecordStatus]

-----------------------------------------------------------------------------
Init ==
    /\ day = 0
    /\ order = "pending"
    /\ job = [j \in Job |-> "none"]
    /\ request = [j \in Job |-> "none"]
    /\ cancel = [j \in Job |-> "none"]
    /\ task = [j \in Job |-> [pc |-> "none", key |-> 0, retries |-> 0]]
    /\ record = [d \in Day |-> "none"]

\* can_provision_order, of a contract that is active.
Provisionable == order \in {"pending", "failed"}

\* trigger_provisioning up to the job's hash.
Trigger(j) ==
    /\ request[j] = "none"
    /\ Provisionable
    /\ request' = [request EXCEPT ![j] = "checked"]
    /\ job' = [job EXCEPT ![j] = "pending"]
    /\ UNCHANGED <<day, order, cancel, task, record>>

\* start_provisioning, whatever the status has become since the check.
StartProvisioning(j) ==
    /\ request[j] = "checked"
    /\ request' = [request EXCEPT ![j] = "started"]
    /\ order' = "in_progress"
    /\ UNCHANGED <<day, job, cancel, task, record>>

SendTask(j) ==
    /\ request[j] = "started"
    /\ request' = [request EXCEPT ![j] = "sent"]
    /\ task' = [task EXCEPT ![j].pc = "queued"]
    /\ UNCHANGED <<day, order, job, cancel, record>>

StoreTaskId(j) ==
    /\ request[j] = "sent"
    /\ request' = [request EXCEPT ![j] = "answered"]
    /\ UNCHANGED <<day, order, job, cancel, task, record>>

-----------------------------------------------------------------------------
\* cancel_job reads the hash: a finished job is refused, and the task can be
\* revoked only if its id is already stored.
BeginCancel(j) ==
    /\ j \in UserCancels
    /\ cancel[j] = "none"
    /\ job[j] \in {"pending", "in_progress"}
    /\ cancel' = [cancel EXCEPT
                    ![j] = IF request[j] = "answered" THEN "revoking"
                                                      ELSE "marking"]
    /\ UNCHANGED <<day, order, job, request, task, record>>

\* revoke(terminate=True) kills the task where it is.
Revoke(j) ==
    /\ cancel[j] = "revoking"
    /\ cancel' = [cancel EXCEPT ![j] = "marking"]
    /\ task' = [task EXCEPT ![j].pc = "done"]
    /\ UNCHANGED <<day, order, job, request, record>>

MarkCancelled(j) ==
    /\ cancel[j] = "marking"
    /\ cancel' = [cancel EXCEPT ![j] = "failing"]
    /\ job' = [job EXCEPT ![j] = "cancelled"]
    /\ UNCHANGED <<day, order, request, task, record>>

FailCancelled(j) ==
    /\ cancel[j] = "failing"
    /\ cancel' = [cancel EXCEPT ![j] = "none"]
    /\ order' = "failed"
    /\ UNCHANGED <<day, job, request, task, record>>

-----------------------------------------------------------------------------
At(j, step) == task[j].pc = step
Goto(j, step) == task' = [task EXCEPT ![j].pc = step]
InWorkflow(j) == task[j].pc \in Workflow

\* The task starts and looks its key up.  A completed record is the result, a
\* pending one somebody else's business; after a failed one it goes on.
Take(j) ==
    /\ At(j, "queued")
    /\ task' = [task EXCEPT
                  ![j] = [pc |-> IF record[day] \in {"pending", "completed"}
                                 THEN "done" ELSE "creating",
                          key |-> day, retries |-> task[j].retries]]
    /\ UNCHANGED <<day, order, job, request, cancel, record>>

\* Mutant of CreateRecord: a failed record is taken over.
ReuseFailed(j) ==
    /\ At(j, "creating")
    /\ IF record[task[j].key] \in {"none", "failed"}
       THEN /\ record' = [record EXCEPT ![task[j].key] = "pending"]
            /\ Goto(j, "validating")
       ELSE /\ Goto(j, "failing")
            /\ UNCHANGED record
    /\ UNCHANGED <<day, order, job, request, cancel>>

\* create_idempotent_record: the key is unique, so a record of any status
\* makes the insert raise.
CreateRecord(j) ==
    /\ At(j, "creating")
    /\ IF record[task[j].key] = "none"
       THEN /\ record' = [record EXCEPT ![task[j].key] = "pending"]
            /\ Goto(j, "validating")
       ELSE /\ Goto(j, "failing")
            /\ UNCHANGED record
    /\ UNCHANGED <<day, order, job, request, cancel>>

Validate(j) ==
    /\ At(j, "validating")
    /\ Goto(j, "working")
    /\ job' = [job EXCEPT ![j] = "in_progress"]
    /\ UNCHANGED <<day, order, request, cancel, record>>

\* Team, channels, library, folders, permissions and tab; then the order.
CompleteOrder(j) ==
    /\ At(j, "working")
    /\ Goto(j, "ordered")
    /\ order' = "completed"
    /\ UNCHANGED <<day, job, request, cancel, record>>

CompleteJob(j) ==
    /\ At(j, "ordered")
    /\ Goto(j, "reported")
    /\ job' = [job EXCEPT ![j] = "completed"]
    /\ UNCHANGED <<day, order, request, cancel, record>>

CompleteRecord(j) ==
    /\ At(j, "reported")
    /\ Goto(j, "done")
    /\ record' = [record EXCEPT ![task[j].key] = "completed"]
    /\ UNCHANGED <<day, order, job, request, cancel>>

\* Graph or Redis raises, also after the order was marked completed.
WorkflowFails(j) ==
    /\ GraphFails
    /\ task[j].pc \in {"validating", "working", "ordered"}
    /\ Goto(j, "aborting")
    /\ UNCHANGED <<day, order, job, request, cancel, record>>

FailJob(j) ==
    /\ At(j, "aborting")
    /\ Goto(j, "aborted")
    /\ job' = [job EXCEPT ![j] = "failed"]
    /\ UNCHANGED <<day, order, request, cancel, record>>

\* Redis raises in the handler: the order keeps its status.
HandlerFails(j) ==
    /\ GraphFails
    /\ At(j, "aborting")
    /\ Goto(j, "failing")
    /\ UNCHANGED <<day, order, job, request, cancel, record>>

FailOrder(j) ==
    /\ At(j, "aborted")
    /\ Goto(j, "failing")
    /\ order' = "failed"
    /\ UNCHANGED <<day, job, request, cancel, record>>

\* Mutant of FailTask: one retry more than ProvisioningTask allows.
FailTaskOnceMore(j) ==
    LET t == task[j] IN
    /\ At(j, "failing")
    /\ record' = [record EXCEPT ![t.key] = IF @ = "none" THEN @ ELSE "failed"]
    /\ task' = [task EXCEPT
                  ![j] = [pc |-> IF t.retries <= MaxRetries THEN "queued"
                                                            ELSE "done",
                          key |-> t.key, retries |-> t.retries + 1]]
    /\ UNCHANGED <<day, order, job, request, cancel>>

\* Mutant of FailTask: the retries are not counted.
FailTaskUncounted(j) ==
    LET t == task[j] IN
    /\ At(j, "failing")
    /\ record' = [record EXCEPT ![t.key] = IF @ = "none" THEN @ ELSE "failed"]
    /\ task' = [task EXCEPT ![j].pc = "queued"]
    /\ UNCHANGED <<day, order, job, request, cancel>>

\* The except clause of provision_order marks whatever record the key has by
\* now, and autoretry_for queues the task again.
FailTask(j) ==
    LET t == task[j] IN
    /\ At(j, "failing")
    /\ record' = [record EXCEPT ![t.key] = IF @ = "none" THEN @ ELSE "failed"]
    /\ task' = [task EXCEPT
                  ![j] = IF t.retries < MaxRetries
                         THEN [pc |-> "queued", key |-> t.key,
                               retries |-> t.retries + 1]
                         ELSE [t EXCEPT !.pc = "done"]]
    /\ UNCHANGED <<day, order, job, request, cancel>>

\* The worker dies.  task_acks_late returns the message when the machine is
\* gone; when only the pool's child is, the message is acknowledged.
WorkerDies(j) ==
    /\ WorkersCrash
    /\ task[j].pc \in {"creating", "failing"} \cup Workflow
    /\ Goto(j, "queued") \/ Goto(j, "done")
    /\ UNCHANGED <<day, order, job, request, cancel, record>>

NextDay ==
    /\ day < LastDay
    /\ day' = day + 1
    /\ UNCHANGED <<order, job, request, cancel, task, record>>

Request(j) ==
    \/ Trigger(j) \/ StartProvisioning(j) \/ SendTask(j) \/ StoreTaskId(j)
Cancellation(j) ==
    \/ BeginCancel(j) \/ Revoke(j) \/ MarkCancelled(j) \/ FailCancelled(j)
Work(j) ==
    \/ Take(j) \/ CreateRecord(j) \/ Validate(j) \/ CompleteOrder(j)
    \/ CompleteJob(j) \/ CompleteRecord(j) \/ FailJob(j) \/ FailOrder(j)
    \/ FailTask(j)
Fault(j) == WorkflowFails(j) \/ HandlerFails(j) \/ WorkerDies(j)

Next ==
    \/ \E j \in Job : Request(j) \/ Cancellation(j) \/ Work(j) \/ Fault(j)
    \/ NextDay

Spec == Init /\ [][Next]_vars

\* A request is answered, workers consume the queue, and a task that is
\* delivered again and again does not lose its worker every time.
Fairness ==
    \A j \in Job :
        /\ WF_vars(StartProvisioning(j)) /\ WF_vars(SendTask(j))
        /\ SF_vars(Take(j)) /\ SF_vars(CreateRecord(j)) /\ SF_vars(FailTask(j))
        /\ WF_vars(Work(j))

FairSpec == Spec /\ Fairness

-----------------------------------------------------------------------------
\* Properties.

\* What AtMostOnce calls the phase of a key.
Phase ==
    [d \in Day |->
        IF record[d] = "none" THEN "never"
        ELSE IF \E j \in Job : InWorkflow(j) /\ task[j].key = d
             THEN "running" ELSE "ended"]

Once == INSTANCE AtMostOnce WITH Key <- Day, phase <- Phase

\* Refinement: concurrent requests, retries, redelivered and cancelled tasks
\* never run the workflow of one key twice ("Idempotency mechanism prevents
\* duplicate provisioning operations").
WorkflowOnce == Once!Spec

\* Every task that is queued comes to an end, whatever fails and retries.
TasksEnd == \A j \in Job : At(j, "queued") ~> At(j, "done")

\* What the documents say and the code does not do.

\* "Test idempotency with duplicate provisioning requests", "Test idempotent
\* re-execution of failed provisioning": an order that is being provisioned,
\* once, twice or again after a failure, ends up completed or failed.
OrderSettles == order = "in_progress" ~> order # "in_progress"
=============================================================================
