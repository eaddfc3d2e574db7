--------------------------- MODULE WorkspaceProofs ---------------------------
(***************************************************************************)
(* Theorems about Provisioning, for any number of jobs, days and retries   *)
(* and any mix of faults and cancellations, and about Templates, for any   *)
(* number of requests, names, templates and versions.                      *)
(*                                                                         *)
(* Towards AtMostOnce every step of Provisioning either leaves the         *)
(* workflows as they are, or lets one job enter the workflow of a key that *)
(* has no record, or lets one leave it.                                    *)
(*                                                                         *)
(* The invariant of Templates says who may be writing a template, as far   *)
(* as raced tells, and how much of what a writer loaded still holds.       *)
(***************************************************************************)
EXTENDS Provisioning, Templates, TLAPS, FiniteSetTheorems, WellFoundedInduction

(* Provisioning. *)

USE ParameterAssumption

\* Moving a task to another step keeps its type.
LEMMA GotoType ==
    ASSUME TypeOK, NEW j \in Job, NEW step \in TaskStep
    PROVE  [task EXCEPT ![j].pc = step] \in [Job -> Task]
  BY DEF TypeOK, Task

\* So does the retry that FailTask makes.
LEMMA RetryType ==
    ASSUME TypeOK, NEW j \in Job, FailTask(j)
    PROVE  task' \in [Job -> Task]
<1> DEFINE t == task[j]
<1>1. t \in Task /\ t.retries \in 0..MaxRetries
  BY DEF TypeOK, Task
<1>2. CASE t.retries < MaxRetries
  <2> DEFINE again == [pc |-> "queued", key |-> t.key,
                       retries |-> t.retries + 1]
  <2>1. again \in Task
    BY <1>1, <1>2 DEF Task, TaskStep
  <2>2. task' = [task EXCEPT ![j] = again]
    BY <1>2 DEF FailTask
  <2>3. QED
    BY <2>1, <2>2 DEF TypeOK
<1>3. CASE ~(t.retries < MaxRetries)
  <2>1. [t EXCEPT !.pc = "done"] \in Task
    BY <1>1 DEF Task, TaskStep
  <2>2. task' = [task EXCEPT ![j] = [t EXCEPT !.pc = "done"]]
    BY <1>3 DEF FailTask
  <2>3. QED
    BY <2>1, <2>2 DEF TypeOK
<1>4. QED
  BY <1>2, <1>3

\* And the step to the workflow, or past it when the record says so.
LEMMA TakeType ==
    ASSUME TypeOK, NEW j \in Job, Take(j)
    PROVE  task' \in [Job -> Task]
<1> DEFINE step == IF record[day] \in {"pending", "completed"}
                   THEN "done" ELSE "creating"
           taken == [pc |-> step, key |-> day, retries |-> task[j].retries]
<1>1. day \in Day /\ task[j].retries \in 0..MaxRetries
  BY DEF TypeOK, Task
<1>2. step \in TaskStep
  BY DEF TaskStep
<1>3. taken \in Task
  BY <1>1, <1>2 DEF Task
<1>4. task' = [task EXCEPT ![j] = taken]
  BY DEF Take
<1>5. QED
  BY <1>3, <1>4 DEF TypeOK

\* Every state has the declared types.
THEOREM TypeCorrect == Spec => []TypeOK
<1>1. Init => TypeOK
  BY DEF Init, TypeOK, Day, OrderStatus, JobStatus, RecordStatus, RequestStep,
         CancelStep, TaskStep, Workflow, Task
<1>2. TypeOK /\ [Next]_vars => TypeOK'
  <2> SUFFICES ASSUME TypeOK, [Next]_vars PROVE TypeOK'
    OBVIOUS
  <2>0. /\ {"none", "queued", "creating", "failing", "done"} \subseteq TaskStep
        /\ Workflow \subseteq TaskStep
    BY DEF TaskStep
  <2> USE DEF OrderStatus, JobStatus, RecordStatus, RequestStep, CancelStep
  <2>1. ASSUME NEW j \in Job, Request(j) PROVE TypeOK'
    <3>1. CASE SendTask(j)
      BY <2>0, <3>1, GotoType DEF SendTask, TypeOK
    <3>2. QED
      BY <2>1, <3>1 DEF Request, Trigger, StartProvisioning, StoreTaskId, TypeOK
  <2>2. ASSUME NEW j \in Job, Cancellation(j) PROVE TypeOK'
    <3>1. CASE Revoke(j)
      BY <2>0, <3>1, GotoType DEF Revoke, TypeOK
    <3>2. QED
      BY <2>2, <3>1 DEF Cancellation, BeginCancel, MarkCancelled, FailCancelled,
                        TypeOK
  <2>3. ASSUME NEW j \in Job, Take(j) PROVE TypeOK'
    BY <2>3, TakeType DEF Take, TypeOK
  <2>4. ASSUME NEW j \in Job, CreateRecord(j) PROVE TypeOK'
    BY <2>0, <2>4, GotoType DEF CreateRecord, Goto, TypeOK, Workflow
  <2>5. ASSUME NEW j \in Job, FailTask(j) PROVE TypeOK'
    <3>1. record' \in [Day -> RecordStatus]
      BY <2>5 DEF FailTask, TypeOK
    <3>2. QED
      BY <2>5, <3>1, RetryType DEF FailTask, TypeOK
  <2>6. ASSUME NEW j \in Job,
               \/ Validate(j) \/ CompleteOrder(j) \/ CompleteJob(j)
               \/ CompleteRecord(j) \/ FailJob(j) \/ FailOrder(j)
        PROVE  TypeOK'
    BY <2>0, <2>6, GotoType
       DEF Validate, CompleteOrder, CompleteJob, CompleteRecord, FailJob,
           FailOrder, Goto, TypeOK, Workflow
  <2>7. ASSUME NEW j \in Job, Fault(j) PROVE TypeOK'
    BY <2>0, <2>7, GotoType
       DEF Fault, WorkflowFails, HandlerFails, WorkerDies, Goto, TypeOK, Workflow
  <2>8. CASE NextDay \/ UNCHANGED vars
    BY <2>8 DEF NextDay, vars, Day, TypeOK
  <2>9. QED
    BY <2>1, <2>2, <2>3, <2>4, <2>5, <2>6, <2>7, <2>8 DEF Next, Work
<1>3. QED
  BY <1>1, <1>2, PTL DEF Spec

-----------------------------------------------------------------------------
\* The workflow of a key is run by one job at a time, and only with a record.
OneAtATime ==
    \A j, k \in Job :
        InWorkflow(j) /\ InWorkflow(k) /\ task[j].key = task[k].key => j = k
WorkflowHasRecord ==
    \A j \in Job : InWorkflow(j) => record[task[j].key] # "none"

ExclusionInv == OneAtATime /\ WorkflowHasRecord

\* The jobs other than those in S stay where they are with their keys.
Steady(S) ==
    \A k \in Job \ S :
        /\ InWorkflow(k)' <=> InWorkflow(k)
        /\ InWorkflow(k) => task'[k].key = task[k].key

\* The keys other than those in S have a record exactly if they had one.
KeepRecords(S) ==
    \A d \in Day \ S : record'[d] = "none" <=> record[d] = "none"

Enter(j) ==
    /\ ~InWorkflow(j) /\ InWorkflow(j)'
    /\ task[j].key \in Day /\ task'[j].key = task[j].key
    /\ record[task[j].key] = "none" /\ record'[task[j].key] # "none"
    /\ Steady({j}) /\ KeepRecords({task[j].key})

Leave(j) == InWorkflow(j) /\ ~InWorkflow(j)' /\ Steady({j}) /\ KeepRecords({})

\* Each step is of one of the three kinds.
LEMMA StepKinds ==
    ASSUME TypeOK, WorkflowHasRecord, [Next]_vars
    PROVE  \/ Steady({}) /\ KeepRecords({})
           \/ \E j \in Job : Enter(j) \/ Leave(j)
<1> USE DEF TypeOK, Steady, KeepRecords, InWorkflow
<1>1. ASSUME NEW j \in Job, Request(j)
      PROVE  \/ Steady({}) /\ KeepRecords({})
             \/ Leave(j)
  BY <1>1 DEF Request, Trigger, StartProvisioning, SendTask, StoreTaskId,
              Leave, Task, Workflow
<1>2. ASSUME NEW j \in Job, Cancellation(j)
      PROVE  \/ Steady({}) /\ KeepRecords({})
             \/ Leave(j)
  BY <1>2 DEF Cancellation, BeginCancel, Revoke, MarkCancelled, FailCancelled,
              Leave, Task, Workflow
<1>3. ASSUME NEW j \in Job, Take(j)
      PROVE  Steady({}) /\ KeepRecords({})
  BY <1>3 DEF Take, At, Task, Workflow
<1>4. ASSUME NEW j \in Job, CreateRecord(j)
      PROVE  \/ Steady({}) /\ KeepRecords({})
             \/ Enter(j)
  BY <1>4 DEF CreateRecord, At, Goto, Enter, Task, Workflow
<1>5. ASSUME NEW j \in Job, FailTask(j)
      PROVE  Steady({}) /\ KeepRecords({})
  <2>1. task[j].pc = "failing" /\ task'[j].pc \in {"queued", "done"}
    BY <1>5 DEF FailTask, At, Task
  <2>2. \A k \in Job \ {j} : task'[k] = task[k]
    BY <1>5 DEF FailTask
  <2>3. KeepRecords({})
    BY <1>5 DEF FailTask
  <2>4. QED
    BY <2>1, <2>2, <2>3 DEF Workflow
<1>6. ASSUME NEW j \in Job,
             Validate(j) \/ CompleteOrder(j) \/ CompleteJob(j) \/ FailJob(j)
      PROVE  Steady({}) /\ KeepRecords({})
  <2>1. /\ record' = record
        /\ task[j].pc \in {"validating", "working", "ordered", "aborting"}
        /\ \E step \in {"working", "ordered", "reported", "aborted"} : Goto(j, step)
    BY <1>6 DEF Validate, CompleteOrder, CompleteJob, FailJob, At
  <2>2. PICK step \in {"working", "ordered", "reported", "aborted"} : Goto(j, step)
    BY <2>1
  <2>3. /\ task'[j].pc = step /\ task'[j].key = task[j].key
        /\ \A k \in Job \ {j} : task'[k] = task[k]
    BY <2>2 DEF Goto, Task
  <2>4. QED
    BY <2>1, <2>3 DEF Workflow
<1>7. ASSUME NEW j \in Job, CompleteRecord(j) \/ FailOrder(j)
      PROVE  Leave(j)
  BY <1>7 DEF CompleteRecord, FailOrder, At, Goto, Leave, Task, Workflow,
              WorkflowHasRecord
<1>8. ASSUME NEW j \in Job, Fault(j)
      PROVE  \/ Steady({}) /\ KeepRecords({})
             \/ Leave(j)
  <2>1. CASE WorkflowFails(j)
    BY <2>1 DEF WorkflowFails, Goto, Task, Workflow
  <2>2. CASE HandlerFails(j)
    BY <2>2 DEF HandlerFails, At, Goto, Leave, Task, Workflow
  <2>3. CASE WorkerDies(j)
    <3>1. task'[j].pc \in {"queued", "done"} /\ record' = record
      BY <2>3 DEF WorkerDies, Goto, Task
    <3>2. \A k \in Job \ {j} : task'[k] = task[k]
      BY <2>3 DEF WorkerDies, Goto
    <3>3. QED
      BY <3>1, <3>2 DEF Leave, Workflow
  <2>4. QED
    BY <1>8, <2>1, <2>2, <2>3 DEF Fault
<1>9. CASE NextDay \/ UNCHANGED vars
  BY <1>9 DEF NextDay, vars
<1>10. QED
  BY <1>1, <1>2, <1>3, <1>4, <1>5, <1>6, <1>7, <1>8, <1>9 DEF Next, Work

\* One step keeps the exclusion: a job enters only where nobody has a record.
LEMMA ExclusionStep ==
    ASSUME TypeOK, ExclusionInv, [Next]_vars
    PROVE  ExclusionInv'
<1> USE DEF ExclusionInv, OneAtATime, WorkflowHasRecord
<1>0. \A j \in Job : task[j].key \in Day
  BY DEF TypeOK, Task
<1>1. CASE Steady({}) /\ KeepRecords({})
  BY <1>0, <1>1 DEF Steady, KeepRecords
<1>2. ASSUME NEW j \in Job, Enter(j) PROVE ExclusionInv'
  BY <1>0, <1>2 DEF Enter, Steady, KeepRecords
<1>3. ASSUME NEW j \in Job, Leave(j) PROVE ExclusionInv'
  BY <1>0, <1>3 DEF Leave, Steady, KeepRecords
<1>4. QED
  BY <1>1, <1>2, <1>3, StepKinds

\* No key's workflow is run by two jobs at once.
THEOREM WorkflowExclusive == Spec => []ExclusionInv
<1>1. Init => ExclusionInv
  BY DEF Init, ExclusionInv, OneAtATime, WorkflowHasRecord, InWorkflow, Workflow
<1>2. TypeOK /\ ExclusionInv /\ [Next]_vars => ExclusionInv'
  BY ExclusionStep
<1>3. QED
  BY <1>1, <1>2, TypeCorrect, PTL DEF Spec

-----------------------------------------------------------------------------
\* Every step is a Start, an End or a stutter of AtMostOnce.
LEMMA OnceStep ==
    ASSUME TypeOK, ExclusionInv, [Next]_vars
    PROVE  Once!Next \/ UNCHANGED Phase
<1>0. \A j \in Job : task[j].key \in Day
  BY DEF TypeOK, Task
<1>1. CASE Steady({}) /\ KeepRecords({})
  <2>1. \A d \in Day : /\ record'[d] = "none" <=> record[d] = "none"
                       /\ (\E j \in Job : InWorkflow(j)' /\ task'[j].key = d)
                          <=> \E j \in Job : InWorkflow(j) /\ task[j].key = d
    BY <1>1 DEF Steady, KeepRecords
  <2>2. Phase' = Phase
    BY <2>1 DEF Phase
  <2>3. QED
    BY <2>2
<1>2. ASSUME NEW j \in Job, Enter(j) PROVE Once!Next
  <2> DEFINE d == task[j].key
  <2>1. Phase[d] = "never" /\ Phase'[d] = "running" /\ d \in Day
    BY <1>2 DEF Enter, Phase
  <2>2. \A e \in Day \ {d} :
          /\ record'[e] = "none" <=> record[e] = "none"
          /\ (\E k \in Job : InWorkflow(k)' /\ task'[k].key = e)
             <=> \E k \in Job : InWorkflow(k) /\ task[k].key = e
    BY <1>2 DEF Enter, Steady, KeepRecords
  <2>3. \A e \in Day \ {d} : Phase'[e] = Phase[e]
    BY <2>2 DEF Phase
  <2>4. Phase' = [Phase EXCEPT ![d] = "running"]
    BY <2>1, <2>3 DEF Phase
  <2>5. QED
    BY <2>1, <2>4 DEF Once!Next, Once!Start
<1>3. ASSUME NEW j \in Job, Leave(j) PROVE Once!Next
  <2> DEFINE d == task[j].key
  <2>1. d \in Day /\ Phase[d] = "running"
    BY <1>0, <1>3 DEF Leave, Phase, ExclusionInv, WorkflowHasRecord
  <2>2. ~\E k \in Job : InWorkflow(k)' /\ task'[k].key = d
    BY <1>3 DEF Leave, Steady, ExclusionInv, OneAtATime
  <2>3. Phase'[d] = "ended"
    BY <1>3, <2>1, <2>2 DEF Leave, KeepRecords, Phase, ExclusionInv,
                            WorkflowHasRecord
  <2>4. \A e \in Day \ {d} :
          /\ record'[e] = "none" <=> record[e] = "none"
          /\ (\E k \in Job : InWorkflow(k)' /\ task'[k].key = e)
             <=> \E k \in Job : InWorkflow(k) /\ task[k].key = e
    BY <1>3 DEF Leave, Steady, KeepRecords
  <2>5. \A e \in Day \ {d} : Phase'[e] = Phase[e]
    BY <2>4 DEF Phase
  <2>6. Phase' = [Phase EXCEPT ![d] = "ended"]
    BY <2>1, <2>3, <2>5 DEF Phase
  <2>7. QED
    BY <2>1, <2>6 DEF Once!Next, Once!End
<1>4. QED
  BY <1>1, <1>2, <1>3, StepKinds DEF ExclusionInv

\* Refinement: Provisioning implements AtMostOnce, so the workflow of a key
\* runs at most once whatever is requested, retried, redelivered or cancelled.
THEOREM WorkflowRunsOnce == Spec => WorkflowOnce
<1>1. Init => Once!Init
  BY DEF Init, Once!Init, Phase
<1>2. TypeOK /\ ExclusionInv /\ [Next]_vars => [Once!Next]_Phase
  BY OnceStep
<1>3. QED
  BY <1>1, <1>2, TypeCorrect, WorkflowExclusive, PTL
     DEF Spec, WorkflowOnce, Once!Spec

-----------------------------------------------------------------------------
(* Templates. *)

HIDE ParameterAssumption

\* Templates and versions are numbered in the order they are inserted.
InsertedInOrder ==
    /\ Existing = 1..Cardinality(Existing)
    /\ Taken = 1..Cardinality(Taken)

\* A request that will write a template's own columns.
Writer(s, t) == req[s].op \in {"update", "publish", "roll back"} /\ req[s].template = t

\* What a request refers to exists, and what it loaded as published is published.
RefersTo(s) ==
    /\ ~Busy(s, "idle") =>
         /\ req[s].template \in Existing
         /\ req[s].loaded.status = "published" => Published(req[s].template)
    /\ Busy(s, "roll back") => req[s].target \in VersionsOf(req[s].template)
    /\ "latest" \in DOMAIN req[s] =>
         /\ req[s].op \in {"publish", "roll back"}
         /\ req[s].latest \in Taken \/ (Busy(s, "publish") /\ req[s].latest = NoVersion)

\* The writers of a template are as many as raced says.
Alone(s, t) ==
    /\ raced[t] = "none" => \A r \in Session : Writer(r, t) => r = s
    /\ raced[t] # "edit" /\ Busy(s, "update") =>
         ~Published(t) /\ \A r \in Session : Writer(r, t) => r = s

\* What a writer loaded still holds: the name unless an update raced it, and the
\* rest of what is published unless anything did.
UpToDate(s, t) ==
    /\ raced[t] # "edit" => req[s].loaded.name = templates[t].name
    /\ raced[t] = "none" =>
         /\ req[s].loaded.version_number = templates[t].version_number
         /\ req[s].loaded.content = templates[t].content

\* The inductive invariant.
TemplatesInv ==
    /\ InsertedInOrder
    /\ \A s \in Session : RefersTo(s)
    /\ \A s \in Session, t \in Id : Writer(s, t) => Alone(s, t) /\ UpToDate(s, t)
    /\ PublishedIsSnapshot
    /\ OneCurrent

\* A version's parent is an earlier version of its template, or there is none.
ParentsEarlier ==
    \A v \in Taken :
      \/ versions[v].parent = NoVersion
      \/ versions[v].parent < v /\ versions[v].parent \in VersionsOf(versions[v].template)

\* No template has two versions of one number.
NumbersDiffer ==
    \A v, w \in Taken : /\ versions[v].template = versions[w].template
                        /\ versions[v].version = versions[w].version
                        => v = w

\* The latest version that a request has read is one of its template.
LatestIsOwn(r) ==
    "latest" \in DOMAIN r => r.latest = NoVersion \/ r.latest \in VersionsOf(r.template)

\* What holds of the history of every template.
HistoryInv ==
    /\ ParentsEarlier /\ NumbersDiffer
    /\ \A s \in Session : LatestIsOwn(req[s])

\* No version is written again and no publication is taken back.
HistoryKept ==
    /\ \A v \in Taken : versions'[v] = versions[v]
    /\ \A t \in Existing : Published(t) => Published(t)'

\* A set of numbers that is not empty has a least member.
LEMMA LeastNumber ==
    ASSUME NEW S, S \subseteq Nat, S # {}
    PROVE  \E n \in S : \A m \in S : n <= m
<1>1. IsWellFoundedOn(OpToRel(<, Nat), Nat)
  BY NatLessThanWellFounded
<1>2. PICK n \in S : \A m \in S : <<m, n>> \notin OpToRel(<, Nat)
  BY <1>1, WFMin
<1>3. \A m \in S : ~(m < n)
  BY <1>2 DEF OpToRel
<1>4. QED
  BY <1>3

-----------------------------------------------------------------------------
\* Lemmas on rows.

\* What the columns of the two tables hold.
TemplateRows == [Id -> FolderTemplate \cup {NoTemplate}]
VersionRows == [Version -> Snapshot \cup {NoSnapshot}]

\* No template has the number 0.
LEMMA IdIsPositive == 0 \notin Id
  BY TemplatesAssumption DEF Id

\* A row's columns have their types, and a draft is not current.
LEMMA RowColumns ==
    ASSUME NEW row \in FolderTemplate
    PROVE  /\ row.status \in {"draft", "published"} /\ row.name \in Name
           /\ row.version \in Nat \ {0} /\ row.version_number \in Number
           /\ row.content \in Content /\ row.is_current \in BOOLEAN
           /\ row.is_active \in BOOLEAN
           /\ row.status = "draft" => ~row.is_current
           /\ row.status = "published" => row.parent_version \in Version
  BY DEF FolderTemplate

\* Name, content and is_active may be written in any row.
LEMMA RowWritten ==
    ASSUME NEW row \in FolderTemplate, NEW name \in Name, NEW content \in Content,
           NEW active \in BOOLEAN
    PROVE  [row EXCEPT !.name = name, !.content = content, !.is_active = active]
             \in FolderTemplate
  BY DEF FolderTemplate

\* A published row may be current or not.
LEMMA RowNotCurrent ==
    ASSUME NEW row \in FolderTemplate
    PROVE  [row EXCEPT !.is_current = FALSE] \in FolderTemplate
  BY DEF FolderTemplate

\* What Commit writes makes any row a published one.
LEMMA RowPublished ==
    ASSUME NEW row \in FolderTemplate, NEW number \in Number, NEW v \in Version,
           NEW current \in BOOLEAN, NEW content \in Content
    PROVE  [row EXCEPT !.status = "published", !.version_number = number,
                       !.parent_version = v, !.is_current = current,
                       !.content = content] \in FolderTemplate
  BY DEF FolderTemplate

\* A new draft is a row.
LEMMA DraftTyped ==
    ASSUME NEW name \in Name, NEW version \in Nat \ {0}, NEW number \in Number,
           NEW content \in Content
    PROVE  DraftRow(name, version, number, content) \in FolderTemplate
  BY DEF DraftRow, NewRow, FolderTemplate

\* A template exists when its row is one.
LEMMA ExistingRow ==
    ASSUME templates \in TemplateRows, NEW t \in Id
    PROVE  /\ t \in Existing <=> templates[t] \in FolderTemplate
           /\ t \notin Existing <=> templates[t] = NoTemplate
<1>1. NoTemplate.status = "none"
  BY DEF NoTemplate
<1>2. \A row \in FolderTemplate : row.status # "none"
  BY RowColumns
<1>3. templates[t] \in FolderTemplate \cup {NoTemplate}
  BY DEF TemplateRows
<1>4. QED
  BY <1>1, <1>2, <1>3 DEF Existing

\* A version is taken when its row is a snapshot of a template.
LEMMA TakenRow ==
    ASSUME versions \in VersionRows, NEW v \in Version
    PROVE  v \in Taken <=> versions[v] \in Snapshot
<1>1. NoSnapshot.template = 0 /\ NoSnapshot \notin Snapshot
  BY TemplatesAssumption DEF NoSnapshot, Snapshot, Id
<1>2. \A row \in Snapshot : row.template # 0
  BY TemplatesAssumption DEF Snapshot, Id
<1>3. versions[v] \in Snapshot \cup {NoSnapshot}
  BY DEF VersionRows
<1>4. QED
  BY <1>1, <1>2, <1>3 DEF Taken

\* The next number of a table is beyond those in it.
LEMMA NextId ==
    ASSUME NEW N \in Nat, NEW S, S = 1..Cardinality(S), S \subseteq 1..N,
           Cardinality(S) + 1 \in 1..N
    PROVE  /\ Cardinality(S) + 1 \notin S
           /\ LET T == S \cup {Cardinality(S) + 1}
              IN  T = 1..Cardinality(T)
<1>1. IsFiniteSet(S) /\ Cardinality(S) \in Nat
  <2>1. IsFiniteSet(1..N)
    BY FS_Interval
  <2>2. QED
    BY <2>1, FS_Subset, FS_CardinalityType
<1> DEFINE n == Cardinality(S)
<1>2. n \in Nat /\ S = 1..n
  BY <1>1
<1> HIDE DEF n
<1>3. n + 1 \notin S /\ S \cup {n + 1} = 1..(n + 1)
  BY <1>2
<1>4. Cardinality(1..(n + 1)) = n + 1
  BY <1>2, FS_Interval
<1>5. QED
  BY <1>3, <1>4 DEF n

\* A set of version numbers that is not empty has a last one.
LEMMA LastExists ==
    ASSUME NEW S, S \subseteq Version, S # {}
    PROVE  Last(S) \in S
<1> DEFINE Above == {n \in Nat : \A w \in S : w <= n}
<1>1. MaxVersions \in Above
  BY TemplatesAssumption DEF Version
<1>2. PICK m \in Above : \A n \in Above : m <= n
  <2>1. Above \subseteq Nat /\ Above # {}
    BY <1>1
  <2> HIDE DEF Above
  <2>2. QED
    BY <2>1, LeastNumber
<1>3. m \in S
  <2>1. \A x \in S : x \in Nat /\ x >= 1
    BY TemplatesAssumption DEF Version
  <2>2. SUFFICES ASSUME m \notin S PROVE FALSE
    OBVIOUS
  <2>3. m \in Nat /\ m >= 1
    <3>1. PICK w \in S : TRUE
      OBVIOUS
    <3>2. QED
      BY <1>2, <2>1, <3>1
  <2>4. \A x \in S : x <= m - 1
    BY <1>2, <2>1, <2>2, <2>3
  <2>5. QED
    BY <1>2, <2>3, <2>4
<1>4. \A w \in S : w <= m
  BY <1>2
<1>5. QED
  BY <1>3, <1>4 DEF Last

-----------------------------------------------------------------------------
\* Lemmas on numbers and requests.

\* The number after a number is a number.
LEMMA IncrementTyped ==
    ASSUME NEW number \in Number, NEW type \in VersionType
    PROVE  Increment(number, type) \in Number
<1>1. number[1] \in Nat /\ number[2] \in Nat /\ number[3] \in Nat
  BY DEF Number
<1>2. \A a, b, c \in Nat : <<a, b, c>> \in Number
  BY DEF Number
<1>3. CASE type = "major"
  BY <1>1, <1>2, <1>3 DEF Increment
<1>4. CASE type = "minor"
  BY <1>1, <1>2, <1>4 DEF Increment
<1>5. CASE type = "patch"
  BY <1>1, <1>2, <1>5 DEF Increment
<1>6. QED
  BY <1>3, <1>4, <1>5 DEF VersionType

\* The number of the version after the latest, or the first one.
LEMMA NextNumberTyped ==
    ASSUME versions \in VersionRows, NEW latest, latest \in Taken \/ latest = NoVersion,
           NEW type \in VersionType
    PROVE  NextNumber(latest, type) \in Number
<1>1. CASE latest = NoVersion
  BY <1>1 DEF NextNumber, First, Number
<1>2. CASE latest # NoVersion
  <2>1. latest \in Version /\ latest \in Taken
    BY <1>2 DEF Taken
  <2>2. versions[latest].version \in Number
    BY <2>1, TakenRow DEF Snapshot
  <2>3. QED
    BY <1>2, <2>2, IncrementTyped DEF NextNumber
<1>3. QED
  BY <1>1, <1>2

\* What a request holds.
LEMMA RequestColumns ==
    ASSUME TemplatesTypeOK, NEW s \in Session
    PROVE  /\ ~Busy(s, "idle") => /\ req[s] \in TemplateRequest
                                  /\ req[s].op \in Operation /\ req[s].template \in Id
                                  /\ req[s].loaded \in FolderTemplate
                                  /\ req[s].target \in 0..MaxVersions
           /\ Busy(s, "idle") => req[s] = Idle
<1>1. req[s] \in TemplateRequest \cup {Idle}
  BY DEF TemplatesTypeOK
<1>2. Idle.op = "idle"
  BY DEF Idle
<1>3. ASSUME NEW r \in TemplateRequest
      PROVE  /\ r.op \in Operation /\ r.template \in Id
             /\ r.loaded \in FolderTemplate /\ r.target \in 0..MaxVersions
  <2> HIDE DEF FolderTemplate
  <2>1. QED
    BY <1>3 DEF TemplateRequest, Operation
<1>4. QED
  BY <1>1, <1>2, <1>3 DEF Busy, Operation

\* A request that has ended is idle and has loaded nothing.
LEMMA IdleIsQuiet ==
    /\ Idle.op = "idle" /\ "latest" \notin DOMAIN Idle
    /\ Idle.op \notin {"update", "publish", "roll back"}
  BY DEF Idle

\* The requests after one has ended.
LEMMA Ended ==
    ASSUME TemplatesTypeOK, NEW s \in Session, Done(s)
    PROVE  /\ req' \in [Session -> TemplateRequest \cup {Idle}]
           /\ req'[s] = Idle
           /\ \A r \in Session \ {s} : req'[r] = req[r]
  BY DEF TemplatesTypeOK, Done

\* An idle request refers to nothing, whatever the tables.
LEMMA IdleRefers ==
    ASSUME NEW s \in Session, req'[s] = Idle
    PROVE  RefersTo(s)' /\ \A t \in Id : ~Writer(s, t)'
  BY IdleIsQuiet DEF RefersTo, Busy, Writer

\* The writers of a template are seen when another request loads it.
LEMMA WritingSeen ==
    ASSUME NEW t \in Id, NEW s \in Session, Writer(s, t)
    PROVE  req[s].op \in Writing(t)
  BY DEF Writing, Writer, On, Busy, Deactivating

\* The types of the variables.
LEMMA RowsTyped ==
    ASSUME TemplatesTypeOK
    PROVE  templates \in TemplateRows /\ versions \in VersionRows
  BY DEF TemplatesTypeOK, TemplateRows, VersionRows

-----------------------------------------------------------------------------
\* Steps that write no version and no flag.

\* What such a step must leave alone: of the templates that exist the status, flag,
\* number and version, and of those that are published or being written the rest.
LEMMA QuietKeeps ==
    ASSUME TemplatesTypeOK, TemplatesInv, versions' = versions, raced' = raced,
           \A s \in Session : req'[s] = req[s] \/ req'[s] = Idle,
           InsertedInOrder',
           \A t \in Existing :
             /\ t \in Existing'
             /\ templates'[t].status = templates[t].status
             /\ templates'[t].is_current = templates[t].is_current
             /\ templates'[t].version_number = templates[t].version_number
             /\ templates'[t].parent_version = templates[t].parent_version
             /\ Published(t) \/ (\E s \in Session : Writer(s, t)') =>
                  /\ raced[t] # "edit" => templates'[t].name = templates[t].name
                  /\ raced[t] = "none" => templates'[t].content = templates[t].content,
           \A t \in Existing' \ Existing :
             templates'[t].status = "draft" /\ ~templates'[t].is_current
    PROVE  TemplatesInv'
<1>1. UNCHANGED Taken /\ \A t \in Id : UNCHANGED VersionsOf(t)
  BY DEF Taken, VersionsOf
<1>2. \A t \in Existing : Published(t)' <=> Published(t)
  BY DEF Published
<1>3. ASSUME NEW s \in Session PROVE RefersTo(s)'
  <2>1. CASE req'[s] = Idle
    BY <2>1, IdleRefers
  <2>2. CASE req'[s] = req[s]
    <3>1. RefersTo(s)
      BY DEF TemplatesInv
    <3>2. ~Busy(s, "idle") => req[s].template \in Id
      BY RequestColumns
    <3>3. QED
      BY <1>1, <1>2, <2>2, <3>1, <3>2 DEF RefersTo, Busy, Operation
  <2>3. QED
    BY <2>1, <2>2
<1>4. ASSUME NEW s \in Session, NEW t \in Id, Writer(s, t)'
      PROVE  Alone(s, t)' /\ UpToDate(s, t)'
  <2>1. req'[s] = req[s] /\ Writer(s, t)
    BY <1>4, IdleIsQuiet DEF Writer
  <2>2. \A r \in Session : Writer(r, t)' => Writer(r, t)
    BY IdleIsQuiet DEF Writer
  <2>3. Alone(s, t) /\ UpToDate(s, t) /\ RefersTo(s)
    BY <2>1 DEF TemplatesInv
  <2>4. t \in Existing
    BY <2>1, <2>3 DEF RefersTo, Writer, Busy
  <2>5. Alone(s, t)'
    BY <1>2, <2>1, <2>2, <2>3, <2>4 DEF Alone, Busy
  <2>6. UpToDate(s, t)'
    BY <1>4, <2>1, <2>3, <2>4 DEF UpToDate
  <2>7. QED
    BY <2>5, <2>6
<1>5. PublishedIsSnapshot'
  <2> SUFFICES ASSUME NEW t \in Existing', Published(t)', raced'[t] = "none"
               PROVE  LET v == versions'[templates'[t].parent_version]
                      IN  /\ v.template = t
                          /\ v.version = templates'[t].version_number
                          /\ v.content = templates'[t].content
    BY DEF PublishedIsSnapshot
  <2>1. t \in Existing /\ Published(t)
    BY <1>2 DEF Published
  <2>2. PublishedIsSnapshot
    BY DEF TemplatesInv
  <2>3. QED
    BY <2>1, <2>2 DEF PublishedIsSnapshot
<1>6. OneCurrent'
  <2> SUFFICES ASSUME NEW t \in Existing', NEW u \in Existing',
                      templates'[t].is_current, templates'[u].is_current,
                      templates'[t].name = templates'[u].name,
                      raced'[t] # "edit", raced'[u] # "edit"
               PROVE  t = u
    BY DEF OneCurrent
  <2>1. /\ t \in Existing /\ templates[t].is_current
        /\ u \in Existing /\ templates[u].is_current
    OBVIOUS
  <2>2. \A x \in Existing : templates[x].is_current => Published(x)
    <3>1. \A x \in Existing : x \in Id /\ templates[x] \in FolderTemplate
      BY RowsTyped, ExistingRow DEF Existing
    <3>2. QED
      BY <3>1, RowColumns DEF Published
  <2>3. templates[t].name = templates[u].name
    BY <2>1, <2>2
  <2>4. QED
    BY <2>1, <2>3 DEF TemplatesInv, OneCurrent
<1>7. QED
  BY <1>3, <1>4, <1>5, <1>6 DEF TemplatesInv

\* When no row is added the templates that exist stay.
LEMMA SameRows ==
    ASSUME TemplatesInv, templates' \in TemplateRows, versions' = versions,
           \A t \in Id : templates'[t].status = templates[t].status
    PROVE  Existing' = Existing /\ InsertedInOrder'
<1>1. Existing' = Existing /\ Taken' = Taken
  BY DEF Existing, Taken
<1>2. QED
  BY <1>1 DEF TemplatesInv, InsertedInOrder

\* A request that ends without a write keeps the invariant.
LEMMA FailsKeeps ==
    ASSUME TemplatesTypeOK, TemplatesInv, NEW s \in Session, Fails(s)
    PROVE  TemplatesTypeOK' /\ TemplatesInv'
<1>1. Done(s) /\ UNCHANGED <<templates, versions, raced>>
  BY DEF Fails
<1>2. TemplatesTypeOK'
  BY <1>1, Ended DEF TemplatesTypeOK
<1>3. \A r \in Session : req'[r] = req[r] \/ req'[r] = Idle
  BY <1>1, Ended
<1>4. Existing' = Existing /\ InsertedInOrder'
  BY <1>1 DEF Existing, Taken, TemplatesInv, InsertedInOrder
<1>5. QED
  BY <1>1, <1>2, <1>3, <1>4, QuietKeeps

\* The row that a request works on.
LEMMA RowOf ==
    ASSUME TemplatesTypeOK, TemplatesInv, NEW s \in Session, ~Busy(s, "idle")
    PROVE  /\ req[s].template \in Id /\ req[s].template \in Existing
           /\ templates[req[s].template] \in FolderTemplate
           /\ req[s].loaded \in FolderTemplate
<1>1. req[s].template \in Existing
  BY DEF TemplatesInv, RefersTo
<1>2. QED
  BY <1>1, RequestColumns, RowsTyped, ExistingRow

\* An update writes a draft, unless it was overtaken.
LEMMA UpdatedKeeps ==
    ASSUME TemplatesTypeOK, TemplatesInv, NEW s \in Session, NEW t \in Id,
           t = req[s].template, NEW name \in Name,
           NEW content \in Content, NEW active \in BOOLEAN,
           Updated(s, name, content, active)
    PROVE  TemplatesTypeOK' /\ TemplatesInv'
<1> DEFINE loaded == req[s].loaded
           row == templates[t]
           name2 == Written(loaded.name, name, row.name)
           content2 == Written(loaded.content, content, row.content)
           active2 == Written(loaded.is_active, active, row.is_active)
           new == [row EXCEPT !.name = name2, !.content = content2,
                              !.is_active = active2]
<1>1. Busy(s, "update") /\ Done(s) /\ UNCHANGED <<versions, raced>>
  BY DEF Updated
<1>2. t \in Id /\ t \in Existing /\ row \in FolderTemplate /\ loaded \in FolderTemplate
  BY <1>1, RowOf DEF Busy
<1>3. name2 \in Name /\ content2 \in Content /\ active2 \in BOOLEAN
  BY <1>2, RowColumns DEF Written
<1>4. templates' = [templates EXCEPT ![t] = new]
  <2>1. templates' = [templates EXCEPT ![t].name = name2, ![t].content = content2,
                                       ![t].is_active = active2]
    BY DEF Updated
  <2> HIDE DEF name2, content2, active2
  <2>2. templates \in TemplateRows
    BY RowsTyped
  <2>3. QED
    BY <1>2, <2>1, <2>2 DEF TemplateRows
<1>5. new \in FolderTemplate
  BY <1>2, <1>3, RowWritten
<1>6. /\ new.status = row.status /\ new.is_current = row.is_current
      /\ new.version_number = row.version_number
      /\ new.parent_version = row.parent_version
  OBVIOUS
<1> HIDE DEF new
<1>7. templates' \in TemplateRows /\ templates'[t] = new
      /\ \A u \in Id \ {t} : templates'[u] = templates[u]
  BY <1>2, <1>4, <1>5, RowsTyped DEF TemplateRows
<1>8. TemplatesTypeOK'
  BY <1>1, <1>7, Ended DEF TemplatesTypeOK, TemplateRows
<1>9. \A u \in Id : templates'[u].status = templates[u].status
  BY <1>6, <1>7
<1>10. Existing' = Existing /\ InsertedInOrder'
  BY <1>1, <1>7, <1>9, SameRows
<1>11. \A r \in Session : req'[r] = req[r] \/ req'[r] = Idle
  BY <1>1, Ended
<1>12. raced[t] # "edit" => ~Published(t) /\ \A r \in Session : ~Writer(r, t)'
  <2>1. Writer(s, t)
    BY <1>1 DEF Writer, Busy
  <2>2. Alone(s, t)
    BY <1>2, <2>1 DEF TemplatesInv
  <2>3. \A r \in Session : Writer(r, t)' => r # s /\ Writer(r, t)
    <3>1. ~Writer(s, t)'
      BY <1>1, Ended, IdleRefers
    <3>2. QED
      BY <1>1, <3>1, Ended DEF Writer
  <2>4. QED
    BY <1>1, <2>2, <2>3 DEF Alone
<1>13. ASSUME NEW u \in Existing
       PROVE  /\ u \in Existing'
              /\ templates'[u].status = templates[u].status
              /\ templates'[u].is_current = templates[u].is_current
              /\ templates'[u].version_number = templates[u].version_number
              /\ templates'[u].parent_version = templates[u].parent_version
              /\ Published(u) \/ (\E r \in Session : Writer(r, u)') =>
                   /\ raced[u] # "edit" => templates'[u].name = templates[u].name
                   /\ raced[u] = "none" => templates'[u].content = templates[u].content
  <2>1. CASE u = t
    BY <1>6, <1>7, <1>10, <1>12, <2>1
  <2>2. CASE u # t
    BY <1>7, <1>10, <2>2 DEF Existing
  <2>3. QED
    BY <2>1, <2>2
<1> HIDE DEF loaded, row, name2, content2, active2
<1>14. QED
  BY <1>1, <1>8, <1>10, <1>11, <1>13, QuietKeeps

\* Clearing is_active is neither here nor there.
LEMMA DeletedKeeps ==
    ASSUME TemplatesTypeOK, TemplatesInv, NEW s \in Session, NEW t \in Id,
           t = req[s].template, Deleted(s)
    PROVE  TemplatesTypeOK' /\ TemplatesInv'
<1> DEFINE row == templates[t]
           new == [row EXCEPT !.is_active = FALSE]
<1>1. Busy(s, "delete") /\ Done(s) /\ UNCHANGED <<versions, raced>>
      /\ templates' = [templates EXCEPT ![t].is_active = FALSE]
  BY DEF Deleted
<1>2. t \in Id /\ t \in Existing /\ row \in FolderTemplate
  BY <1>1, RowOf DEF Busy
<1>3. new \in FolderTemplate
  BY <1>2 DEF FolderTemplate
<1>4. /\ new.status = row.status /\ new.is_current = row.is_current
      /\ new.version_number = row.version_number
      /\ new.parent_version = row.parent_version
      /\ new.name = row.name /\ new.content = row.content
  OBVIOUS
<1>5. templates' = [templates EXCEPT ![t] = new]
  BY <1>1
<1> HIDE DEF new
<1>6. templates' \in TemplateRows /\ templates'[t] = new
      /\ \A u \in Id \ {t} : templates'[u] = templates[u]
  BY <1>2, <1>3, <1>5, RowsTyped DEF TemplateRows
<1>7. TemplatesTypeOK'
  BY <1>1, <1>6, Ended DEF TemplatesTypeOK, TemplateRows
<1>8. \A u \in Id : templates'[u].status = templates[u].status
  BY <1>4, <1>6
<1>9. Existing' = Existing /\ InsertedInOrder'
  BY <1>1, <1>6, <1>8, SameRows
<1>10. \A r \in Session : req'[r] = req[r] \/ req'[r] = Idle
  BY <1>1, Ended
<1>11. QED
  BY <1>1, <1>4, <1>6, <1>7, <1>9, <1>10, QuietKeeps DEF Existing

\* A new draft is one row more, the next.
LEMMA DraftInserted ==
    ASSUME TemplatesTypeOK, TemplatesInv, versions' = versions, NEW rows \in TemplateRows,
           \A u \in Id : rows[u].status = templates[u].status,
           NEW name \in Name, NEW version \in Nat \ {0}, NEW number \in Number,
           NEW content \in Content, Draft(rows, name, version, number, content)
    PROVE  /\ templates' \in TemplateRows /\ InsertedInOrder'
           /\ \A u \in Existing : u \in Existing' /\ templates'[u] = rows[u]
           /\ \A u \in Existing' \ Existing :
                templates'[u].status = "draft" /\ ~templates'[u].is_current
<1> DEFINE n == Cardinality(Existing) + 1
           new == DraftRow(name, version, number, content)
<1>1. n \in Id /\ templates' = [rows EXCEPT ![n] = new]
  BY DEF Draft
<1>2. Existing = 1..Cardinality(Existing) /\ Existing \subseteq 1..MaxTemplates
  BY DEF TemplatesInv, InsertedInOrder, Existing, Id
<1>3. /\ n \notin Existing
      /\ Existing \cup {n} = 1..Cardinality(Existing \cup {n})
  <2>1. n \in 1..MaxTemplates
    BY <1>1 DEF Id
  <2>2. QED
    BY <1>2, <2>1, NextId, TemplatesAssumption
<1>4. new \in FolderTemplate /\ new.status = "draft" /\ ~new.is_current
  BY DraftTyped DEF DraftRow, NewRow
<1> HIDE DEF n, new
<1>5. templates' \in TemplateRows /\ templates'[n] = new
      /\ \A u \in Id \ {n} : templates'[u] = rows[u]
  BY <1>1, <1>4 DEF TemplateRows
<1>6. Existing' = Existing \cup {n}
  BY <1>1, <1>4, <1>5 DEF Existing
<1>7. InsertedInOrder'
  <2>1. Taken' = Taken
    BY DEF Taken
  <2>2. Taken = 1..Cardinality(Taken)
    BY DEF TemplatesInv, InsertedInOrder
  <2>3. QED
    BY <1>3, <1>6, <2>1, <2>2 DEF InsertedInOrder
<1>8. \A u \in Existing : u \in Id \ {n}
  BY <1>3 DEF Existing
<1>9. QED
  BY <1>4, <1>5, <1>6, <1>7, <1>8

\* A new template is a draft.
LEMMA CreateKeeps ==
    ASSUME TemplatesTypeOK, TemplatesInv, NEW name \in Name, NEW content \in Content,
           CreateTemplate(name, content)
    PROVE  TemplatesTypeOK' /\ TemplatesInv'
<1>1. UNCHANGED <<versions, req, raced>> /\ Draft(templates, name, 1, First, content)
  BY DEF CreateTemplate
<1>2. templates \in TemplateRows /\ First \in Number /\ 1 \in Nat \ {0}
  BY RowsTyped DEF First, Number
<1>3. /\ templates' \in TemplateRows /\ InsertedInOrder'
      /\ \A u \in Existing : u \in Existing' /\ templates'[u] = templates[u]
      /\ \A u \in Existing' \ Existing :
           templates'[u].status = "draft" /\ ~templates'[u].is_current
  BY <1>1, <1>2, DraftInserted
<1>4. TemplatesTypeOK'
  BY <1>1, <1>3 DEF TemplatesTypeOK, TemplateRows
<1>5. QED
  BY <1>1, <1>3, <1>4, QuietKeeps

\* So is a copy of a template, of which only is_active is cleared.
LEMMA CopiedKeeps ==
    ASSUME TemplatesTypeOK, TemplatesInv, NEW s \in Session, NEW t \in Id,
           t = req[s].template, Copied(s)
    PROVE  TemplatesTypeOK' /\ TemplatesInv'
<1> DEFINE source == req[s].loaded
           row == templates[t]
           active == Written(source.is_active, FALSE, row.is_active)
           new == [row EXCEPT !.is_active = active]
           rows == [templates EXCEPT ![t] = new]
           number == <<source.version + 1, 0, 0>>
<1>1. Busy(s, "copy") /\ Done(s) /\ UNCHANGED <<versions, raced>>
      /\ Draft(Deactivated(s), source.name, source.version + 1, number, source.content)
  BY DEF Copied
<1>2. t \in Existing /\ row \in FolderTemplate /\ source \in FolderTemplate
  BY <1>1, RowOf DEF Busy
<1>3. /\ source.name \in Name /\ source.content \in Content
      /\ source.version + 1 \in Nat \ {0} /\ number \in Number
  BY <1>2, RowColumns DEF Number
<1>4. new \in FolderTemplate
  <2>1. active \in BOOLEAN
    BY <1>2, RowColumns DEF Written
  <2> HIDE DEF active
  <2>2. QED
    BY <1>2, <2>1 DEF FolderTemplate
<1>5. Deactivated(s) = rows
  BY DEF Deactivated
<1>6. /\ new.status = row.status /\ new.is_current = row.is_current
      /\ new.version_number = row.version_number
      /\ new.parent_version = row.parent_version
      /\ new.name = row.name /\ new.content = row.content
  OBVIOUS
<1> HIDE DEF new, row, number
<1>7. rows \in TemplateRows /\ rows[t] = new
      /\ \A u \in Id \ {t} : rows[u] = templates[u]
  BY <1>4, RowsTyped DEF TemplateRows
<1> HIDE DEF rows, source
<1>8. ASSUME NEW u \in Id
      PROVE  /\ rows[u].status = templates[u].status
             /\ rows[u].is_current = templates[u].is_current
             /\ rows[u].version_number = templates[u].version_number
             /\ rows[u].parent_version = templates[u].parent_version
             /\ rows[u].name = templates[u].name
             /\ rows[u].content = templates[u].content
  BY <1>6, <1>7 DEF row
<1>9. /\ templates' \in TemplateRows /\ InsertedInOrder'
      /\ \A u \in Existing : u \in Existing' /\ templates'[u] = rows[u]
      /\ \A u \in Existing' \ Existing :
           templates'[u].status = "draft" /\ ~templates'[u].is_current
  <2>1. Draft(rows, source.name, source.version + 1, number, source.content)
    BY <1>1, <1>5
  <2>2. QED
    BY <1>1, <1>3, <1>7, <1>8, <2>1, DraftInserted
<1>10. TemplatesTypeOK'
  BY <1>1, <1>9, Ended DEF TemplatesTypeOK, TemplateRows
<1>11. \A r \in Session : req'[r] = req[r] \/ req'[r] = Idle
  BY <1>1, Ended
<1>12. \A u \in Existing : u \in Id
  BY DEF Existing
<1>13. QED
  BY <1>1, <1>8, <1>9, <1>10, <1>11, <1>12, QuietKeeps

-----------------------------------------------------------------------------
\* Reads.

\* A request that loads a template is counted by raced and knows what it will write.
LEMMA LoadKeeps ==
    ASSUME TemplatesTypeOK, TemplatesInv, NEW s \in Session, NEW t \in Id,
           NEW op \in Operation, NEW target \in 0..MaxVersions, Load(s, t, op, target),
           op = "update" => ~Published(t), op = "roll back" => target \in VersionsOf(t)
    PROVE  TemplatesTypeOK' /\ TemplatesInv'
<1> DEFINE new == [op |-> op, template |-> t, target |-> target, loaded |-> templates[t]]
           others == Writing(t)
<1>1. /\ Busy(s, "idle") /\ t \in Existing /\ UNCHANGED <<templates, versions>>
      /\ req' = [req EXCEPT ![s] = new]
      /\ raced' = [raced EXCEPT ![t] = Race(raced[t], op, others)]
  BY DEF Load
<1>2. /\ UNCHANGED <<Existing, Taken>>
      /\ \A u \in Id : UNCHANGED VersionsOf(u) /\ (Published(u)' <=> Published(u))
  BY <1>1 DEF Existing, Taken, VersionsOf, Published
<1>3. templates[t] \in FolderTemplate
  BY <1>1, RowsTyped, ExistingRow
<1>4. new \in TemplateRequest
  <2> HIDE DEF FolderTemplate
  <2>1. QED
    BY <1>3 DEF TemplateRequest
<1>5. /\ new.op = op /\ new.template = t /\ new.target = target
      /\ new.loaded = templates[t] /\ "latest" \notin DOMAIN new
  OBVIOUS
<1> HIDE DEF new, others
<1>6. /\ req' \in [Session -> TemplateRequest \cup {Idle}] /\ req'[s] = new
      /\ \A r \in Session \ {s} : req'[r] = req[r]
  BY <1>1, <1>4 DEF TemplatesTypeOK
<1>7. /\ raced' \in [Id -> {"none", "release", "edit"}]
      /\ raced'[t] = Race(raced[t], op, others)
      /\ \A u \in Id \ {t} : raced'[u] = raced[u]
  BY <1>1 DEF TemplatesTypeOK, Race
<1>8. /\ raced'[t] = "none" => raced[t] = "none"
      /\ raced'[t] # "edit" => raced[t] # "edit"
  BY <1>7 DEF Race
<1>9. ASSUME op \notin Deactivating
      PROVE  /\ raced'[t] = "none" => others = {}
             /\ raced'[t] # "edit" => "update" \notin others
             /\ raced'[t] # "edit" /\ op = "update" => others = {}
  BY <1>7, <1>9 DEF Race
<1>10. TemplatesTypeOK'
  BY <1>1, <1>6, <1>7 DEF TemplatesTypeOK
<1>11. ASSUME NEW r \in Session PROVE RefersTo(r)'
  <2>1. CASE r = s
    BY <1>1, <1>2, <1>5, <1>6, <2>1 DEF RefersTo, Busy, Published
  <2>2. CASE r # s
    <3>1. RefersTo(r) /\ req'[r] = req[r]
      BY <1>6, <2>2 DEF TemplatesInv
    <3>2. ~Busy(r, "idle") => req[r].template \in Id
      BY RequestColumns
    <3>3. QED
      BY <1>2, <3>1, <3>2 DEF RefersTo, Busy, Operation
  <2>3. QED
    BY <2>1, <2>2
<1>12. ASSUME NEW r \in Session, NEW u \in Id, Writer(r, u)'
       PROVE  Alone(r, u)' /\ UpToDate(r, u)'
  <2>1. \A q \in Session : Writer(q, u)' => q = s \/ Writer(q, u)
    BY <1>6 DEF Writer
  <2>2. ~Writer(s, u)
    BY <1>1 DEF Busy, Writer
  <2>3. CASE r = s
    <3>1. u = t /\ op \notin Deactivating
      BY <1>5, <1>6, <1>12, <2>3 DEF Writer, Deactivating
    <3>2. \A q \in Session : Writer(q, t) => others # {}
      BY WritingSeen DEF others
    <3>3. Alone(r, u)'
      BY <1>2, <1>5, <1>6, <1>9, <2>1, <2>3, <3>1, <3>2 DEF Alone, Busy
    <3>4. UpToDate(r, u)'
      BY <1>1, <1>5, <1>6, <2>3, <3>1 DEF UpToDate
    <3>5. QED
      BY <3>3, <3>4
  <2>4. CASE r # s
    <3>1. Writer(r, u) /\ req'[r] = req[r]
      BY <1>6, <1>12, <2>4 DEF Writer
    <3>2. Alone(r, u) /\ UpToDate(r, u)
      BY <3>1 DEF TemplatesInv
    <3>3. raced'[u] = "none" => raced[u] = "none"
      BY <1>7, <1>8
    <3>4. raced'[u] # "edit" => raced[u] # "edit"
      BY <1>7, <1>8
    <3>5. UpToDate(r, u)'
      BY <1>1, <3>1, <3>2, <3>3, <3>4 DEF UpToDate
    <3>6. ASSUME Writer(s, u)'
          PROVE  /\ raced'[u] # "none"
                 /\ Busy(r, "update") => raced'[u] = "edit"
      <4>1. u = t /\ op \notin Deactivating
        BY <1>5, <1>6, <3>6 DEF Writer, Deactivating
      <4>2. req[r].op \in others
        BY <3>1, <4>1, WritingSeen DEF others
      <4>3. QED
        BY <1>9, <4>1, <4>2 DEF Busy
    <3>7. Alone(r, u)'
      BY <1>2, <2>1, <3>1, <3>2, <3>3, <3>4, <3>6 DEF Alone, Busy
    <3>8. QED
      BY <3>5, <3>7
  <2>5. QED
    BY <2>3, <2>4
<1>13. ASSUME NEW u \in Id
       PROVE  /\ raced'[u] = "none" => raced[u] = "none"
              /\ raced'[u] # "edit" => raced[u] # "edit"
  BY <1>7, <1>8
<1>14. PublishedIsSnapshot' /\ OneCurrent'
  <2>1. PublishedIsSnapshot /\ OneCurrent /\ Existing \subseteq Id
    BY DEF TemplatesInv, Existing
  <2>2. PublishedIsSnapshot'
    BY <1>1, <1>2, <1>13, <2>1 DEF PublishedIsSnapshot
  <2>3. OneCurrent'
    BY <1>1, <1>2, <1>13, <2>1 DEF OneCurrent
  <2>4. QED
    BY <2>2, <2>3
<1>15. InsertedInOrder'
  BY <1>2 DEF TemplatesInv, InsertedInOrder
<1>16. QED
  BY <1>10, <1>11, <1>12, <1>14, <1>15 DEF TemplatesInv

\* Reading the latest version changes nothing else.
LEMMA ReadLatestKeeps ==
    ASSUME TemplatesTypeOK, TemplatesInv, NEW s \in Session, ReadLatest(s)
    PROVE  TemplatesTypeOK' /\ TemplatesInv'
<1> DEFINE t == req[s].template
           last == IF VersionsOf(t) = {} THEN NoVersion ELSE Last(VersionsOf(t))
           new == [op |-> req[s].op, template |-> t, target |-> req[s].target,
                   loaded |-> req[s].loaded, latest |-> last]
<1>1. /\ Busy(s, "publish") \/ Busy(s, "roll back")
      /\ req' = [req EXCEPT ![s] = new]
      /\ UNCHANGED <<templates, versions, raced>>
  BY DEF ReadLatest
<1>2. /\ UNCHANGED <<Existing, Taken>>
      /\ \A u \in Id : UNCHANGED VersionsOf(u) /\ (Published(u)' <=> Published(u))
  BY <1>1 DEF Existing, Taken, VersionsOf, Published
<1>3. /\ req[s].op \in {"publish", "roll back"} /\ t \in Id
      /\ req[s].loaded \in FolderTemplate /\ req[s].target \in 0..MaxVersions
  BY <1>1, RequestColumns DEF Busy
<1>4. /\ last \in Taken \/ (Busy(s, "publish") /\ last = NoVersion)
      /\ last \in 0..MaxVersions
  <2>1. CASE VersionsOf(t) = {}
    <3>1. ~Busy(s, "roll back")
      BY <2>1 DEF TemplatesInv, RefersTo
    <3>2. NoVersion \in 0..MaxVersions
      BY TemplatesAssumption DEF NoVersion
    <3>3. QED
      BY <1>1, <2>1, <3>1, <3>2
  <2>2. CASE VersionsOf(t) # {}
    <3>1. VersionsOf(t) \subseteq Taken /\ Taken \subseteq Version
      BY DEF VersionsOf, Taken
    <3>2. last \in Taken
      BY <2>2, <3>1, LastExists
    <3>3. Version \subseteq 0..MaxVersions
      BY TemplatesAssumption DEF Version
    <3>4. QED
      BY <3>1, <3>2, <3>3
  <2>3. QED
    BY <2>1, <2>2
<1> HIDE DEF last
<1>5. new \in TemplateRequest
  <2> HIDE DEF FolderTemplate
  <2>1. QED
    BY <1>3, <1>4 DEF TemplateRequest
<1>6. /\ new.op = req[s].op /\ new.template = t /\ new.target = req[s].target
      /\ new.loaded = req[s].loaded /\ new.latest = last
  OBVIOUS
<1> HIDE DEF new
<1>7. /\ req' \in [Session -> TemplateRequest \cup {Idle}] /\ req'[s] = new
      /\ \A r \in Session \ {s} : req'[r] = req[r]
  BY <1>1, <1>5 DEF TemplatesTypeOK
<1>8. TemplatesTypeOK'
  BY <1>1, <1>7 DEF TemplatesTypeOK
<1>9. \A r \in Session : /\ req'[r].op = req[r].op
                         /\ req'[r].template = req[r].template
                         /\ req'[r].loaded = req[r].loaded
  BY <1>6, <1>7
<1>10. ASSUME NEW r \in Session PROVE RefersTo(r)'
  <2>1. RefersTo(r)
    BY DEF TemplatesInv
  <2>2. ~Busy(r, "idle") => req[r].template \in Id
    BY RequestColumns
  <2>3. CASE r = s
    <3>1. req'[r].latest = last /\ req'[r].target = req[r].target
      BY <1>6, <1>7, <2>3
    <3>2. QED
      BY <1>2, <1>3, <1>4, <1>9, <2>1, <2>2, <2>3, <3>1 DEF RefersTo, Busy, Operation
  <2>4. CASE r # s
    BY <1>2, <1>7, <2>1, <2>2, <2>4 DEF RefersTo, Busy, Operation
  <2>5. QED
    BY <2>3, <2>4
<1>11. ASSUME NEW r \in Session, NEW u \in Id, Writer(r, u)'
       PROVE  Alone(r, u)' /\ UpToDate(r, u)'
  <2>1. \A q \in Session : Writer(q, u)' <=> Writer(q, u)
    BY <1>9 DEF Writer
  <2>2. Alone(r, u) /\ UpToDate(r, u)
    BY <1>11, <2>1 DEF TemplatesInv
  <2>3. QED
    BY <1>1, <1>2, <1>9, <2>1, <2>2 DEF Alone, UpToDate, Busy
<1>12. PublishedIsSnapshot' /\ OneCurrent' /\ InsertedInOrder'
  BY <1>1, <1>2
  DEF TemplatesInv, PublishedIsSnapshot, OneCurrent, InsertedInOrder, Published
<1>13. QED
  BY <1>8, <1>10, <1>11, <1>12 DEF TemplatesInv

-----------------------------------------------------------------------------
\* Publications and rollbacks.

\* What a commit does to the rows: the template is published under the number of the
\* new version, and no other of the name it loaded stays current.
Publishes(s, t, v, number, content) ==
    /\ templates' \in TemplateRows /\ versions' \in VersionRows
    /\ \A u \in Id : templates'[u].name = templates[u].name
    /\ templates'[t].status = "published" /\ templates'[t].parent_version = v
    /\ req[s].loaded.content = templates[t].content
         => templates'[t].content = content
    /\ req[s].loaded.version_number = templates[t].version_number
         => templates'[t].version_number = number
    /\ \A u \in Existing \ {t} :
         /\ templates'[u].status = templates[u].status
         /\ templates'[u].version_number = templates[u].version_number
         /\ templates'[u].content = templates[u].content
         /\ templates'[u].parent_version = templates[u].parent_version
         /\ templates'[u].is_current =>
              /\ templates[u].is_current
              /\ templates[u].name # req[s].loaded.name
    /\ v \in Version \ Taken
    /\ versions'[v].template = t /\ versions'[v].version = number
    /\ versions'[v].content = content /\ versions'[v].parent = req[s].latest
    /\ \A w \in VersionsOf(t) : versions[w].version # number
    /\ \A w \in Taken : versions'[w] = versions[w]
    /\ Existing' = Existing /\ Taken' = Taken \cup {v} /\ InsertedInOrder'

\* So does Commit.
LEMMA CommitWrites ==
    ASSUME TemplatesTypeOK, TemplatesInv, NEW s \in Session, NEW t \in Id,
           t = req[s].template, ~Busy(s, "idle"), NEW number \in Number,
           NEW content \in Content, NEW v, v = Cardinality(Taken) + 1,
           Commit(s, number, content, content)
    PROVE  Publishes(s, t, v, number, content)
<1> DEFINE loaded == req[s].loaded
           row == templates[t]
           number2 == Written(loaded.version_number, number, row.version_number)
           current2 == Written(loaded.is_current, TRUE, row.is_current)
           content2 == Written(loaded.content, content, row.content)
           new == [row EXCEPT !.status = "published", !.version_number = number2,
                              !.parent_version = v, !.is_current = current2,
                              !.content = content2]
           snapshot == [template |-> t, version |-> number, content |-> content,
                        parent |-> req[s].latest]
           others == NotCurrent(t, loaded.name)
<1>1. /\ "latest" \in DOMAIN req[s] /\ v \in Version
      /\ \A w \in VersionsOf(t) : versions[w].version # number
      /\ versions' = [versions EXCEPT ![v] = snapshot]
      /\ templates' = [u \in Id |->
           IF u = t
           THEN [row EXCEPT !.status = Written(loaded.status, "published", row.status),
                            !.version_number = number2, !.parent_version = v,
                            !.is_current = current2, !.content = content2]
           ELSE IF u \in others THEN [templates[u] EXCEPT !.is_current = FALSE]
                                ELSE templates[u]]
  BY DEF Commit
<1>2. t \in Existing /\ row \in FolderTemplate /\ loaded \in FolderTemplate
  BY RowOf
<1>3. Written(loaded.status, "published", row.status) = "published"
  <2>1. RefersTo(s)
    BY DEF TemplatesInv
  <2>2. QED
    BY <2>1 DEF RefersTo, Published, Written
<1>4. number2 \in Number /\ current2 \in BOOLEAN /\ content2 \in Content
  BY <1>2, RowColumns DEF Written
<1>5. /\ loaded.content = row.content => content2 = content
      /\ loaded.version_number = row.version_number => number2 = number
  BY DEF Written
<1> HIDE DEF number2, current2, content2
<1>6. new \in FolderTemplate
  BY <1>1, <1>2, <1>4, RowPublished
<1>7. /\ new.status = "published" /\ new.version_number = number2
      /\ new.parent_version = v /\ new.content = content2 /\ new.name = row.name
  <2>1. {"status", "version_number", "parent_version", "content", "name"}
          \subseteq DOMAIN row
    BY <1>2 DEF FolderTemplate
  <2>2. QED
    BY <2>1
<1>8. templates'[t] = new
  BY <1>1, <1>3
<1>9. ASSUME NEW u \in Existing \ {t}
      PROVE  /\ templates'[u] \in FolderTemplate
             /\ templates'[u].name = templates[u].name
             /\ templates'[u].status = templates[u].status
             /\ templates'[u].version_number = templates[u].version_number
             /\ templates'[u].content = templates[u].content
             /\ templates'[u].parent_version = templates[u].parent_version
             /\ templates'[u].is_current =>
                  templates[u].is_current /\ templates[u].name # loaded.name
  <2>1. u \in Id /\ templates[u] \in FolderTemplate
    BY RowsTyped, ExistingRow DEF Existing
  <2>2. CASE u \in others
    <3> DEFINE old == templates[u]
               cleared == [old EXCEPT !.is_current = FALSE]
    <3>1. templates'[u] = cleared
      BY <1>1, <2>1, <2>2
    <3>2. cleared \in FolderTemplate
      BY <2>1, RowNotCurrent
    <3>3. /\ cleared.name = old.name /\ cleared.status = old.status
          /\ cleared.version_number = old.version_number
          /\ cleared.content = old.content
          /\ cleared.parent_version = old.parent_version /\ ~cleared.is_current
      <4>1. "is_current" \in DOMAIN old
        BY <2>1 DEF FolderTemplate
      <4>2. QED
        BY <4>1
    <3> HIDE DEF cleared
    <3>4. QED
      BY <3>1, <3>2, <3>3
  <2>3. CASE u \notin others
    <3>1. templates'[u] = templates[u]
      BY <1>1, <2>1, <2>3
    <3>2. templates[u].name # loaded.name
      BY <2>1, <2>3 DEF NotCurrent
    <3>3. QED
      BY <2>1, <3>1, <3>2
  <2>4. QED
    BY <2>2, <2>3
<1>10. ASSUME NEW u \in Id \ Existing PROVE templates'[u] = templates[u]
  <2>1. u # t /\ u \notin others
    BY <1>2 DEF NotCurrent
  <2>2. QED
    BY <1>1, <2>1
<1> HIDE DEF new
<1>11. templates' \in TemplateRows /\ Existing' = Existing
  <2>1. templates' = [u \in Id |-> templates'[u]]
    BY <1>1
  <2>2. \A u \in Id : templates'[u] \in FolderTemplate \cup {NoTemplate}
    BY <1>6, <1>8, <1>9, <1>10, RowsTyped, ExistingRow
  <2>3. templates' \in TemplateRows
    BY <2>1, <2>2 DEF TemplateRows
  <2>4. \A u \in Id : templates'[u].status # "none" <=> u \in Existing
    BY <1>2, <1>7, <1>8, <1>9, <1>10 DEF Existing
  <2>5. QED
    BY <2>3, <2>4 DEF Existing
<1>12. \A u \in Id : templates'[u].name = templates[u].name
  BY <1>7, <1>8, <1>9, <1>10
<1>13. v \notin Taken /\ Taken \cup {v} = 1..Cardinality(Taken \cup {v})
  <2>1. Taken = 1..Cardinality(Taken)
    BY DEF TemplatesInv, InsertedInOrder
  <2>2. v \in 1..MaxVersions /\ Taken \subseteq 1..MaxVersions
    BY <1>1 DEF Version, Taken
  <2>3. QED
    BY <2>1, <2>2, NextId, TemplatesAssumption
<1>14. snapshot \in Snapshot
  <2>1. req[s].latest \in 0..MaxVersions
    <3>1. req[s].latest \in Taken \/ req[s].latest = NoVersion
      BY <1>1 DEF TemplatesInv, RefersTo
    <3>2. Taken \subseteq 0..MaxVersions
      BY TemplatesAssumption DEF Taken, Version
    <3>3. NoVersion \in 0..MaxVersions
      BY TemplatesAssumption DEF NoVersion
    <3>4. QED
      BY <3>1, <3>2, <3>3
  <2>2. QED
    BY <2>1 DEF Snapshot
<1>15. /\ snapshot.template = t /\ snapshot.version = number
       /\ snapshot.content = content /\ snapshot.parent = req[s].latest
  OBVIOUS
<1> HIDE DEF snapshot
<1>16. versions' \in VersionRows /\ versions'[v] = snapshot
       /\ \A w \in Version \ {v} : versions'[w] = versions[w]
  BY <1>1, <1>14, RowsTyped DEF VersionRows
<1>17. Taken' = Taken \cup {v}
  <2>1. t # 0
    BY IdIsPositive
  <2>2. QED
    BY <1>1, <1>15, <1>16, <2>1 DEF Taken
<1>18. InsertedInOrder'
  BY <1>11, <1>13, <1>17 DEF TemplatesInv, InsertedInOrder
<1>19. \A w \in Taken : versions'[w] = versions[w]
  BY <1>13, <1>16 DEF Taken
<1>20. QED
  BY <1>1, <1>5, <1>7, <1>8, <1>9, <1>11, <1>12, <1>13, <1>15, <1>16, <1>17, <1>18,
     <1>19
  DEF Publishes

\* A commit keeps the invariant.
LEMMA CommitKeeps ==
    ASSUME TemplatesTypeOK, TemplatesInv, NEW s \in Session, NEW t \in Id,
           t = req[s].template, Busy(s, "publish") \/ Busy(s, "roll back"),
           NEW number \in Number, NEW content \in Content,
           Commit(s, number, content, content)
    PROVE  TemplatesTypeOK' /\ TemplatesInv'
<1>1. ~Busy(s, "idle") /\ Writer(s, t) /\ ~Busy(s, "update")
  BY DEF Busy, Writer
<1>2. Done(s) /\ UNCHANGED raced
  BY DEF Commit
<1>3. PICK v : Publishes(s, t, v, number, content)
  BY <1>1, CommitWrites
<1>4. /\ templates' \in TemplateRows /\ versions' \in VersionRows
      /\ \A u \in Id : templates'[u].name = templates[u].name
      /\ templates'[t].status = "published" /\ templates'[t].parent_version = v
      /\ req[s].loaded.content = templates[t].content => templates'[t].content = content
      /\ req[s].loaded.version_number = templates[t].version_number
           => templates'[t].version_number = number
  BY <1>3 DEF Publishes
<1>5. \A u \in Existing \ {t} :
        /\ templates'[u].status = templates[u].status
        /\ templates'[u].version_number = templates[u].version_number
        /\ templates'[u].content = templates[u].content
        /\ templates'[u].parent_version = templates[u].parent_version
        /\ templates'[u].is_current =>
             templates[u].is_current /\ templates[u].name # req[s].loaded.name
  BY <1>3 DEF Publishes
<1>6. /\ v \in Version \ Taken
      /\ versions'[v].template = t /\ versions'[v].version = number
      /\ versions'[v].content = content
      /\ \A w \in Taken : versions'[w] = versions[w]
      /\ Existing' = Existing /\ Taken' = Taken \cup {v} /\ InsertedInOrder'
  BY <1>3 DEF Publishes
<1>7. TemplatesTypeOK'
  BY <1>2, <1>4, Ended DEF TemplatesTypeOK, TemplateRows, VersionRows
<1>8. Alone(s, t) /\ UpToDate(s, t)
  BY <1>1 DEF TemplatesInv
<1>9. \A u \in Existing : Published(u) => Published(u)'
  BY <1>4, <1>5 DEF Published
<1>10. ASSUME NEW u \in Id PROVE VersionsOf(u) \subseteq VersionsOf(u)'
  BY <1>6 DEF VersionsOf
<1>11. ASSUME NEW r \in Session PROVE RefersTo(r)'
  <2>1. CASE r = s
    BY <1>2, <2>1, Ended, IdleRefers
  <2>2. CASE r # s
    <3>1. RefersTo(r) /\ req'[r] = req[r]
      BY <1>2, <2>2, Ended DEF TemplatesInv
    <3>2. ~Busy(r, "idle") => req[r].template \in Id
      BY RequestColumns
    <3>3. QED
      BY <1>6, <1>9, <1>10, <3>1, <3>2 DEF RefersTo, Busy, Operation
  <2>3. QED
    BY <2>1, <2>2
<1>12. ASSUME NEW r \in Session, NEW u \in Id, Writer(r, u)'
       PROVE  Alone(r, u)' /\ UpToDate(r, u)'
  <2>1. r # s /\ req'[r] = req[r] /\ Writer(r, u)
    <3>1. r # s
      BY <1>2, <1>12, Ended, IdleRefers
    <3>2. QED
      BY <1>2, <1>12, <3>1, Ended DEF Writer
  <2>2. Alone(r, u) /\ UpToDate(r, u) /\ RefersTo(r)
    BY <2>1 DEF TemplatesInv
  <2>3. u \in Existing
    BY <2>1, <2>2 DEF RefersTo, Writer, Busy
  <2>4. \A q \in Session : Writer(q, u)' => Writer(q, u)
    <3>1. ~Writer(s, u)'
      BY <1>2, Ended, IdleRefers
    <3>2. QED
      BY <1>2, <3>1, Ended DEF Writer
  <2>5. u = t => raced[u] # "none" /\ (Busy(r, "update") => raced[u] = "edit")
    BY <1>1, <2>1, <2>2 DEF Alone
  <2>6. Alone(r, u)'
    BY <1>2, <1>5, <2>1, <2>2, <2>3, <2>4, <2>5 DEF Alone, Busy, Published
  <2>7. UpToDate(r, u)'
    BY <1>2, <1>4, <1>5, <2>1, <2>2, <2>3, <2>5 DEF UpToDate
  <2>8. QED
    BY <2>6, <2>7
<1>13. PublishedIsSnapshot'
  <2> SUFFICES ASSUME NEW u \in Existing', Published(u)', raced'[u] = "none"
               PROVE  LET w == versions'[templates'[u].parent_version]
                      IN  /\ w.template = u
                          /\ w.version = templates'[u].version_number
                          /\ w.content = templates'[u].content
    BY DEF PublishedIsSnapshot
  <2>1. CASE u = t
    <3>1. /\ req[s].loaded.version_number = templates[t].version_number
          /\ req[s].loaded.content = templates[t].content
      BY <1>2, <1>8, <2>1 DEF UpToDate
    <3>2. QED
      BY <1>4, <1>6, <2>1, <3>1
  <2>2. CASE u # t
    <3>1. u \in Existing \ {t} /\ u \in Id /\ Published(u) /\ raced[u] = "none"
      BY <1>2, <1>5, <1>6, <2>2 DEF Published, Existing
    <3> DEFINE p == templates[u].parent_version
    <3>2. /\ versions[p].template = u
          /\ versions[p].version = templates[u].version_number
          /\ versions[p].content = templates[u].content
      BY <3>1 DEF TemplatesInv, PublishedIsSnapshot
    <3>3. p \in Taken
      <4>1. templates[u] \in FolderTemplate
        BY <3>1, RowsTyped, ExistingRow
      <4>2. p \in Version
        BY <3>1, <4>1, RowColumns DEF Published
      <4>3. u # 0
        BY <3>1, IdIsPositive
      <4>4. QED
        BY <3>2, <4>2, <4>3 DEF Taken
    <3>4. versions'[p] = versions[p]
      BY <1>6, <3>3
    <3>5. /\ templates'[u].parent_version = p
          /\ templates'[u].version_number = templates[u].version_number
          /\ templates'[u].content = templates[u].content
      BY <1>5, <3>1
    <3> HIDE DEF p
    <3>6. QED
      BY <3>2, <3>4, <3>5
  <2>3. QED
    BY <2>1, <2>2
<1>14. OneCurrent'
  <2> SUFFICES ASSUME NEW x \in Existing', NEW y \in Existing',
                      templates'[x].is_current, templates'[y].is_current,
                      templates'[x].name = templates'[y].name,
                      raced'[x] # "edit", raced'[y] # "edit", x # y
               PROVE  FALSE
    BY DEF OneCurrent
  <2>1. x \in Existing /\ y \in Existing /\ x \in Id /\ y \in Id
    BY <1>6 DEF Existing
  <2>2. templates[x].name = templates[y].name
    BY <1>4, <2>1
  <2>3. raced[t] # "edit" => templates[t].name = req[s].loaded.name
    BY <1>8 DEF UpToDate
  <2>4. x # t
    <3>1. SUFFICES ASSUME x = t PROVE FALSE
      OBVIOUS
    <3>2. y \in Existing \ {t}
      BY <2>1, <3>1
    <3>3. templates[y].name # req[s].loaded.name
      BY <1>5, <3>2
    <3>4. raced[t] # "edit"
      BY <1>2, <3>1
    <3>5. QED
      BY <2>2, <2>3, <3>1, <3>3, <3>4
  <2>5. y # t
    <3>1. SUFFICES ASSUME y = t PROVE FALSE
      OBVIOUS
    <3>2. x \in Existing \ {t}
      BY <2>1, <3>1
    <3>3. templates[x].name # req[s].loaded.name
      BY <1>5, <3>2
    <3>4. raced[t] # "edit"
      BY <1>2, <3>1
    <3>5. QED
      BY <2>2, <2>3, <3>1, <3>3, <3>4
  <2>6. templates[x].is_current /\ templates[y].is_current
    BY <1>5, <2>1, <2>4, <2>5
  <2>7. QED
    BY <1>2, <2>1, <2>2, <2>6 DEF TemplatesInv, OneCurrent
<1>15. QED
  BY <1>6, <1>7, <1>11, <1>12, <1>13, <1>14 DEF TemplatesInv

\* A publication and a rollback commit a number and a content.
Commits(s) ==
    /\ Busy(s, "publish") \/ Busy(s, "roll back")
    /\ req[s].template \in Id /\ "latest" \in DOMAIN req[s] /\ Done(s)
    /\ \E number \in Number, content \in Content : Commit(s, number, content, content)

\* What a publication writes is the content it loaded.
LEMMA PublishCommits ==
    ASSUME TemplatesTypeOK, TemplatesInv, NEW s \in Session, NEW type \in VersionType,
           PublishTemplate(s, type)
    PROVE  Commits(s)
<1> DEFINE number == NextNumber(req[s].latest, type)
           content == req[s].loaded.content
<1>1. Busy(s, "publish") /\ "latest" \in DOMAIN req[s]
      /\ Commit(s, number, content, content)
  BY DEF PublishTemplate
<1>2. req[s].latest \in Taken \/ req[s].latest = NoVersion
  BY <1>1 DEF TemplatesInv, RefersTo
<1>3. number \in Number
  BY <1>2, RowsTyped, NextNumberTyped
<1>4. req[s].template \in Id /\ content \in Content
  BY <1>1, RowOf, RowColumns DEF Busy
<1>5. Done(s)
  BY <1>1 DEF Commit
<1> HIDE DEF number, content
<1>6. QED
  BY <1>1, <1>3, <1>4, <1>5 DEF Commits

\* What a rollback writes is the content of the version it goes back to.
LEMMA RollBackCommits ==
    ASSUME TemplatesTypeOK, TemplatesInv, NEW s \in Session, RollBack(s)
    PROVE  Commits(s)
<1> DEFINE number == Increment(versions[req[s].latest].version, "patch")
           content == versions[req[s].target].content
<1>1. Busy(s, "roll back") /\ "latest" \in DOMAIN req[s]
      /\ Commit(s, number, content, content)
  BY DEF RollBack
<1>2. req[s].latest \in Taken /\ req[s].target \in Taken
  BY <1>1 DEF TemplatesInv, RefersTo, Busy, VersionsOf
<1>3. versions[req[s].latest] \in Snapshot /\ versions[req[s].target] \in Snapshot
  BY <1>2, RowsTyped, TakenRow DEF Taken
<1>4. number \in Number /\ content \in Content
  <2>1. versions[req[s].latest].version \in Number /\ "patch" \in VersionType
    BY <1>3 DEF Snapshot, VersionType
  <2>2. content \in Content
    BY <1>3 DEF Snapshot
  <2>3. QED
    BY <2>1, <2>2, IncrementTyped
<1>5. req[s].template \in Id
  BY <1>1, RowOf DEF Busy
<1>6. Done(s)
  BY <1>1 DEF Commit
<1> HIDE DEF number, content
<1>7. QED
  BY <1>1, <1>4, <1>5, <1>6 DEF Commits

\* So both keep the invariant.
LEMMA CommitsKeep ==
    ASSUME TemplatesTypeOK, TemplatesInv, NEW s \in Session, Commits(s)
    PROVE  TemplatesTypeOK' /\ TemplatesInv'
  BY CommitKeeps DEF Commits

-----------------------------------------------------------------------------
\* The theorems.

\* No template, no version and no request to begin with.
LEMMA TemplatesInitKeeps == TemplatesInit => TemplatesTypeOK /\ TemplatesInv
<1> SUFFICES ASSUME TemplatesInit PROVE TemplatesTypeOK /\ TemplatesInv
  OBVIOUS
<1>1. /\ \A t \in Id : templates[t].status = "none"
      /\ \A v \in Version : versions[v].template = 0
      /\ \A s \in Session : req[s] = Idle
  BY DEF TemplatesInit, NoTemplate, NoSnapshot
<1>2. TemplatesTypeOK
  BY DEF TemplatesInit, TemplatesTypeOK
<1>3. Existing = {} /\ Taken = {}
  BY <1>1 DEF Existing, Taken
<1>4. InsertedInOrder
  <2>1. Cardinality({}) = 0 /\ 1..0 = {}
    BY FS_EmptySet
  <2>2. QED
    BY <1>3, <2>1 DEF InsertedInOrder
<1>5. \A s \in Session : RefersTo(s) /\ \A t \in Id : ~Writer(s, t)
  BY <1>1, IdleIsQuiet DEF RefersTo, Writer, Busy
<1>6. PublishedIsSnapshot /\ OneCurrent
  BY <1>3 DEF PublishedIsSnapshot, OneCurrent
<1>7. QED
  BY <1>2, <1>4, <1>5, <1>6 DEF TemplatesInv

\* Every step keeps types and invariant.
LEMMA TemplatesNextKeeps ==
    TemplatesTypeOK /\ TemplatesInv /\ [TemplatesNext]_templatesVars
      => TemplatesTypeOK' /\ TemplatesInv'
<1> SUFFICES ASSUME TemplatesTypeOK, TemplatesInv, [TemplatesNext]_templatesVars
             PROVE  TemplatesTypeOK' /\ TemplatesInv'
  OBVIOUS
<1>1. NoVersion \in 0..MaxVersions /\ Version \subseteq 0..MaxVersions
  BY TemplatesAssumption DEF NoVersion, Version
<1>2. ASSUME NEW name \in Name, NEW content \in Content, CreateTemplate(name, content)
      PROVE  TemplatesTypeOK' /\ TemplatesInv'
  BY <1>2, CreateKeeps
<1>3. ASSUME NEW s \in Session, UpdateTemplate(s)
      PROVE  TemplatesTypeOK' /\ TemplatesInv'
  <2>1. ASSUME NEW t \in Id, BeginUpdate(s, t) PROVE TemplatesTypeOK' /\ TemplatesInv'
    BY <1>1, <2>1, LoadKeeps DEF BeginUpdate, Operation
  <2>2. ASSUME NEW name \in Name, NEW content \in Content, NEW active \in BOOLEAN,
               Updated(s, name, content, active)
        PROVE  TemplatesTypeOK' /\ TemplatesInv'
    <3>1. req[s].template \in Id
      BY <2>2, RowOf DEF Updated, Busy
    <3>2. QED
      BY <2>2, <3>1, UpdatedKeeps
  <2>3. QED
    BY <1>3, <2>1, <2>2 DEF UpdateTemplate
<1>4. ASSUME NEW s \in Session, CreateTemplateVersion(s)
      PROVE  TemplatesTypeOK' /\ TemplatesInv'
  <2>1. ASSUME NEW t \in Id, BeginCopy(s, t) PROVE TemplatesTypeOK' /\ TemplatesInv'
    BY <1>1, <2>1, LoadKeeps DEF BeginCopy, Operation
  <2>2. ASSUME Copied(s) PROVE TemplatesTypeOK' /\ TemplatesInv'
    <3>1. req[s].template \in Id
      BY <2>2, RowOf DEF Copied, Busy
    <3>2. QED
      BY <2>2, <3>1, CopiedKeeps
  <2>3. QED
    BY <1>4, <2>1, <2>2 DEF CreateTemplateVersion
<1>5. ASSUME NEW s \in Session, DeleteTemplate(s)
      PROVE  TemplatesTypeOK' /\ TemplatesInv'
  <2>1. ASSUME NEW t \in Id, BeginDelete(s, t) PROVE TemplatesTypeOK' /\ TemplatesInv'
    BY <1>1, <2>1, LoadKeeps DEF BeginDelete, Operation
  <2>2. ASSUME Deleted(s) PROVE TemplatesTypeOK' /\ TemplatesInv'
    <3>1. req[s].template \in Id
      BY <2>2, RowOf DEF Deleted, Busy
    <3>2. QED
      BY <2>2, <3>1, DeletedKeeps
  <2>3. QED
    BY <1>5, <2>1, <2>2 DEF DeleteTemplate
<1>6. ASSUME NEW s \in Session, Publish(s)
      PROVE  TemplatesTypeOK' /\ TemplatesInv'
  <2>1. ASSUME NEW t \in Id, BeginPublish(s, t) PROVE TemplatesTypeOK' /\ TemplatesInv'
    BY <1>1, <2>1, LoadKeeps DEF BeginPublish, Operation
  <2>2. QED
    BY <1>6, <2>1, PublishCommits, CommitsKeep DEF Publish
<1>7. ASSUME NEW s \in Session, RollbackTemplate(s)
      PROVE  TemplatesTypeOK' /\ TemplatesInv'
  <2>1. ASSUME NEW t \in Id, NEW target \in Version, BeginRollback(s, t, target)
        PROVE  TemplatesTypeOK' /\ TemplatesInv'
    BY <1>1, <2>1, LoadKeeps DEF BeginRollback, Operation
  <2>2. QED
    BY <1>7, <2>1, RollBackCommits, CommitsKeep DEF RollbackTemplate
<1>8. ASSUME UNCHANGED templatesVars PROVE TemplatesTypeOK' /\ TemplatesInv'
  <2>1. UNCHANGED <<templates, versions, req, raced>>
    BY <1>8 DEF templatesVars
  <2>2. Existing' = Existing /\ InsertedInOrder'
    BY <2>1 DEF Existing, Taken, TemplatesInv, InsertedInOrder
  <2>3. QED
    BY <2>1, <2>2, QuietKeeps DEF TemplatesTypeOK
<1>9. QED
  BY <1>2, <1>3, <1>4, <1>5, <1>6, <1>7, <1>8, ReadLatestKeeps, FailsKeeps
  DEF TemplatesNext

\* Both hold in every state.
LEMMA TemplatesInvariant == TemplatesSpec => [](TemplatesTypeOK /\ TemplatesInv)
<1>1. QED
  BY TemplatesInitKeeps, TemplatesNextKeeps, PTL DEF TemplatesSpec

\* The variables keep their types: a draft is never current and has no version, and
\* what a request refers to exists.
THEOREM TemplatesTypeCorrect == TemplatesSpec => []TemplatesTypeOK
<1>1. QED
  BY TemplatesInvariant, PTL

\* What was published is what the version of that number holds, unless requests on
\* the template overlapped.
THEOREM PublishedStaysSnapshot == TemplatesSpec => []PublishedIsSnapshot
<1>1. TemplatesInv => PublishedIsSnapshot
  BY DEF TemplatesInv
<1>2. QED
  BY <1>1, TemplatesInvariant, PTL

\* At most one template of a name is current, however publications and rollbacks
\* overlap.
THEOREM OneTemplateCurrent == TemplatesSpec => []OneCurrent
<1>1. TemplatesInv => OneCurrent
  BY DEF TemplatesInv
<1>2. QED
  BY <1>1, TemplatesInvariant, PTL

-----------------------------------------------------------------------------
\* The history of the templates.

\* A step publishes one more version, or it writes none, takes no publication back and
\* lets a request read a latest version of its own template at most.
HistoryStep ==
    \/ /\ versions' = versions
       /\ \A t \in Existing : templates'[t].status = templates[t].status
       /\ \A r \in Session : req'[r] = req[r] \/ LatestIsOwn(req'[r])
    \/ \E s \in Session, t \in Id, v \in Version, number \in Number, content \in Content :
         /\ Publishes(s, t, v, number, content)
         /\ t = req[s].template /\ "latest" \in DOMAIN req[s] /\ Done(s)

\* An idle request has read no version.
LEMMA IdleIsOwn == LatestIsOwn(Idle)
  BY IdleIsQuiet DEF LatestIsOwn

\* Nothing else happens to requests that end.
LEMMA EndedIsOwn ==
    ASSUME TemplatesTypeOK, NEW s \in Session, Done(s)
    PROVE  \A r \in Session : req'[r] = req[r] \/ LatestIsOwn(req'[r])
  BY Ended, IdleIsOwn

\* Every step is one of these.
LEMMA HistorySteps ==
    ASSUME TemplatesTypeOK, TemplatesInv, [TemplatesNext]_templatesVars
    PROVE  HistoryStep
<1>1. ASSUME NEW name \in Name, NEW content \in Content, CreateTemplate(name, content)
      PROVE  HistoryStep
  <2>1. UNCHANGED <<versions, req>> /\ Draft(templates, name, 1, First, content)
    BY <1>1 DEF CreateTemplate
  <2>2. templates \in TemplateRows /\ First \in Number /\ 1 \in Nat \ {0}
    BY RowsTyped DEF First, Number
  <2>3. \A t \in Existing : templates'[t] = templates[t]
    BY <2>1, <2>2, DraftInserted
  <2>4. QED
    BY <2>1, <2>3 DEF HistoryStep
<1>2. ASSUME NEW s \in Session, NEW t \in Id, NEW op, NEW target, Load(s, t, op, target)
      PROVE  HistoryStep
  <2> DEFINE new == [op |-> op, template |-> t, target |-> target,
                     loaded |-> templates[t]]
  <2>1. req' = [req EXCEPT ![s] = new] /\ UNCHANGED <<templates, versions>>
    BY <1>2 DEF Load
  <2>2. "latest" \notin DOMAIN new
    OBVIOUS
  <2> HIDE DEF new
  <2>3. \A r \in Session : req'[r] = req[r] \/ LatestIsOwn(req'[r])
    BY <2>1, <2>2 DEF TemplatesTypeOK, LatestIsOwn
  <2>4. QED
    BY <2>1, <2>3 DEF HistoryStep
<1>3. ASSUME NEW s \in Session, NEW name, NEW content, NEW active,
             Updated(s, name, content, active)
      PROVE  HistoryStep
  <2>1. Done(s) /\ versions' = versions
    BY <1>3 DEF Updated
  <2>2. \A t \in Existing : templates'[t].status = templates[t].status
    <3> DEFINE t == req[s].template
               loaded == req[s].loaded
               name2 == Written(loaded.name, name, templates[t].name)
               content2 == Written(loaded.content, content, templates[t].content)
               active2 == Written(loaded.is_active, active, templates[t].is_active)
    <3>1. templates' = [templates EXCEPT ![t].name = name2, ![t].content = content2,
                                         ![t].is_active = active2]
      BY <1>3 DEF Updated
    <3>2. templates \in TemplateRows
      BY RowsTyped
    <3> HIDE DEF t, name2, content2, active2
    <3>3. QED
      BY <3>1, <3>2 DEF TemplateRows, Existing
  <2>3. QED
    BY <2>1, <2>2, EndedIsOwn DEF HistoryStep
<1>4. ASSUME NEW s \in Session, Deleted(s) PROVE HistoryStep
  <2>1. Done(s) /\ versions' = versions
    BY <1>4 DEF Deleted
  <2>2. \A t \in Existing : templates'[t].status = templates[t].status
    BY <1>4, RowsTyped DEF Deleted, TemplateRows, Existing
  <2>3. QED
    BY <2>1, <2>2, EndedIsOwn DEF HistoryStep
<1>5. ASSUME NEW s \in Session, Copied(s) PROVE HistoryStep
  <2>1. /\ Done(s) /\ versions' = versions
        /\ Draft(Deactivated(s), req[s].loaded.name, req[s].loaded.version + 1,
                 <<req[s].loaded.version + 1, 0, 0>>, req[s].loaded.content)
    BY <1>5 DEF Copied
  <2> DEFINE n == Cardinality(Existing) + 1
  <2>2. templates'= [Deactivated(s) EXCEPT ![n] =
          DraftRow(req[s].loaded.name, req[s].loaded.version + 1,
                   <<req[s].loaded.version + 1, 0, 0>>, req[s].loaded.content)]
    BY <2>1 DEF Draft
  <2>3. n \notin Existing
    <3>1. Existing = 1..Cardinality(Existing) /\ Existing \subseteq 1..MaxTemplates
      BY DEF TemplatesInv, InsertedInOrder, Existing, Id
    <3>2. n \in 1..MaxTemplates
      BY <2>1 DEF Draft, Id
    <3>3. QED
      BY <3>1, <3>2, NextId, TemplatesAssumption
  <2> HIDE DEF n
  <2>4. \A t \in Id : Deactivated(s)[t].status = templates[t].status
    BY RowsTyped DEF Deactivated, TemplateRows
  <2>5. DOMAIN Deactivated(s) = Id
    BY RowsTyped DEF Deactivated, TemplateRows
  <2>6. \A t \in Existing : templates'[t] = Deactivated(s)[t]
    BY <2>2, <2>3, <2>5 DEF Existing
  <2>7. QED
    BY <2>1, <2>4, <2>6, EndedIsOwn DEF HistoryStep, Existing
<1>6. ASSUME NEW s \in Session, ReadLatest(s) PROVE HistoryStep
  <2> DEFINE t == req[s].template
             last == IF VersionsOf(t) = {} THEN NoVersion ELSE Last(VersionsOf(t))
             new == [op |-> req[s].op, template |-> t, target |-> req[s].target,
                     loaded |-> req[s].loaded, latest |-> last]
  <2>1. req' = [req EXCEPT ![s] = new] /\ UNCHANGED <<templates, versions>>
    BY <1>6 DEF ReadLatest
  <2>2. last = NoVersion \/ last \in VersionsOf(t)
    <3>1. VersionsOf(t) \subseteq Version
      BY DEF VersionsOf, Taken
    <3>2. QED
      BY <3>1, LastExists
  <2>3. new.latest = last /\ new.template = t
    OBVIOUS
  <2> HIDE DEF new, last
  <2>4. \A r \in Session : req'[r] = req[r] \/ LatestIsOwn(req'[r])
    BY <2>1, <2>2, <2>3 DEF TemplatesTypeOK, LatestIsOwn
  <2>5. QED
    BY <2>1, <2>4 DEF HistoryStep
<1>7. ASSUME NEW s \in Session, Commits(s) PROVE HistoryStep
  <2>1. PICK number \in Number, content \in Content : Commit(s, number, content, content)
    BY <1>7 DEF Commits
  <2>2. req[s].template \in Id /\ ~Busy(s, "idle")
    BY <1>7 DEF Commits, Busy
  <2>3. PICK t \in Id, v \in Version :
          t = req[s].template /\ Publishes(s, t, v, number, content)
    <3> DEFINE next == Cardinality(Taken) + 1
    <3>1. Publishes(s, req[s].template, next, number, content)
      BY <2>1, <2>2, CommitWrites
    <3>2. next \in Version
      BY <3>1 DEF Publishes
    <3>3. QED
      BY <2>2, <3>1, <3>2
  <2>4. "latest" \in DOMAIN req[s] /\ Done(s)
    BY <1>7 DEF Commits
  <2>5. QED
    <3>1. SUFFICES \E s2 \in Session, t2 \in Id, v2 \in Version,
                     number2 \in Number, content2 \in Content :
                       /\ Publishes(s2, t2, v2, number2, content2)
                       /\ t2 = req[s2].template /\ "latest" \in DOMAIN req[s2]
                       /\ Done(s2)
      BY DEF HistoryStep
    <3>2. WITNESS s \in Session, t \in Id, v \in Version, number \in Number,
                 content \in Content
    <3>3. QED
      BY <2>3, <2>4
<1>8. ASSUME NEW s \in Session, Fails(s) PROVE HistoryStep
  BY <1>8, EndedIsOwn DEF Fails, HistoryStep
<1>9. CASE UNCHANGED templatesVars
  BY <1>9 DEF templatesVars, HistoryStep
<1>10. ASSUME NEW s \in Session,
              UpdateTemplate(s) \/ CreateTemplateVersion(s) \/ DeleteTemplate(s)
       PROVE  HistoryStep
  <2>1. CASE UpdateTemplate(s)
    BY <1>2, <1>3, <2>1 DEF UpdateTemplate, BeginUpdate
  <2>2. CASE CreateTemplateVersion(s)
    BY <1>2, <1>5, <2>2 DEF CreateTemplateVersion, BeginCopy
  <2>3. CASE DeleteTemplate(s)
    BY <1>2, <1>4, <2>3 DEF DeleteTemplate, BeginDelete
  <2>4. QED
    BY <1>10, <2>1, <2>2, <2>3
<1>11. ASSUME NEW s \in Session, Publish(s) \/ RollbackTemplate(s)
       PROVE  HistoryStep
  <2>1. CASE Publish(s)
    BY <1>2, <1>7, <2>1, PublishCommits DEF Publish, BeginPublish
  <2>2. CASE RollbackTemplate(s)
    BY <1>2, <1>7, <2>2, RollBackCommits DEF RollbackTemplate, BeginRollback
  <2>3. QED
    BY <1>11, <2>1, <2>2
<1>12. QED
  BY <1>1, <1>6, <1>8, <1>9, <1>10, <1>11 DEF TemplatesNext

\* Such a step rewrites nothing.
LEMMA HistoryStepKept ==
    ASSUME HistoryStep
    PROVE  HistoryKept
  BY DEF HistoryStep, HistoryKept, Published, Publishes

\* And it leaves the history as it was, with one version more at most.
LEMMA HistoryStepKeeps ==
    ASSUME TemplatesTypeOK, TemplatesInv, HistoryInv, HistoryStep
    PROVE  HistoryInv'
<1>1. CASE /\ versions' = versions
           /\ \A t \in Existing : templates'[t].status = templates[t].status
           /\ \A r \in Session : req'[r] = req[r] \/ LatestIsOwn(req'[r])
  <2>1. UNCHANGED Taken /\ \A t : UNCHANGED VersionsOf(t)
    BY <1>1 DEF Taken, VersionsOf
  <2>2. ParentsEarlier' /\ NumbersDiffer'
    BY <1>1, <2>1 DEF HistoryInv, ParentsEarlier, NumbersDiffer
  <2>3. ASSUME NEW s \in Session PROVE LatestIsOwn(req[s])'
    <3>1. LatestIsOwn(req'[s])
      BY <1>1 DEF HistoryInv
    <3>2. QED
      BY <2>1, <3>1 DEF LatestIsOwn
  <2>4. QED
    BY <2>2, <2>3 DEF HistoryInv
<1>2. ASSUME NEW s \in Session, NEW t \in Id, NEW v \in Version, NEW number \in Number,
             NEW content \in Content, Publishes(s, t, v, number, content),
             t = req[s].template, "latest" \in DOMAIN req[s], Done(s)
      PROVE  HistoryInv'
  <2>1. /\ v \in Version \ Taken /\ Taken' = Taken \cup {v}
        /\ versions'[v].template = t /\ versions'[v].version = number
        /\ versions'[v].parent = req[s].latest
        /\ \A w \in VersionsOf(t) : versions[w].version # number
        /\ \A w \in Taken : versions'[w] = versions[w]
    BY <1>2 DEF Publishes
  <2>4. \A u : VersionsOf(u) \subseteq VersionsOf(u)'
    BY <2>1 DEF VersionsOf
  <2>5. NumbersDiffer'
    BY <2>1 DEF HistoryInv, NumbersDiffer, VersionsOf
  <2>6. \A w \in Taken : w < v
    <3>1. Taken = 1..Cardinality(Taken) /\ Taken \subseteq Version
      BY DEF TemplatesInv, InsertedInOrder, Taken
    <3>2. Cardinality(Taken) \in Nat
      <4>1. IsFiniteSet(Version)
        BY FS_Interval, TemplatesAssumption DEF Version
      <4>2. QED
        BY <3>1, <4>1, FS_Subset, FS_CardinalityType
    <3>3. v \in Nat /\ v >= 1
      BY <2>1, TemplatesAssumption DEF Version
    <3> DEFINE n == Cardinality(Taken)
    <3> HIDE DEF n
    <3>4. Taken = 1..n /\ n \in Nat
      BY <3>1, <3>2 DEF n
    <3>5. QED
      BY <2>1, <3>3, <3>4
  <2>7. ParentsEarlier'
    <3>1. \A w \in Taken : \/ versions'[w].parent = NoVersion
                           \/ /\ versions'[w].parent < w
                              /\ versions'[w].parent \in VersionsOf(versions[w].template)'
      BY <2>1 DEF HistoryInv, ParentsEarlier, VersionsOf
    <3>2. req[s].latest = NoVersion \/ req[s].latest \in VersionsOf(t)
      BY <1>2 DEF HistoryInv, LatestIsOwn
    <3>3. \/ versions'[v].parent = NoVersion
          \/ versions'[v].parent < v /\ versions'[v].parent \in VersionsOf(t)'
      BY <2>1, <2>4, <2>6, <3>2 DEF VersionsOf
    <3>4. QED
      BY <2>1, <3>1, <3>3 DEF ParentsEarlier, VersionsOf
  <2>8. ASSUME NEW r \in Session PROVE LatestIsOwn(req[r])'
    <3>1. req'[r] = req[r] \/ req'[r] = Idle
      BY <1>2, Ended
    <3>2. LatestIsOwn(req'[r])
      BY <3>1, IdleIsOwn DEF HistoryInv
    <3>3. QED
      BY <2>4, <3>2 DEF LatestIsOwn
  <2>9. QED
    BY <2>5, <2>7, <2>8 DEF HistoryInv
<1>3. QED
  BY <1>1, <1>2 DEF HistoryStep

\* However requests overlap, the versions of a template form a history: no number
\* occurs twice, and a version's parent is an earlier version of the same template.
THEOREM VersionsFormHistory == TemplatesSpec => [](ParentsEarlier /\ NumbersDiffer)
<1>1. TemplatesInit => HistoryInv
  <2> SUFFICES ASSUME TemplatesInit PROVE HistoryInv
    OBVIOUS
  <2>1. Taken = {} /\ \A s \in Session : req[s] = Idle
    BY DEF TemplatesInit, Taken, NoSnapshot
  <2>2. QED
    BY <2>1, IdleIsOwn DEF HistoryInv, ParentsEarlier, NumbersDiffer
<1>2. TemplatesTypeOK /\ TemplatesInv /\ HistoryInv /\ [TemplatesNext]_templatesVars
        => HistoryInv'
  BY HistorySteps, HistoryStepKeeps
<1>3. HistoryInv => ParentsEarlier /\ NumbersDiffer
  BY DEF HistoryInv
<1>4. QED
  BY <1>1, <1>2, <1>3, TemplatesInvariant, PTL DEF TemplatesSpec

\* No request, rollbacks included, writes a version again or takes a publication back.
THEOREM HistoryIsKept == TemplatesSpec => [][HistoryKept]_templatesVars
<1>1. TemplatesTypeOK /\ TemplatesInv /\ [TemplatesNext]_templatesVars
        => [HistoryKept]_templatesVars
  <2> SUFFICES ASSUME TemplatesTypeOK, TemplatesInv, [TemplatesNext]_templatesVars
               PROVE  HistoryKept
    OBVIOUS
  <2>1. HistoryStep
    BY HistorySteps
  <2>2. QED
    BY <2>1, HistoryStepKept
<1>2. QED
  BY <1>1, TemplatesInvariant, PTL DEF TemplatesSpec
=============================================================================
