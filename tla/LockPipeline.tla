---------------------------- MODULE LockPipeline ----------------------------
(***************************************************************************)
(* Time-based locking of one order's folder, from the beat to SharePoint:  *)
(* evaluate_lock_transitions compares the lock_state row with the rule of  *)
(* the day and queues apply_order_transitions, which writes the row and    *)
(* queues apply_lock_state, which sets the SharePoint permission and       *)
(* writes the row again.  The admin's apply_manual_override takes the last *)
(* two steps with a setting of its own.                                    *)
(*                                                                         *)
(* The queue is unordered (several worker processes consume it).  With     *)
(* task_acks_late and no task_reject_on_worker_lost a task comes back when *)
(* its machine dies and is lost when only the pool's child process does.   *)
(* A task that talks to SharePoint takes three steps: it loads the row,    *)
(* calls SharePoint, and commits the columns that differ from what it      *)
(* loaded.                                                                 *)
(* The row exists: the first evaluation of an order created it.            *)
(***************************************************************************)
EXTENDS Naturals, FiniteSets, Bags

CONSTANTS
    Window,           \* LockWindowType values
    Level,            \* PermissionLevel values
    LevelOf,          \* the permission the rule of a window gives
    NoWindow,         \* no active rule matches the day
    Schedule,         \* the window whose rule matches, per day
    LastDay,          \* bound: the last day
    Worker,           \* worker processes of the queue "locks"
    MaxRetries,       \* max_retries of apply_lock_state
    MaxQueue,         \* bound: queued tasks when a new one is queued
    OverrideSettings, \* bound: the settings override requests ask for
    MaxOverrides,     \* bound: override requests
    SharePointFails,  \* TRUE: a SharePoint call may fail
    WorkersCrash,     \* TRUE: a worker may die inside a task
    LoopRaises        \* TRUE: the database or the broker may fail inside the
                      \* loop of apply_order_transitions

ASSUME ScheduleAssumption ==
    /\ LastDay \in Nat
    /\ NoWindow \notin Window
    /\ LevelOf \in [Window -> Level]
    /\ Schedule \in [0..LastDay -> Window \cup {NoWindow}]
    /\ Schedule[0] \in Window
ASSUME ParameterAssumption ==
    /\ OverrideSettings \subseteq [state : Window, level : Level]
    /\ MaxRetries \in Nat /\ MaxQueue \in Nat /\ MaxOverrides \in Nat
    /\ SharePointFails \in BOOLEAN /\ WorkersCrash \in BOOLEAN
    /\ LoopRaises \in BOOLEAN

VARIABLES
    day,        \* today
    row,        \* the lock_state row: current_state, permission, override
    sp,         \* the permission SharePoint enforces
    queue,      \* bag of queued tasks
    slot,       \* what each worker is doing
    overrides,  \* override requests so far
    asked,      \* history: the settings of the override requests
    torn,       \* history: the last task to change the row's setting wrote one
                \* column of it beside what another task had written since
    calm        \* history: since the last transition that was alone no override
                \* was requested, no call failed, no task was lost, and no two
                \* tasks were inside a worker at once

history == <<asked, torn, calm>>
vars == <<day, row, sp, queue, slot, overrides, asked, torn, calm>>

Setting == [state : Window, level : Level]
LockState == [state : Window, level : Level, override : BOOLEAN]
Task == [kind : {"transition", "apply", "override"}, set : Setting,
         retries : 0..MaxRetries]

Idle == [stage |-> "idle"]
Slot == {Idle} \cup [stage : {"loaded", "called"}, task : Task,
                     loaded : LockState]

TypeOK ==
    /\ day \in 0..LastDay
    /\ row \in LockState
    /\ sp \in Level
    /\ IsABag(queue) /\ BagToSet(queue) \subseteq Task
    /\ slot \in [Worker -> Slot]
    /\ overrides \in 0..MaxOverrides
    /\ asked \subseteq Setting
    /\ torn \in BOOLEAN
    /\ calm \in BOOLEAN

-----------------------------------------------------------------------------
RuleSetting(w) == [state |-> w, level |-> LevelOf[w]]

\* evaluate_current_time_against_rules for today.
Required == RuleSetting(Schedule[day])

\* determine_required_transitions: a folder whose row differs needs one.
Differs(lock, set) == lock.state # set.state \/ lock.level # set.level

\* Mutant of Transitioned: the permission is not written.
TransitionedState(lock, set) == [lock EXCEPT !.state = set.state]

\* apply_transition leaves the override flag alone.
Transitioned(lock, set) == [lock EXCEPT !.state = set.state, !.level = set.level]

NewTask(kind, set) == [kind |-> kind, set |-> set, retries |-> 0]
Retried(t) == [t EXCEPT !.retries = @ + 1]
QueueOf(S) == SetToBag(S)

\* Mutant of Retry: max_retries is not looked at.
RetryForEver(t) == QueueOf({Retried(t)})

\* Celery's self.retry(): the message goes back with one more retry, or is
\* given up at max_retries.
Retry(t) == IF t.retries < MaxRetries THEN QueueOf({Retried(t)}) ELSE EmptyBag

WorkerFree == \E w \in Worker : slot[w] = Idle

Init ==
    /\ day = 0
    /\ row = [state |-> Schedule[0], level |-> LevelOf[Schedule[0]],
              override |-> FALSE]
    /\ sp = LevelOf[Schedule[0]]
    /\ queue = EmptyBag
    /\ slot = [w \in Worker |-> Idle]
    /\ overrides = 0
    /\ asked = {}
    /\ torn = FALSE
    /\ calm = TRUE

\* Mutant of Evaluate: the row must differ in state and permission.
EvaluateBoth ==
    /\ Schedule[day] # NoWindow
    /\ row.state # Required.state /\ row.level # Required.level
    /\ BagCardinality(queue) < MaxQueue
    /\ queue' = queue (+) QueueOf({NewTask("transition", Required)})
    /\ UNCHANGED <<day, row, sp, slot, overrides, history>>

\* evaluate_all_active_orders for this order, if a rule of it matches the day,
\* and its one folder; generate_transition_tasks makes one task per order.
Transitions ==
    IF Schedule[day] # NoWindow /\ Differs(row, Required)
    THEN {NewTask("transition", Required)} ELSE {}

\* evaluate_lock_transitions: a transition is queued when the row differs
\* from the rule.  is_manual_override is not looked at: the check is for
\* active rows of lock_type manual, and a row of this path is automatic.
Evaluate ==
    /\ Transitions # {}
    /\ BagCardinality(queue) < MaxQueue
    /\ queue' = queue (+) QueueOf(Transitions)
    /\ UNCHANGED <<day, row, sp, slot, overrides, history>>

\* POST /locks/evaluate queues the same task; with force it evaluates a window
\* of 15 minutes again.
TriggerEvaluation == Evaluate

\* POST /locks/override.
RequestOverride(set) ==
    /\ overrides < MaxOverrides
    /\ BagCardinality(queue) < MaxQueue
    /\ overrides' = overrides + 1
    /\ queue' = queue (+) QueueOf({NewTask("override", set)})
    /\ asked' = asked \cup {set}
    /\ calm' = FALSE
    /\ UNCHANGED <<day, row, sp, slot, torn>>

\* A free worker receives a queued task of this kind.
Received(t, kind) == WorkerFree /\ BagIn(t, queue) /\ t.kind = kind

\* Nothing else is queued or running, and no override stands.
Alone(t) ==
    /\ queue = QueueOf({t}) /\ \A w \in Worker : slot[w] = Idle
    /\ ~row.override

\* Mutant of ApplyTransition: nothing is queued when the row already shows the
\* setting.
ApplyTransitionOnce(t) ==
    /\ Received(t, "transition")
    /\ row' = Transitioned(row, t.set)
    /\ queue' = (queue (-) QueueOf({t}))
                (+) QueueOf({NewTask("apply", x) :
                                 x \in {y \in {t.set} : Differs(row, y)}})
    /\ torn' = FALSE
    /\ calm' = (calm \/ Alone(t))
    /\ UNCHANGED <<day, sp, slot, overrides, asked>>

\* apply_order_transitions: apply_transition commits the rule's setting and
\* leaves the override flag alone; then apply_lock_state is queued.
ApplyTransition(t) ==
    /\ Received(t, "transition")
    /\ row' = Transitioned(row, t.set)
    /\ queue' = (queue (-) QueueOf({t}))
                (+) QueueOf({NewTask("apply", t.set)})
    /\ torn' = FALSE
    /\ calm' = (calm \/ Alone(t))
    /\ UNCHANGED <<day, sp, slot, overrides, asked>>

\* A statement of the loop raises, before the commit or (delay(), the metric)
\* after it.  The exception is logged and swallowed and the task ends well: the
\* row may be written, and no apply_lock_state is queued.
TransitionRaises(t) ==
    /\ LoopRaises
    /\ Received(t, "transition")
    /\ \/ row' = Transitioned(row, t.set) /\ torn' = FALSE
       \/ UNCHANGED <<row, torn>>
    /\ queue' = queue (-) QueueOf({t})
    /\ calm' = FALSE
    /\ UNCHANGED <<day, sp, slot, overrides, asked>>

\* The task of a worker that dies comes back, or is lost.
BackOrLost(t, others) ==
    \/ queue' = others (+) QueueOf({t}) /\ UNCHANGED calm
    \/ queue' = others /\ calm' = FALSE

\* The worker of apply_order_transitions dies between the commit and the delay().
TransitionInterrupted(t) ==
    /\ WorkersCrash
    /\ Received(t, "transition")
    /\ row' = Transitioned(row, t.set)
    /\ torn' = FALSE
    /\ BackOrLost(t, queue (-) QueueOf({t}))
    /\ UNCHANGED <<day, sp, slot, overrides, asked>>

\* A worker's child dies before its task has written anything.
TaskLost(t) ==
    /\ WorkersCrash /\ WorkerFree
    /\ BagIn(t, queue)
    /\ queue' = queue (-) QueueOf({t})
    /\ calm' = FALSE
    /\ UNCHANGED <<day, row, sp, slot, overrides, asked, torn>>

\* A task is taken and loads the row.
Start(w, t) ==
    /\ slot[w] = Idle
    /\ BagIn(t, queue)
    /\ \/ t.kind = "override"
       \/ t.kind = "apply" /\ ~row.override
    /\ queue' = queue (-) QueueOf({t})
    /\ slot' = [slot EXCEPT ![w] =
                    [stage |-> "loaded", task |-> t, loaded |-> row]]
    /\ calm' = (calm /\ \A v \in Worker : slot[v] = Idle)
    /\ UNCHANGED <<day, row, sp, overrides, asked, torn>>

\* apply_lock_state finds the override flag, with conflict_strategy "retry".
\* self.retry raises inside the try block; the except clause takes it for a
\* failure and calls self.retry again.
Conflict(t) ==
    /\ Received(t, "apply") /\ row.override
    /\ queue' = (queue (-) QueueOf({t})) (+) Retry(t) (+) Retry(t)
    /\ UNCHANGED <<day, row, sp, slot, overrides, history>>

CallSharePoint(w) ==
    /\ slot[w].stage = "loaded"
    /\ sp' = slot[w].task.set.level
    /\ slot' = [slot EXCEPT ![w].stage = "called"]
    /\ UNCHANGED <<day, row, queue, overrides, history>>

\* The call fails: apply_lock_state is retried, an override is dropped.
CallFails(w) ==
    /\ SharePointFails
    /\ slot[w].stage = "loaded"
    /\ queue' = IF slot[w].task.kind = "apply"
                THEN queue (+) Retry(slot[w].task) ELSE queue
    /\ slot' = [slot EXCEPT ![w] = Idle]
    /\ calm' = FALSE
    /\ UNCHANGED <<day, row, sp, overrides, asked, torn>>

\* A column is written when its new value differs from the loaded one.
Written(old, new, current) == IF new = old THEN current ELSE new

\* What apply_lock_state and apply_manual_override set the loaded row to.
Applied(set) == [state |-> set.state, level |-> set.level, override |-> FALSE]
Overridden(set) == [state |-> set.state, level |-> set.level, override |-> TRUE]

SettingOf(lock) == [state |-> lock.state, level |-> lock.level]

\* Exactly one of the two columns is written, and others have written since.
Tears(old, new) ==
    /\ (old.state = new.state) # (old.level = new.level)
    /\ SettingOf(old) # SettingOf(row)

Commit(w) ==
    LET t == slot[w].task
        old == slot[w].loaded
        new == IF t.kind = "override" THEN Overridden(t.set) ELSE Applied(t.set)
    IN  /\ slot[w].stage = "called"
        /\ row' = [state    |-> Written(old.state, new.state, row.state),
                   level    |-> Written(old.level, new.level, row.level),
                   override |-> Written(old.override, new.override,
                                        row.override)]
        /\ torn' = IF SettingOf(old) = SettingOf(new) THEN torn
                   ELSE Tears(old, new)
        /\ slot' = [slot EXCEPT ![w] = Idle]
        /\ UNCHANGED <<day, sp, queue, overrides, asked, calm>>

\* A worker dies inside a task that talks to SharePoint.
WorkerDies(w) ==
    /\ WorkersCrash
    /\ slot[w] # Idle
    /\ BackOrLost(slot[w].task, queue)
    /\ slot' = [slot EXCEPT ![w] = Idle]
    /\ UNCHANGED <<day, row, sp, overrides, asked, torn>>

NextDay ==
    /\ day < LastDay
    /\ day' = day + 1
    /\ UNCHANGED <<row, sp, queue, slot, overrides, history>>

Next ==
    \/ Evaluate \/ TriggerEvaluation
    \/ \E s \in OverrideSettings : RequestOverride(s)
    \/ \E t \in BagToSet(queue) :
          \/ ApplyTransition(t) \/ TransitionRaises(t)
          \/ TransitionInterrupted(t) \/ TaskLost(t) \/ Conflict(t)
          \/ \E w \in Worker : Start(w, t)
    \/ \E w \in Worker :
          CallSharePoint(w) \/ CallFails(w) \/ Commit(w) \/ WorkerDies(w)
    \/ NextDay

Spec == Init /\ [][Next]_vars

Consume == \E t \in BagToSet(queue) :
               Conflict(t) \/ \E w \in Worker : Start(w, t)

\* Days pass, beat evaluates every 15 minutes, workers consume the queue, and
\* a task that is delivered again and again does not crash every time.
Fairness ==
    /\ WF_vars(NextDay) /\ WF_vars(Evaluate)
    /\ \A x \in Window :
          SF_vars(ApplyTransition(NewTask("transition", RuleSetting(x))))
    /\ SF_vars(Consume)
    /\ SF_vars(\E w \in Worker : CallSharePoint(w))
    /\ SF_vars(\E w \in Worker : Commit(w))

FairSpec == Spec /\ Fairness

-----------------------------------------------------------------------------
\* Properties.

RuleSettings == {RuleSetting(x) : x \in Window}

\* The row is the setting of one rule or of one override, whatever the rules
\* are, unless it is torn: a task that found its own state, or its own
\* permission, already in the row it loaded writes the other one after another
\* task has replaced the setting.
RowIsOneSetting == SettingOf(row) \in RuleSettings \cup asked \/ torn

\* Re-evaluation repairs the row whatever stale, repeated, failed or
\* interrupted task wrote to it last: after the last change of window the row
\* settles at the rule.
RowConverges ==
    <>[](row.state = Required.state /\ row.level = Required.level)

\* SharePoint settles at the rule too ("Lock transitions are idempotent and
\* re-entrant safe", "SharePoint permissions match desired state") if since a
\* transition that was applied alone no call failed, no task was lost or dropped,
\* nobody overrode and the workers never ran two tasks at once, whatever died
\* between a commit and what it queues, was delivered again or out of order, and
\* whatever had gone wrong before that transition.
SharePointConverges == <>[](calm => sp = Required.level)

\* The same without the condition: an older call may be the last one.
SharePointConvergesAlways == <>[](sp = Required.level)

\* An override of the permission outlives the scheduler: only another
\* override changes the permission of an overridden row.
OverrideStands ==
    [][row.override /\ row'.level # row.level
       => \E w \in Worker : slot[w] # Idle /\ slot[w].task.kind = "override"]_vars
=============================================================================
