----------------------------- MODULE LocksProofs -----------------------------
(***************************************************************************)
(* Theorems about the locks of folders: those the schedule sets            *)
(* (LockPipeline) and those people set (FolderLocks).                      *)
(*                                                                         *)
(* LockPipeline: the type invariant for any windows, levels, schedule,     *)
(* workers and bounds, and RowIsOneSetting for the same.  FolderLocks: the *)
(* type invariant, and what rows, assignments and SharePoint have to do    *)
(* with each other as long as no two requests overlapped.                  *)
(***************************************************************************)
EXTENDS LockPipeline, FolderLocks, TLAPS, FiniteSetTheorems

(* LockPipeline. *)

-----------------------------------------------------------------------------
(* The bags a queue is built with.                                         *)

\* The union of two bags is a bag of the elements of both.
LEMMA BagSum ==
    ASSUME NEW A, NEW B, IsABag(A), IsABag(B)
    PROVE  /\ IsABag(A (+) B)
           /\ BagToSet(A (+) B) = BagToSet(A) \cup BagToSet(B)
  BY DEF IsABag, BagToSet, (+)

\* What is left of a bag is a bag of some of its elements.
LEMMA BagDifference ==
    ASSUME NEW A, NEW B, IsABag(A), IsABag(B)
    PROVE  /\ IsABag(A (-) B)
           /\ BagToSet(A (-) B) \subseteq BagToSet(A)
  BY DEF IsABag, BagToSet, (-)

\* One copy of each element of a set.
LEMMA OneOfEach ==
    ASSUME NEW S
    PROVE  IsABag(QueueOf(S)) /\ BagToSet(QueueOf(S)) = S
  BY DEF IsABag, BagToSet, SetToBag, QueueOf

\* The tasks of a retry: the task with one more retry, or none.
LEMMA RetryBag ==
    ASSUME NEW t \in Task
    PROVE  /\ IsABag(Retry(t))
           /\ \A u \in BagToSet(Retry(t)) :
                 u \in Task /\ u.kind = t.kind /\ u.set = t.set
  <1>1. CASE t.retries < MaxRetries
    <2>1. Retried(t) \in Task /\ Retried(t).kind = t.kind /\ Retried(t).set = t.set
      BY <1>1, ParameterAssumption DEF Retried, Task
    <2>2. Retry(t) = QueueOf({Retried(t)})
      BY <1>1 DEF Retry
    <2>3. QED
      BY <2>1, <2>2, OneOfEach
  <1>2. CASE ~(t.retries < MaxRetries)
    <2>1. Retry(t) = QueueOf({})
      BY <1>2 DEF Retry, EmptyBag, QueueOf
    <2>2. QED
      BY <2>1, OneOfEach
  <1>3. QED
    BY <1>1, <1>2

\* A bag with some tasks removed and some added.
LEMMA BagStep ==
    ASSUME NEW A, NEW B, NEW C, IsABag(A), IsABag(B), IsABag(C)
    PROVE  /\ IsABag((A (-) B) (+) C)
           /\ BagToSet((A (-) B) (+) C) \subseteq BagToSet(A) \cup BagToSet(C)
  BY BagDifference, BagSum

\* What the rule of a day asks for, and a new task for it.
LEMMA RequiredType ==
    ASSUME TypeOK, Transitions # {}
    PROVE  /\ Schedule[day] \in Window
           /\ Required \in Setting
           /\ Transitions = {NewTask("transition", Required)}
  BY ScheduleAssumption DEF Transitions, Required, RuleSetting, Setting, TypeOK

LEMMA NewTaskType ==
    ASSUME NEW kind \in {"transition", "apply", "override"}, NEW set \in Setting
    PROVE  /\ NewTask(kind, set) \in Task
           /\ NewTask(kind, set).kind = kind
           /\ NewTask(kind, set).set = set
  BY ParameterAssumption DEF NewTask, Task

-----------------------------------------------------------------------------
\* The initial state is of the type.
LEMMA InitTypeOK == Init => TypeOK
<1> SUFFICES ASSUME Init PROVE TypeOK
  OBVIOUS
<1>1. /\ day \in 0..LastDay /\ overrides \in 0..MaxOverrides /\ calm \in BOOLEAN
      /\ sp \in Level /\ slot \in [Worker -> Slot]
  BY ScheduleAssumption, ParameterAssumption DEF Init, Slot
<1>2. row \in LockState /\ asked \subseteq Setting /\ torn \in BOOLEAN
  BY ScheduleAssumption DEF Init, LockState
<1>3. IsABag(queue) /\ BagToSet(queue) \subseteq Task
  BY OneOfEach DEF Init, EmptyBag, QueueOf
<1>4. QED
  BY <1>1, <1>2, <1>3 DEF TypeOK

\* Every step keeps the type, through retries, crashes and redeliveries.
LEMMA NextTypeOK == TypeOK /\ [Next]_vars => TypeOK'
<1> SUFFICES ASSUME TypeOK, [Next]_vars PROVE TypeOK'
  OBVIOUS
<1> USE DEF TypeOK
<1>1. CASE Evaluate
  <2>1. /\ Required \in Setting
        /\ queue' = queue (+) QueueOf({NewTask("transition", Required)})
    BY <1>1, RequiredType DEF Evaluate
  <2>2. IsABag(queue') /\ BagToSet(queue') \subseteq Task
    BY <2>1, OneOfEach, BagSum, NewTaskType
  <2>3. QED
    BY <1>1, <2>2 DEF Evaluate, history
<1>2. ASSUME NEW s \in OverrideSettings, RequestOverride(s) PROVE TypeOK'
  <2>0. s \in Setting
    BY ParameterAssumption DEF Setting
  <2>1. IsABag(queue') /\ BagToSet(queue') \subseteq Task
    BY <1>2, <2>0, OneOfEach, BagSum, NewTaskType DEF RequestOverride
  <2>2. overrides' \in 0..MaxOverrides
    BY <1>2, ParameterAssumption DEF RequestOverride
  <2>3. QED
    BY <1>2, <2>0, <2>1, <2>2 DEF RequestOverride
<1>3. ASSUME NEW t \in BagToSet(queue), ApplyTransition(t) PROVE TypeOK'
  <2>1. t \in Task /\ t.set \in Setting /\ t.set.state \in Window /\ t.set.level \in Level
    BY DEF Task, Setting
  <2>2. row' \in LockState
    BY <1>3, <2>1 DEF ApplyTransition, Transitioned, LockState
  <2>3. IsABag(queue') /\ BagToSet(queue') \subseteq Task
    BY <1>3, <2>1, OneOfEach, BagStep, NewTaskType DEF ApplyTransition
  <2>4. QED
    BY <1>3, <2>2, <2>3, Zenon DEF ApplyTransition
<1>4. ASSUME NEW t \in BagToSet(queue), TransitionInterrupted(t) \/ TransitionRaises(t)
      PROVE  TypeOK'
  <2>1. t \in Task /\ t.set.state \in Window /\ t.set.level \in Level
    BY DEF Task, Setting
  <2>2. row' \in LockState /\ torn' \in BOOLEAN
    BY <1>4, <2>1 DEF TransitionInterrupted, TransitionRaises, Transitioned, LockState
  <2>3. IsABag(queue') /\ BagToSet(queue') \subseteq Task
    BY <1>4, <2>1, OneOfEach, BagDifference, BagStep
       DEF TransitionInterrupted, TransitionRaises, BackOrLost
  <2>4. /\ calm' \in BOOLEAN
        /\ UNCHANGED <<day, sp, slot, overrides, asked>>
    BY <1>4, Zenon DEF TransitionInterrupted, TransitionRaises, BackOrLost
  <2>5. QED
    BY <2>2, <2>3, <2>4
<1>5. ASSUME NEW t \in BagToSet(queue), Conflict(t) PROVE TypeOK'
  <2>1. /\ IsABag(Retry(t)) /\ BagToSet(Retry(t)) \subseteq Task
    BY RetryBag
  <2>2. IsABag(queue (-) QueueOf({t})) /\ BagToSet(queue (-) QueueOf({t})) \subseteq Task
    BY OneOfEach, BagDifference
  <2> DEFINE once == (queue (-) QueueOf({t})) (+) Retry(t)
  <2>3. IsABag(once) /\ BagToSet(once) \subseteq Task
    BY <2>1, <2>2, BagSum
  <2>4. queue' = once (+) Retry(t)
    BY <1>5 DEF Conflict
  <2> HIDE DEF once
  <2>5. IsABag(queue') /\ BagToSet(queue') \subseteq Task
    BY <2>1, <2>3, <2>4, BagSum
  <2>6. QED
    BY <1>5, <2>5 DEF Conflict, history
<1>6. ASSUME NEW t \in BagToSet(queue), NEW w \in Worker, Start(w, t) PROVE TypeOK'
  <2>1. IsABag(queue') /\ BagToSet(queue') \subseteq Task
    BY <1>6, OneOfEach, BagDifference DEF Start
  <2>2. slot' \in [Worker -> Slot]
    BY <1>6 DEF Start, Slot
  <2>3. calm' \in BOOLEAN
    BY <1>6 DEF Start
  <2>4. QED
    BY <1>6, <2>1, <2>2, <2>3 DEF Start
<1>7. ASSUME NEW w \in Worker, slot[w] # Idle PROVE /\ slot[w].task \in Task
                                                  /\ slot[w].loaded \in LockState
  BY <1>7 DEF Slot, Idle
<1>8. ASSUME NEW w \in Worker, slot[w].stage \in {"loaded", "called"} PROVE slot[w] # Idle
  BY <1>8 DEF Idle
<1>9. ASSUME NEW w \in Worker, CallSharePoint(w) PROVE TypeOK'
  <2>1. slot[w].task \in Task /\ slot[w].loaded \in LockState
    BY <1>7, <1>8, <1>9 DEF CallSharePoint
  <2>2. sp' \in Level
    BY <1>9, <2>1 DEF CallSharePoint, Task, Setting
  <2>3. slot'[w] \in Slot
    BY <1>7, <1>8, <1>9 DEF CallSharePoint, Slot, Idle
  <2>4. slot' \in [Worker -> Slot]
    BY <1>9, <2>3 DEF CallSharePoint
  <2>5. QED
    BY <1>9, <2>2, <2>4 DEF CallSharePoint, history
<1>10. ASSUME NEW w \in Worker, CallFails(w) PROVE TypeOK'
  <2>1. slot[w].task \in Task
    BY <1>7, <1>8, <1>10 DEF CallFails
  <2>2. IsABag(queue') /\ BagToSet(queue') \subseteq Task
    BY <1>10, <2>1, RetryBag, BagSum DEF CallFails
  <2>3. QED
    BY <1>10, <2>2 DEF CallFails, Slot
<1>11. ASSUME NEW w \in Worker, Commit(w) PROVE TypeOK'
  <2>1. slot[w].task.set \in Setting
    BY <1>7, <1>8, <1>11 DEF Commit, Task
  <2>2. row' \in LockState
    BY <1>11, <2>1 DEF Commit, Written, Applied, Overridden, LockState, Setting
  <2>3. torn' \in BOOLEAN
    BY <1>11 DEF Commit, Tears
  <2>4. QED
    BY <1>11, <2>2, <2>3 DEF Commit, Slot
<1>12. ASSUME NEW w \in Worker, WorkerDies(w) PROVE TypeOK'
  <2>1. /\ IsABag(queue') /\ BagToSet(queue') \subseteq Task
        /\ calm' \in BOOLEAN
    <3>1. slot[w].task \in Task
      BY <1>7, <1>12 DEF WorkerDies
    <3>2. /\ IsABag(queue (+) QueueOf({slot[w].task}))
          /\ BagToSet(queue (+) QueueOf({slot[w].task})) \subseteq Task
      BY <3>1, OneOfEach, BagSum
    <3>3. QED
      BY <1>12, <3>2, Zenon DEF WorkerDies, BackOrLost
  <2>2. QED
    BY <1>12, <2>1 DEF WorkerDies, Slot
<1>13. CASE NextDay
  BY <1>13, ScheduleAssumption DEF NextDay, history
<1>14. CASE UNCHANGED vars
  BY <1>14 DEF vars
<1>16. ASSUME NEW t \in BagToSet(queue), TaskLost(t) PROVE TypeOK'
  BY <1>16, OneOfEach, BagDifference DEF TaskLost
<1>15. QED
  BY <1>1, <1>2, <1>3, <1>4, <1>5, <1>6, <1>9, <1>10, <1>11, <1>12, <1>13, <1>14,
     <1>16
     DEF Next, TriggerEvaluation

\* The queue stays a bag of tasks, the row a row, and every worker is idle or
\* holds a task with the row it loaded.
THEOREM TypeCorrect == Spec => []TypeOK
  BY InitTypeOK, NextTypeOK, PTL DEF Spec

-----------------------------------------------------------------------------
(* RowIsOneSetting.  Every task carries the setting of a rule or of an       *)
(* override request.  A task that ends writes the columns that differ from   *)
(* the row it loaded: both, none, or one, and one beside what another task   *)
(* has written meanwhile is what torn records.                               *)

\* The settings rules and override requests have given.
Given(set) == set \in RuleSettings \cup asked

RowInv ==
    /\ RowIsOneSetting
    /\ \A t \in BagToSet(queue) : Given(t.set)
    /\ \A w \in Worker : slot[w] # Idle => Given(slot[w].task.set)

Inv == TypeOK /\ RowInv

\* A task that ends leaves the row as it was, sets both columns, or tears it.
LEMMA CommitKeepsRow ==
    ASSUME TypeOK, RowInv, NEW w \in Worker, Commit(w)
    PROVE  RowIsOneSetting'
  <1> DEFINE set == slot[w].task.set
             old == slot[w].loaded
             new == IF slot[w].task.kind = "override"
                    THEN Overridden(set) ELSE Applied(set)
  <1>1. slot[w] # Idle /\ slot[w].task \in Task /\ slot[w].loaded \in LockState
    BY DEF TypeOK, Slot, Idle, Commit
  <1>2. Given(set) /\ UNCHANGED asked /\ RowIsOneSetting
    BY <1>1 DEF RowInv, Commit
  <1>3. set \in Setting /\ SettingOf(new) = set
    BY <1>1 DEF SettingOf, Overridden, Applied, Task, Setting
  <1>4. /\ row'.state = Written(old.state, new.state, row.state)
        /\ row'.level = Written(old.level, new.level, row.level)
        /\ torn' = IF SettingOf(old) = SettingOf(new) THEN torn ELSE Tears(old, new)
    BY DEF Commit
  <1> HIDE DEF set, old, new
  <1>5. CASE SettingOf(old) = SettingOf(new)
    <2>1. old.state = new.state /\ old.level = new.level
      BY <1>5 DEF SettingOf
    <2>2. SettingOf(row)' = SettingOf(row) /\ torn' = torn
      BY <1>4, <1>5, <2>1 DEF SettingOf, Written
    <2>3. QED
      BY <1>2, <2>2 DEF RowIsOneSetting, RuleSettings
  <1>6. CASE SettingOf(old) # SettingOf(new)
    <2>1. ~(old.state = new.state /\ old.level = new.level)
      BY <1>6 DEF SettingOf
    <2>2. CASE Tears(old, new)
      BY <1>4, <1>6, <2>2 DEF RowIsOneSetting
    <2>3. CASE ~Tears(old, new)
      <3>3. SettingOf(row)' = SettingOf(new)
        <4>1. row'.state = new.state /\ row'.level = new.level
          BY <1>4, <2>1, <2>3 DEF Written, Tears, SettingOf
        <4>2. QED
          BY <4>1 DEF SettingOf
      <3>4. QED
        BY <1>2, <1>3, <3>3 DEF RowIsOneSetting, RuleSettings, Given
    <2>4. QED
      BY <2>2, <2>3
  <1>7. QED
    BY <1>5, <1>6

\* The row is the setting of one rule or of one override unless a task tore it,
\* for every schedule, rules and overrides.
THEOREM RowOneSetting == Spec => []RowIsOneSetting
<1>1. Init => Inv
  <2> SUFFICES ASSUME Init PROVE Inv
    OBVIOUS
  <2>1. TypeOK
    BY InitTypeOK
  <2>2. BagToSet(queue) = {}
    BY OneOfEach DEF Init, EmptyBag, QueueOf
  <2>3. SettingOf(row) = RuleSetting(Schedule[0])
    BY DEF Init, SettingOf, RuleSetting
  <2>4. RowIsOneSetting
    BY <2>3, ScheduleAssumption DEF RowIsOneSetting, RuleSettings
  <2>5. QED
    BY <2>1, <2>2, <2>4 DEF Init, Inv, RowInv
<1>2. Inv /\ [Next]_vars => Inv'
  <2> SUFFICES ASSUME Inv, [Next]_vars PROVE RowInv'
    BY NextTypeOK DEF Inv
  <2>0. TypeOK /\ RowInv /\ RowIsOneSetting
    BY DEF Inv, RowInv
  <2>1. CASE Evaluate
    <3>1. /\ queue' = queue (+) QueueOf({NewTask("transition", Required)})
          /\ Schedule[day] \in Window
      BY <2>0, <2>1, RequiredType DEF Evaluate
    <3>2. BagToSet(queue') = BagToSet(queue) \cup {NewTask("transition", Required)}
      BY <2>0, <3>1, OneOfEach, BagSum DEF TypeOK
    <3>3. NewTask("transition", Required).set \in RuleSettings
      BY <3>1 DEF NewTask, Required, RuleSettings
    <3>4. UNCHANGED <<row, slot, asked, torn>>
      BY <2>1 DEF Evaluate, history
    <3>5. QED
      BY <2>0, <3>2, <3>3, <3>4
         DEF RowInv, Given, RowIsOneSetting, RuleSettings
  <2>2. ASSUME NEW s \in OverrideSettings, RequestOverride(s) PROVE RowInv'
    <3>1. BagToSet(queue') = BagToSet(queue) \cup {NewTask("override", s)}
      BY <2>0, <2>2, OneOfEach, BagSum DEF TypeOK, RequestOverride
    <3>2. NewTask("override", s).set = s
      BY DEF NewTask
    <3>3. asked' = asked \cup {s} /\ UNCHANGED <<row, slot, torn>>
      BY <2>2 DEF RequestOverride
    <3>4. QED
      BY <2>0, <3>1, <3>2, <3>3
         DEF RowInv, Given, RowIsOneSetting, RuleSettings
  <2>3. ASSUME NEW t \in BagToSet(queue),
               ApplyTransition(t) \/ TransitionInterrupted(t) \/ TransitionRaises(t)
        PROVE  RowInv'
    <3>1. Given(t.set) /\ t \in Task /\ t.set \in Setting
      BY <2>0 DEF RowInv, TypeOK, Task
    <3>2. UNCHANGED <<slot, asked>>
      BY <2>3 DEF ApplyTransition, TransitionInterrupted, TransitionRaises
    <3>3. RowIsOneSetting'
      <4>1. CASE row' = row /\ torn' = torn
        BY <2>0, <3>2, <4>1 DEF RowIsOneSetting, RuleSettings
      <4>2. CASE row' = Transitioned(row, t.set)
        <5>1. row'.state = t.set.state /\ row'.level = t.set.level
          BY <2>0, <4>2 DEF Transitioned, TypeOK, LockState
        <5>2. SettingOf(row)' = t.set
          BY <3>1, <5>1 DEF SettingOf, Setting
        <5>3. QED
          BY <3>1, <3>2, <5>2 DEF RowIsOneSetting, RuleSettings, Given
      <4>3. QED
        BY <2>3, <4>1, <4>2
           DEF ApplyTransition, TransitionInterrupted, TransitionRaises
    <3>4. NewTask("apply", t.set).set = t.set
      BY DEF NewTask
    <3>5. BagToSet(queue') \subseteq BagToSet(queue) \cup {t, NewTask("apply", t.set)}
      BY <2>0, <2>3, OneOfEach, BagDifference, BagStep
         DEF ApplyTransition, TransitionInterrupted, TransitionRaises, BackOrLost, TypeOK
    <3>6. \A u \in BagToSet(queue') : Given(u.set)
      BY <2>0, <3>1, <3>4, <3>5 DEF RowInv
    <3>7. QED
      BY <2>0, <3>2, <3>3, <3>6 DEF RowInv, Given, RuleSettings
  <2>4. ASSUME NEW t \in BagToSet(queue), TaskLost(t) \/ Conflict(t) PROVE RowInv'
    <3>1. UNCHANGED <<row, slot, asked, torn>>
      BY <2>4 DEF TaskLost, Conflict, history
    <3>2. t \in Task /\ Given(t.set)
      BY <2>0 DEF TypeOK, RowInv
    <3>3. /\ IsABag(queue (-) QueueOf({t}))
          /\ BagToSet(queue (-) QueueOf({t})) \subseteq BagToSet(queue)
      BY <2>0, OneOfEach, BagDifference DEF TypeOK
    <3>4. /\ IsABag(Retry(t))
          /\ \A u \in BagToSet(Retry(t)) : u.set = t.set
      BY <3>2, RetryBag
    <3>5. CASE Conflict(t)
      <4> DEFINE once == (queue (-) QueueOf({t})) (+) Retry(t)
      <4>1. IsABag(once) /\ BagToSet(once) \subseteq BagToSet(queue) \cup BagToSet(Retry(t))
        BY <3>3, <3>4, BagSum
      <4>2. queue' = once (+) Retry(t)
        BY <3>5 DEF Conflict
      <4> HIDE DEF once
      <4>3. BagToSet(queue') \subseteq BagToSet(queue) \cup BagToSet(Retry(t))
        BY <3>4, <4>1, <4>2, BagSum
      <4>4. \A u \in BagToSet(queue') : Given(u.set)
        BY <2>0, <3>2, <3>4, <4>3 DEF RowInv, Given
      <4>5. QED
        BY <2>0, <3>1, <4>4 DEF RowInv, Given, RowIsOneSetting, RuleSettings
    <3>6. CASE TaskLost(t)
      <4>1. \A u \in BagToSet(queue') : Given(u.set)
        BY <2>0, <3>3, <3>6 DEF RowInv, TaskLost
      <4>2. QED
        BY <2>0, <3>1, <4>1 DEF RowInv, Given, RowIsOneSetting, RuleSettings
    <3>7. QED
      BY <2>4, <3>5, <3>6
  <2>5. ASSUME NEW t \in BagToSet(queue), NEW w \in Worker, Start(w, t) PROVE RowInv'
    <3>1. /\ UNCHANGED <<row, asked, torn>>
          /\ BagToSet(queue') \subseteq BagToSet(queue)
      BY <2>0, <2>5, OneOfEach, BagDifference DEF TypeOK, Start
    <3>2. /\ slot'[w].task = t
          /\ \A v \in Worker \ {w} : slot'[v] = slot[v]
      BY <2>0, <2>5 DEF Start, TypeOK
    <3>3. \A v \in Worker : slot'[v] # Idle => Given(slot'[v].task.set)
      BY <2>0, <3>2 DEF RowInv
    <3>4. QED
      BY <2>0, <3>1, <3>3 DEF RowInv, Given, RowIsOneSetting, RuleSettings
  <2>6. ASSUME NEW w \in Worker,
               CallSharePoint(w) \/ CallFails(w) \/ Commit(w) \/ WorkerDies(w)
        PROVE  RowInv'
    <3>1. slot[w] # Idle
      BY <2>6 DEF CallSharePoint, CallFails, Commit, WorkerDies, Idle
    <3>2. slot[w].task \in Task /\ Given(slot[w].task.set)
      BY <2>0, <3>1 DEF TypeOK, Slot, Idle, RowInv
    <3>3. UNCHANGED asked
      BY <2>6 DEF CallSharePoint, CallFails, Commit, WorkerDies, history
    <3>4. RowIsOneSetting'
      <4>1. CASE Commit(w)
        BY <2>0, <4>1, CommitKeepsRow
      <4>2. CASE UNCHANGED <<row, torn>>
        BY <2>0, <3>3, <4>2 DEF RowIsOneSetting, RuleSettings
      <4>3. QED
        BY <2>6, <4>1, <4>2 DEF CallSharePoint, CallFails, WorkerDies, history
    <3>5. /\ slot'[w] # Idle => slot'[w].task = slot[w].task
          /\ \A v \in Worker \ {w} : slot'[v] = slot[v]
      BY <2>0, <2>6 DEF CallSharePoint, CallFails, Commit, WorkerDies, TypeOK, Slot, Idle
    <3>6. \A v \in Worker : slot'[v] # Idle => Given(slot'[v].task.set)
      BY <2>0, <3>1, <3>5 DEF RowInv
    <3>7. /\ IsABag(Retry(slot[w].task))
          /\ \A u \in BagToSet(Retry(slot[w].task)) : u.set = slot[w].task.set
      BY <3>2, RetryBag
    <3>8. \A u \in BagToSet(queue') : u \in BagToSet(queue) \/ u.set = slot[w].task.set
      BY <2>0, <2>6, <3>7, OneOfEach, BagSum
         DEF TypeOK, CallSharePoint, CallFails, Commit, WorkerDies, BackOrLost
    <3>9. QED
      BY <2>0, <3>2, <3>3, <3>4, <3>6, <3>8 DEF RowInv, Given, RuleSettings
  <2>7. CASE NextDay \/ UNCHANGED vars
    <3>1. UNCHANGED <<row, slot, queue, asked, torn>>
      BY <2>7 DEF NextDay, vars, history
    <3>2. QED
      BY <2>0, <3>1 DEF RowInv, Given, RowIsOneSetting, RuleSettings
  <2>8. QED
    BY <2>1, <2>2, <2>3, <2>4, <2>5, <2>6, <2>7 DEF Next, TriggerEvaluation
<1>3. Inv => RowIsOneSetting
  BY DEF Inv, RowInv
<1>4. QED
  BY <1>1, <1>2, <1>3, PTL DEF Spec

-----------------------------------------------------------------------------
(* FolderLocks. *)

\* Rows are inserted one after the other: the next one is unused.
InOrder == Inserted = 1..Cardinality(Inserted)

\* Who works on a row by id has one.
HasRow ==
    \A s \in Session :
      req[s].op \in {"remove", "extend", "read", "clean up"} => req[s].row \in Row

\* Without overlap one request is at work, and what it found still holds.
OneAtWork == \A s, t \in Session : ~Busy(s, "idle") /\ ~Busy(t, "idle") => s = t

Knows(s) ==
    /\ Busy(s, "create") => Active("rbac") = {}
    /\ req[s].op \in {"remove", "extend", "read", "clean up"} => locks[req[s].row].active
    /\ req[s].op \in Action =>
         IF req[s].row = NoRow THEN Active("pm") = {} ELSE req[s].row \in Active("pm")

\* A service has at most one lock, and LockService's restricts the folder.
OneLockEach ==
    /\ \A by \in {"rbac", "pm"} : \A l, m \in Active(by) : l = m
    /\ restricted <=> Active("rbac") # {}

\* One task is queued at most.
OneTask == \A a, b \in Action : tasks[a] > 0 /\ tasks[b] > 0 => a = b /\ tasks[a] = 1

\* The latest word on a folder that a PM has locked is "lock": that of the request
\* that is about to queue its task, else that of the queued task, else SharePoint's.
LatestWord ==
    IF \E s \in Session : Busy(s, "delay")
    THEN \A s \in Session : Busy(s, "delay") => req[s].action = "lock"
    ELSE IF tasks # NoTask THEN tasks["lock"] > 0 ELSE granted = "Read"

\* The inductive invariant.
ManualInv ==
    /\ InOrder /\ HasRow
    /\ ~raced => /\ OneAtWork /\ OneLockEach /\ OneTask
                 /\ \A s \in Session : Knows(s)
    /\ ~raced /\ faults = 0 /\ Active("pm") # {} => LatestWord

-----------------------------------------------------------------------------
\* What the rows are like.
Rows == [Row -> LockRow]

\* The number of locks ever inserted is a number.
LEMMA InsertedCount == IsFiniteSet(Inserted) /\ Cardinality(Inserted) \in Nat
<1>1. IsFiniteSet(Row)
  BY FS_Interval, ManualAssumption DEF Row
<1>2. Inserted \subseteq Row
  BY DEF Inserted
<1>3. QED
  BY <1>1, <1>2, FS_Subset, FS_CardinalityType

\* A new lock is a row more, of one service only.
LEMMA LockInserted ==
    ASSUME locks \in Rows, InOrder, NEW by \in {"rbac", "pm"},
           NEW e \in 0..(MaxTime + MaxHours), NewLock(by, e)
    PROVE  /\ locks' \in Rows /\ InOrder'
           /\ \E k \in Row : Active(by)' = Active(by) \cup {k}
           /\ \A other \in {"rbac", "pm"} \ {by} : Active(other)' = Active(other)
<1> DEFINE n == Cardinality(Inserted)
           new == [by |-> by, active |-> TRUE, expires_at |-> e]
<1>1. n \in Nat /\ n < MaxRows /\ MaxRows \in Nat
  BY InsertedCount, ManualAssumption DEF NewLock
<1>2. n + 1 \in Row /\ n + 1 \notin Inserted /\ locks[n + 1].by = "none"
  <2>1. n + 1 \in Row
    BY <1>1 DEF Row
  <2>2. n + 1 \notin Inserted
    BY <1>1 DEF InOrder
  <2>3. QED
    BY <2>1, <2>2 DEF Inserted
<1>3. locks' = [locks EXCEPT ![n + 1] = new]
  BY DEF NewLock
<1>4. new \in LockRow /\ new.by = by /\ new.active
  BY DEF LockRow
<1> HIDE DEF new
<1>5. locks' \in Rows /\ locks'[n + 1] = new
      /\ \A l \in Row : l # n + 1 => locks'[l] = locks[l]
  BY <1>2, <1>3, <1>4 DEF Rows
<1>6. InOrder'
  <2>1. Inserted' = Inserted \cup {n + 1}
    BY <1>2, <1>4, <1>5 DEF Inserted
  <2>2. Inserted' = 1..(n + 1)
    BY <1>1, <2>1 DEF InOrder
  <2>3. Cardinality(1..(n + 1)) = n + 1
    BY <1>1, FS_Interval
  <2> HIDE DEF n
  <2>4. QED
    BY <2>2, <2>3 DEF InOrder
<1>7. Active(by)' = Active(by) \cup {n + 1}
  BY <1>2, <1>4, <1>5 DEF Active
<1>8. ASSUME NEW other \in {"rbac", "pm"} \ {by} PROVE Active(other)' = Active(other)
  BY <1>2, <1>4, <1>5 DEF Active
<1>9. QED
  BY <1>2, <1>5, <1>6, <1>7, <1>8

\* The row that is ended leaves the active ones.
LEMMA LockEnded ==
    ASSUME locks \in Rows, InOrder, NEW l \in Row, End(l)
    PROVE  /\ locks' \in Rows /\ InOrder'
           /\ \A by \in {"rbac", "pm"} : Active(by)' = Active(by) \ {l}
<1>1. /\ locks' \in Rows
      /\ locks'[l].by = locks[l].by /\ ~locks'[l].active
      /\ \A k \in Row : k # l => locks'[k] = locks[k]
  BY DEF End, Rows, LockRow
<1>2. Inserted' = Inserted
  BY <1>1 DEF Inserted
<1>3. QED
  BY <1>1, <1>2 DEF InOrder, Active

\* Moving an expiry ends nothing.
LEMMA ExpiryMoved ==
    ASSUME ManualTypeOK, InOrder, NEW s \in Session, NEW hours \in 1..MaxHours,
           Extended(s, hours), req[s].row \in Row
    PROVE  /\ locks' \in Rows /\ InOrder'
           /\ \A by \in {"rbac", "pm"} : Active(by)' = Active(by)
<1> DEFINE l == req[s].row
           e == (IF locks[l].expires_at = NoTime THEN now ELSE locks[l].expires_at) + hours
<1>0. locks \in Rows /\ locks[l] \in LockRow
  BY DEF ManualTypeOK, Rows
<1>1. e \in 0..(MaxTime + MaxHours)
  <2>1. /\ locks[l].expires_at \in Nat /\ locks[l].expires_at + hours <= MaxTime + MaxHours
        /\ now \in 1..MaxTime /\ hours \in 1..MaxHours
    BY <1>0, ManualAssumption DEF Extended, ManualTypeOK, LockRow
  <2>2. QED
    BY <2>1, ManualAssumption DEF NoTime
<1>2. locks' = [locks EXCEPT ![l] = [locks[l] EXCEPT !.expires_at = e]]
  BY <1>0 DEF Extended, LockRow, Rows
<1> HIDE DEF e, l
<1>3. /\ locks' \in Rows
      /\ \A k \in Row : locks'[k].by = locks[k].by /\ locks'[k].active = locks[k].active
  BY <1>0, <1>1, <1>2 DEF Rows, LockRow
<1>4. Inserted' = Inserted
  BY <1>3 DEF Inserted
<1>5. QED
  BY <1>3, <1>4 DEF InOrder, Active

-----------------------------------------------------------------------------
\* No request is one.
LEMMA NoRequestTyped == NoRequest \in Request
<1>1. 0 \in 0..MaxRows
  BY ManualAssumption
<1>2. QED
  BY <1>1 DEF NoRequest, Request, Op, Action, NoRow

\* One request is written.
LEMMA RequestWritten ==
    ASSUME ManualTypeOK, NEW s \in Session, NEW q, req' = [req EXCEPT ![s] = q],
           \/ q = NoRequest
           \/ \E op \in Op, l \in 0..MaxRows : q = [NoRequest EXCEPT !.op = op, !.row = l]
           \/ \E action \in Action :
                 q = [NoRequest EXCEPT !.op = "delay", !.action = action]
    PROVE  /\ req' \in [Session -> Request] /\ req'[s] = q
           /\ \A t \in Session : t # s => req'[t] = req[t]
<1>1. q \in Request
  BY NoRequestTyped DEF Request, Op
<1>2. QED
  BY <1>1 DEF ManualTypeOK

\* A request ends.  If it changed the rows, they are still in order, and serial if
\* nothing overlapped; and it queued no task, or a request died.
LEMMA EndKeeps ==
    ASSUME ManualTypeOK, ManualInv, NEW s \in Session, ~Busy(s, "idle"), Done(s),
           UNCHANGED <<tasks, granted, raced, now>>,
           locks' \in Rows, InOrder', restricted' \in BOOLEAN,
           faults' \in 0..MaxFaults, faults' = 0 => faults = 0 /\ ~Busy(s, "delay"),
           ~raced => OneLockEach',
           ~raced => Active("pm")' \subseteq Active("pm")
    PROVE  ManualTypeOK' /\ ManualInv'
<1>1. /\ req' \in [Session -> Request] /\ req'[s] = NoRequest
      /\ \A t \in Session : t # s => req'[t] = req[t]
  BY RequestWritten DEF Done
<1>2. ManualTypeOK'
  BY <1>1 DEF ManualTypeOK, Rows
<1>3. HasRow'
  <2>1. req'[s].op = "idle"
    BY <1>1 DEF NoRequest
  <2>2. QED
    BY <1>1, <2>1 DEF ManualInv, HasRow
<1>4. ASSUME ~raced PROVE \A t \in Session : t # s => Busy(t, "idle")
  BY <1>4 DEF ManualInv, OneAtWork
<1>5. ASSUME ~raced PROVE \A t \in Session : req'[t].op = "idle"
  BY <1>1, <1>4, <1>5 DEF Busy, NoRequest
<1>6. ASSUME ~raced PROVE OneAtWork' /\ OneTask' /\ \A t \in Session : Knows(t)'
  BY <1>5, <1>6 DEF OneAtWork, OneTask, Knows, Busy, Action, ManualInv
<1>7. ASSUME ~raced', faults' = 0, Active("pm")' # {} PROVE LatestWord'
  <2>1. ~raced /\ faults = 0 /\ Active("pm") # {} /\ ~Busy(s, "delay")
    BY <1>7
  <2>2. LatestWord
    BY <2>1 DEF ManualInv
  <2>3. \A t \in Session : ~Busy(t, "delay") /\ ~Busy(t, "delay")'
    BY <1>4, <1>5, <2>1 DEF Busy
  <2>4. QED
    BY <2>2, <2>3 DEF LatestWord, NoTask
<1>8. QED
  BY <1>2, <1>3, <1>6, <1>7 DEF ManualInv

\* A request commits and is about to queue a task.  If nothing overlapped, rows are
\* still serial, and the task is a lock if a PM's lock is left.
LEMMA CommitKeeps ==
    ASSUME ManualTypeOK, ManualInv, NEW s \in Session, ~Busy(s, "idle"),
           NEW action \in Action, Committed(s, action),
           locks' \in Rows, InOrder',
           ~raced => OneLockEach',
           ~raced /\ Active("pm")' # {} => action = "lock"
    PROVE  ManualTypeOK' /\ ManualInv'
<1>1. /\ req' \in [Session -> Request]
      /\ req'[s].op = "delay" /\ req'[s].action = action
      /\ \A t \in Session : t # s => req'[t] = req[t]
  <2>1. req' = [req EXCEPT ![s] = [NoRequest EXCEPT !.op = "delay", !.action = action]]
    BY DEF Committed
  <2>2. QED
    BY <2>1, RequestWritten DEF NoRequest
<1>2. ManualTypeOK'
  BY <1>1 DEF ManualTypeOK, Committed, Rows
<1>3. HasRow'
  BY <1>1 DEF ManualInv, HasRow
<1>4. ASSUME ~raced PROVE \A t \in Session : t # s => req'[t].op = "idle"
  BY <1>1, <1>4 DEF ManualInv, OneAtWork, Busy
<1>5. ASSUME ~raced PROVE OneAtWork' /\ OneTask' /\ \A t \in Session : Knows(t)'
  <2>1. OneAtWork'
    BY <1>4, <1>5 DEF OneAtWork, Busy
  <2>2. OneTask'
    BY <1>5 DEF OneTask, ManualInv, Committed
  <2>3. \A t \in Session : req'[t].op \in {"idle", "delay"}
    BY <1>1, <1>4, <1>5
  <2>4. QED
    BY <2>1, <2>2, <2>3 DEF Knows, Busy, Action
<1>6. ASSUME ~raced', Active("pm")' # {} PROVE LatestWord'
  <2>1. ~raced
    BY <1>6 DEF Committed
  <2>2. \A t \in Session : Busy(t, "delay")' => t = s
    BY <1>4, <2>1 DEF Busy
  <2>3. Busy(s, "delay")' /\ req'[s].action = "lock"
    BY <1>1, <1>6, <2>1 DEF Busy
  <2>4. QED
    BY <2>2, <2>3 DEF LatestWord
<1>7. QED
  BY <1>2, <1>3, <1>5, <1>6 DEF ManualInv, Committed

\* A request searches: it knows what it found, and the race flag whether it is alone.
LEMMA SearchKeeps ==
    ASSUME ManualTypeOK, ManualInv, NEW s \in Session,
           NEW op \in Op \ {"idle", "delay"}, NEW l \in 0..MaxRows, Search(s, op, l),
           op \in {"remove", "extend", "read", "clean up"} => l \in Row /\ locks[l].active,
           op = "create" => Active("rbac") = {},
           op \in Action => IF l = NoRow THEN Active("pm") = {} ELSE l \in Active("pm")
    PROVE  ManualTypeOK' /\ ManualInv'
<1>1. /\ req' \in [Session -> Request]
      /\ req'[s].op = op /\ req'[s].row = l
      /\ \A t \in Session : t # s => req'[t] = req[t]
  <2>1. req' = [req EXCEPT ![s] = [NoRequest EXCEPT !.op = op, !.row = l]]
    BY DEF Search
  <2>2. QED
    BY <2>1, RequestWritten DEF NoRequest
<1>2. raced' \in BOOLEAN
  BY DEF Search, ManualTypeOK
<1>3. ManualTypeOK'
  BY <1>1, <1>2 DEF ManualTypeOK, Search
<1>4. HasRow'
  BY <1>1 DEF ManualInv, HasRow
<1>5. InOrder' /\ \A by \in {"rbac", "pm"} : Active(by)' = Active(by)
  BY DEF Search, ManualInv, InOrder, Inserted, Active
<1>6. ASSUME ~raced' PROVE ~raced /\ \A t \in Session : Busy(t, "idle")
  BY <1>6 DEF Search
<1>7. ASSUME ~raced' PROVE \A t \in Session : t # s => req'[t].op = "idle"
  BY <1>1, <1>6, <1>7 DEF Busy
<1>8. ASSUME ~raced' PROVE OneAtWork' /\ OneLockEach' /\ OneTask'
  <2>1. OneAtWork'
    BY <1>7, <1>8 DEF OneAtWork, Busy
  <2>2. OneLockEach'
    BY <1>5, <1>6, <1>8 DEF ManualInv, OneLockEach, Search
  <2>3. QED
    BY <1>6, <1>8, <2>1, <2>2 DEF ManualInv, OneTask, Search
<1>9. ASSUME ~raced', NEW t \in Session PROVE Knows(t)'
  <2>1. locks' = locks
    BY DEF Search
  <2>2. CASE t = s
    BY <1>1, <1>5, <2>1, <2>2 DEF Knows, Busy
  <2>3. CASE t # s
    BY <1>7, <1>9, <2>3 DEF Knows, Busy, Action
  <2>4. QED
    BY <2>2, <2>3
<1>10. ASSUME ~raced', faults' = 0, Active("pm")' # {} PROVE LatestWord'
  <2>1. LatestWord
    BY <1>5, <1>6, <1>10 DEF ManualInv, Search
  <2>2. \A t \in Session : ~Busy(t, "delay") /\ ~Busy(t, "delay")'
    BY <1>1, <1>6, <1>7, <1>10 DEF Busy
  <2>3. QED
    BY <2>1, <2>2 DEF LatestWord, Search
<1>11. QED
  BY <1>3, <1>4, <1>5, <1>8, <1>9, <1>10 DEF ManualInv

-----------------------------------------------------------------------------
\* A request has the row it works on, and alone it knows what it found.
LEMMA AtWork ==
    ASSUME ManualTypeOK, ManualInv, NEW s \in Session, ~raced
    PROVE  OneLockEach /\ Knows(s) /\ restricted \in BOOLEAN
BY DEF ManualInv, ManualTypeOK

\* The row that ends and is restored leaves the locks serial, whoever inserted it.
LEMMA EndedAndRestored ==
    ASSUME ManualTypeOK, ManualInv, NEW l \in Row, End(l), Restore(l)
    PROVE  /\ locks' \in Rows /\ InOrder' /\ restricted' \in BOOLEAN
           /\ ~raced /\ locks[l].active => OneLockEach'
           /\ Active("pm")' \subseteq Active("pm")
<1>1. locks \in Rows /\ InOrder /\ restricted \in BOOLEAN
  BY DEF ManualTypeOK, ManualInv, Rows
<1>2. /\ locks' \in Rows /\ InOrder'
      /\ \A by \in {"rbac", "pm"} : Active(by)' = Active(by) \ {l}
  BY <1>1, LockEnded
<1>3. restricted' \in BOOLEAN
  BY <1>1 DEF Restore
<1>4. ASSUME ~raced, locks[l].active PROVE OneLockEach'
  <2>1. OneLockEach
    BY <1>4 DEF ManualInv
  <2>2. \A by \in {"rbac", "pm"} : \A k, m \in Active(by)' : k = m
    BY <1>2, <2>1 DEF OneLockEach
  <2>3. CASE locks[l].by = "rbac"
    <3>1. l \in Active("rbac")
      BY <1>4, <2>3 DEF Active
    <3>2. Active("rbac")' = {}
      BY <1>2, <2>1, <3>1 DEF OneLockEach
    <3>3. restricted' = FALSE
      BY <2>3 DEF Restore
    <3>4. QED
      BY <2>2, <3>2, <3>3 DEF OneLockEach
  <2>4. CASE locks[l].by # "rbac"
    <3>1. l \notin Active("rbac")
      BY <2>4 DEF Active
    <3>2. Active("rbac")' = Active("rbac")
      BY <1>2, <3>1
    <3>3. restricted' = restricted
      BY <2>4 DEF Restore
    <3>4. QED
      BY <2>1, <2>2, <3>2, <3>3 DEF OneLockEach
  <2>5. QED
    BY <2>3, <2>4
<1>5. QED
  BY <1>2, <1>3, <1>4

\* The steps of LockService keep types and invariant.
LEMMA LockServiceKeeps ==
    ASSUME ManualTypeOK, ManualInv, NEW s \in Session, LockService(s)
    PROVE  ManualTypeOK' /\ ManualInv'
<1>0. /\ locks \in Rows /\ InOrder /\ restricted \in BOOLEAN /\ faults \in 0..MaxFaults
      /\ 0 \in 0..MaxRows /\ Row \subseteq 0..MaxRows
  BY ManualAssumption DEF ManualTypeOK, ManualInv, Rows, Row
<1>1. CASE BeginCreate(s)
  BY <1>0, <1>1, SearchKeeps DEF BeginCreate, Op, Action, NoRow
<1>2. ASSUME NEW hours \in 0..MaxHours, Created(s, hours) PROVE ManualTypeOK' /\ ManualInv'
  <2>1. (IF hours = 0 THEN NoTime ELSE now + hours) \in 0..(MaxTime + MaxHours)
    BY <1>2, ManualAssumption DEF ManualTypeOK, NoTime
  <2>2. /\ locks' \in Rows /\ InOrder'
        /\ \E k \in Row : Active("rbac")' = Active("rbac") \cup {k}
        /\ Active("pm")' = Active("pm")
    BY <1>0, <1>2, <2>1, LockInserted DEF Created
  <2>3. restricted' = TRUE
    BY <1>2 DEF Created, Restricts
  <2>4. ASSUME ~raced PROVE OneLockEach'
    <3>1. OneLockEach /\ Active("rbac") = {}
      BY <1>2, <2>4, AtWork DEF Knows, Created
    <3>2. QED
      BY <2>2, <2>3, <3>1 DEF OneLockEach
  <2>5. ~Busy(s, "idle") /\ ~Busy(s, "delay")
    BY <1>2 DEF Created, Busy
  <2>6. QED
    BY <1>0, <1>2, <2>2, <2>3, <2>4, <2>5, EndKeeps DEF Created
<1>3. ASSUME NEW l \in Row, BeginRemove(s, l) PROVE ManualTypeOK' /\ ManualInv'
  BY <1>0, <1>3, SearchKeeps DEF BeginRemove, Op, Action
<1>4. CASE Removed(s) \/ ExpiredOnRead(s)
  <2>1. req[s].row \in Row /\ ~Busy(s, "idle") /\ ~Busy(s, "delay")
    BY <1>4 DEF ManualInv, HasRow, Removed, ExpiredOnRead, Busy
  <2>2. /\ locks' \in Rows /\ InOrder' /\ restricted' \in BOOLEAN
        /\ ~raced /\ locks[req[s].row].active => OneLockEach'
        /\ Active("pm")' \subseteq Active("pm")
    BY <1>4, <2>1, EndedAndRestored DEF Removed, ExpiredOnRead
  <2>3. ASSUME ~raced PROVE OneLockEach'
    <3>1. req[s].op \in {"remove", "read"}
      BY <1>4 DEF Removed, ExpiredOnRead, Busy
    <3>2. locks[req[s].row].active
      BY <2>3, <3>1, AtWork DEF Knows
    <3>3. QED
      BY <2>2, <2>3, <3>2
  <2>4. QED
    BY <1>0, <1>4, <2>1, <2>2, <2>3, EndKeeps DEF Removed, ExpiredOnRead
<1>5. ASSUME NEW l \in Row, BeginExtend(s, l) PROVE ManualTypeOK' /\ ManualInv'
  BY <1>0, <1>5, SearchKeeps DEF BeginExtend, Op, Action
<1>6. ASSUME NEW hours \in 1..MaxHours, Extended(s, hours) PROVE ManualTypeOK' /\ ManualInv'
  <2>1. req[s].row \in Row /\ ~Busy(s, "idle") /\ ~Busy(s, "delay")
    BY <1>6 DEF ManualInv, HasRow, Extended, Busy
  <2>2. /\ locks' \in Rows /\ InOrder'
        /\ \A by \in {"rbac", "pm"} : Active(by)' = Active(by)
    BY <1>0, <1>6, <2>1, ExpiryMoved
  <2>3. restricted' = restricted
    BY <1>6 DEF Extended
  <2>4. ~raced => OneLockEach'
    BY <2>2, <2>3, AtWork DEF OneLockEach
  <2>5. QED
    BY <1>0, <1>6, <2>1, <2>2, <2>3, <2>4, EndKeeps DEF Extended
<1>7. ASSUME NEW l \in Row, BeginRead(s, l) PROVE ManualTypeOK' /\ ManualInv'
  BY <1>0, <1>7, SearchKeeps DEF BeginRead, Op, Action
<1>8. ASSUME NEW l \in Row, BeginCleanUp(s, l) PROVE ManualTypeOK' /\ ManualInv'
  BY <1>0, <1>8, SearchKeeps DEF BeginCleanUp, Op, Action
<1>9. CASE CleanUpClosed(s)
  <2>1. ~Busy(s, "idle") /\ ~Busy(s, "delay")
    BY <1>9 DEF CleanUpClosed, Busy
  <2>2. /\ InOrder' /\ (~raced => OneLockEach')
        /\ Active("pm")' = Active("pm")
    BY <1>0, <1>9, AtWork DEF CleanUpClosed, InOrder, Inserted, OneLockEach, Active
  <2>3. QED
    BY <1>0, <1>9, <2>1, <2>2, EndKeeps DEF CleanUpClosed
<1>10. QED
  BY <1>1, <1>2, <1>3, <1>4, <1>5, <1>6, <1>7, <1>8, <1>9
  DEF LockService, CreateManualLock, RemoveLock, ExtendLock, ReadLocks, CleanUp

\* The steps of ManualLockService and its router keep them, too.
LEMMA ManualLockServiceKeeps ==
    ASSUME ManualTypeOK, ManualInv, NEW s \in Session, ManualLockService(s)
    PROVE  ManualTypeOK' /\ ManualInv'
<1>0. /\ locks \in Rows /\ InOrder /\ 0 \in 0..MaxRows /\ Row \subseteq 0..MaxRows
      /\ req[s].row \in 0..MaxRows /\ MaxRows \in Nat
  BY ManualAssumption DEF ManualTypeOK, ManualInv, Rows, Row, Request
<1>1. ASSUME NEW op \in Action, BeginManual(s, op) PROVE ManualTypeOK' /\ ManualInv'
  <2>0. op \in Op \ {"idle", "delay"} /\ op \notin {"remove", "extend", "read", "clean up"}
        /\ op # "create"
    BY DEF Op, Action
  <2>1. CASE Active("pm") = {}
    BY <1>0, <1>1, <2>0, <2>1, SearchKeeps DEF BeginManual, NoRow
  <2>2. CASE Active("pm") # {}
    <3>1. PICK l \in Active("pm") : Search(s, op, l)
      BY <1>1, <2>2 DEF BeginManual
    <3>2. l \in 0..MaxRows /\ l # NoRow
      BY <1>0 DEF Active, Row, NoRow
    <3>3. QED
      BY <2>0, <3>1, <3>2, SearchKeeps
  <2>3. QED
    BY <2>1, <2>2
<1>2. ASSUME NEW action \in Action, UNCHANGED locks, Committed(s, action), ~Busy(s, "idle"),
             ~raced /\ Active("pm") # {} => action = "lock"
      PROVE  ManualTypeOK' /\ ManualInv'
  <2>1. /\ locks' \in Rows /\ InOrder' /\ Active("pm")' = Active("pm")
        /\ (~raced => OneLockEach')
    BY <1>0, <1>2, AtWork DEF Committed, InOrder, Inserted, OneLockEach, Active
  <2>2. QED
    BY <1>2, <2>1, CommitKeeps
<1>3. CASE LockFound(s)
  <2>1. ~Busy(s, "idle") /\ "lock" \in Action
    BY <1>3 DEF LockFound, Busy, Action
  <2>2. QED
    BY <1>2, <1>3, <2>1 DEF LockFound
<1>4. CASE UnlockNone(s)
  <2>1. ~Busy(s, "idle") /\ "unlock" \in Action
    BY <1>4 DEF UnlockNone, Busy, Action
  <2>2. ~raced => Active("pm") = {}
    BY <1>4, AtWork DEF UnlockNone, Knows, Busy, Action
  <2>3. QED
    BY <1>2, <1>4, <2>1, <2>2 DEF UnlockNone
<1>5. CASE LockNew(s)
  <2>1. ~Busy(s, "idle") /\ "lock" \in Action
    BY <1>5 DEF LockNew, Busy, Action
  <2>2. NoTime \in 0..(MaxTime + MaxHours)
    BY ManualAssumption DEF NoTime
  <2>3. /\ locks' \in Rows /\ InOrder'
        /\ \E k \in Row : Active("pm")' = Active("pm") \cup {k}
        /\ Active("rbac")' = Active("rbac")
    BY <1>0, <1>5, <2>2, LockInserted DEF LockNew
  <2>4. ASSUME ~raced PROVE OneLockEach'
    <3>1. OneLockEach /\ Active("pm") = {}
      BY <1>5, <2>4, AtWork DEF Knows, LockNew, Busy, Action
    <3>2. restricted' = restricted
      BY <1>5 DEF LockNew, Committed
    <3>3. QED
      BY <2>3, <3>1, <3>2 DEF OneLockEach
  <2>5. QED
    BY <1>5, <2>1, <2>3, <2>4, CommitKeeps DEF LockNew
<1>6. CASE UnlockFound(s)
  <2>1. ~Busy(s, "idle") /\ "unlock" \in Action /\ req[s].row \in Row
    BY <1>0, <1>6 DEF UnlockFound, Busy, Action, NoRow, Row
  <2>2. /\ locks' \in Rows /\ InOrder'
        /\ \A by \in {"rbac", "pm"} : Active(by)' = Active(by) \ {req[s].row}
    BY <1>0, <1>6, <2>1, LockEnded DEF UnlockFound
  <2>3. ASSUME ~raced PROVE OneLockEach' /\ Active("pm")' = {}
    <3>1. OneLockEach /\ req[s].row \in Active("pm")
      BY <1>6, <2>3, AtWork DEF Knows, UnlockFound, Busy, Action
    <3>2. Active("pm")' = {}
      BY <2>2, <3>1 DEF OneLockEach
    <3>3. Active("rbac")' = Active("rbac")
      BY <2>2, <3>1 DEF Active
    <3>4. restricted' = restricted
      BY <1>6 DEF UnlockFound, Committed
    <3>5. QED
      BY <3>1, <3>2, <3>3, <3>4 DEF OneLockEach
  <2>4. QED
    BY <1>6, <2>1, <2>2, <2>3, CommitKeeps DEF UnlockFound
<1>7. CASE Delay(s)
  <2> DEFINE action == req[s].action
  <2>1. /\ req' \in [Session -> Request] /\ req'[s] = NoRequest
        /\ \A t \in Session : t # s => req'[t] = req[t]
    BY <1>7, RequestWritten DEF Delay, Done
  <2>2. action \in Action /\ tasks[action] \in 0..MaxTasks
    BY DEF ManualTypeOK, Request
  <2>3. tasks' = [tasks EXCEPT ![action] = @ + 1] /\ tasks[action] < MaxTasks
    BY <1>7 DEF Delay
  <2> HIDE DEF action
  <2>4. tasks' \in [Action -> 0..MaxTasks]
    BY <2>2, <2>3, ManualAssumption DEF ManualTypeOK
  <2>5. ManualTypeOK'
    BY <1>7, <2>1, <2>4 DEF ManualTypeOK, Delay
  <2>6. HasRow' /\ InOrder'
    <3>1. req'[s].op = "idle"
      BY <2>1 DEF NoRequest
    <3>2. QED
      BY <1>7, <2>1, <3>1 DEF ManualInv, HasRow, InOrder, Inserted, Delay
  <2>7. ASSUME ~raced' PROVE ~raced /\ tasks = NoTask
    BY <1>7, <2>7 DEF Delay
  <2>8. ASSUME ~raced' PROVE \A t \in Session : req'[t].op = "idle"
    <3>1. \A t \in Session : t # s => Busy(t, "idle")
      BY <1>7, <2>7, <2>8 DEF ManualInv, OneAtWork, Delay, Busy
    <3>2. QED
      BY <2>1, <3>1 DEF Busy, NoRequest
  <2>9. ASSUME ~raced' PROVE \A a \in Action : tasks'[a] = IF a = action THEN 1 ELSE 0
    BY <2>2, <2>3, <2>7, <2>9 DEF NoTask, ManualTypeOK
  <2>10. ASSUME ~raced'
         PROVE  OneAtWork' /\ OneLockEach' /\ OneTask' /\ \A t \in Session : Knows(t)'
    <3>1. OneAtWork' /\ \A t \in Session : Knows(t)'
      BY <2>8, <2>10 DEF OneAtWork, Knows, Busy, Action
    <3>2. OneLockEach'
      BY <1>7, <2>7, <2>10 DEF ManualInv, OneLockEach, Active, Delay
    <3>3. OneTask'
      BY <2>9, <2>10 DEF OneTask
    <3>4. QED
      BY <3>1, <3>2, <3>3
  <2>11. ASSUME ~raced', faults' = 0, Active("pm")' # {} PROVE LatestWord'
    <3>1. LatestWord
      BY <1>7, <2>7, <2>11 DEF ManualInv, Active, Delay
    <3>2. action = "lock"
      BY <1>7, <3>1 DEF LatestWord, Delay, action
    <3>3. \A t \in Session : ~Busy(t, "delay")'
      BY <2>8, <2>11 DEF Busy
    <3>4. tasks'["lock"] > 0
      BY <2>9, <2>11, <3>2 DEF Action
    <3>5. tasks' # NoTask
      BY <3>4 DEF NoTask, Action
    <3>6. QED
      BY <3>3, <3>4, <3>5 DEF LatestWord
  <2>12. QED
    BY <2>5, <2>6, <2>10, <2>11 DEF ManualInv
<1>8. QED
  BY <1>1, <1>3, <1>4, <1>5, <1>6, <1>7
  DEF ManualLockService, ApplyManualLock, ApplyLock, RemovePMLock
\* The steps of the worker keep them, too.
LEMMA WorkerKeeps ==
    ASSUME ManualTypeOK, ManualInv, Apply \/ ApplyFails \/ ApplyAgain
    PROVE  ManualTypeOK' /\ ManualInv'
<1>1. UNCHANGED <<locks, restricted, req, raced, now>>
  BY DEF Apply, ApplyFails, ApplyAgain
<1>2. InOrder' /\ HasRow' /\ Active("pm")' = Active("pm")
  BY <1>1 DEF ManualInv, InOrder, Inserted, HasRow, Active
<1>3. ~raced => /\ OneAtWork' /\ OneLockEach'
                /\ \A s \in Session : Knows(s)'
  BY <1>1 DEF ManualInv, OneAtWork, OneLockEach, Knows, Busy, Active
<1>4. /\ granted' \in Permission /\ faults' \in 0..MaxFaults
      /\ faults' = 0 => faults = 0 /\ Apply
  BY ManualAssumption
  DEF Apply, ApplyFails, ApplyAgain, SharePointPermission, Permission, ManualTypeOK
<1>5. \/ tasks' = tasks
      \/ \E action \in Action : Taken(action)
  BY DEF Apply, ApplyFails, ApplyAgain
<1>6. /\ tasks' \in [Action -> 0..MaxTasks]
      /\ \A a \in Action : tasks'[a] <= tasks[a]
  <2>1. tasks \in [Action -> 0..MaxTasks]
    BY DEF ManualTypeOK
  <2>2. CASE tasks' = tasks
    BY <2>1, <2>2
  <2>3. ASSUME NEW action \in Action, Taken(action)
        PROVE  /\ tasks' \in [Action -> 0..MaxTasks]
               /\ \A a \in Action : tasks'[a] <= tasks[a]
    <3>1. tasks[action] - 1 \in 0..MaxTasks /\ tasks[action] - 1 <= tasks[action]
      BY <2>1, <2>3, ManualAssumption DEF Taken
    <3>2. QED
      BY <2>1, <2>3, <3>1 DEF Taken
  <2>4. QED
    BY <1>5, <2>2, <2>3
<1>7. ManualTypeOK'
  BY <1>1, <1>4, <1>6 DEF ManualTypeOK
<1>8. ASSUME ~raced PROVE OneTask'
  <2>1. OneTask /\ tasks \in [Action -> 0..MaxTasks]
    BY <1>8 DEF ManualInv, ManualTypeOK
  <2>2. QED
    BY <1>6, <2>1, ManualAssumption DEF OneTask
<1>9. ASSUME ~raced', faults' = 0, Active("pm")' # {} PROVE LatestWord'
  <2>1. LatestWord /\ OneTask /\ Apply
    BY <1>1, <1>2, <1>4, <1>9 DEF ManualInv
  <2>2. CASE \E s \in Session : Busy(s, "delay")
    BY <1>1, <2>1, <2>2 DEF LatestWord, Busy
  <2>3. CASE ~\E s \in Session : Busy(s, "delay")
    <3>1. PICK action \in Action : Taken(action) /\ granted' = SharePointPermission(action)
      BY <2>1 DEF Apply
    <3>2. tasks # NoTask
      BY <3>1 DEF Taken, NoTask
    <3>3. tasks["lock"] > 0
      BY <2>1, <2>3, <3>2 DEF LatestWord
    <3>4. action = "lock" /\ tasks["lock"] = 1
      BY <2>1, <3>1, <3>3 DEF OneTask, Taken, Action
    <3>5. \A a \in Action : tasks'[a] = 0
      <4>1. tasks \in [Action -> 0..MaxTasks]
        BY DEF ManualTypeOK
      <4>2. tasks'["lock"] = 0 /\ tasks'["unlock"] = tasks["unlock"]
        BY <3>1, <3>4, <4>1 DEF Taken, Action
      <4>3. ~(tasks["unlock"] > 0)
        BY <2>1, <3>3 DEF OneTask, Action
      <4>4. tasks["unlock"] = 0
        BY <4>1, <4>3, ManualAssumption DEF Action
      <4>5. QED
        BY <4>2, <4>4 DEF Action
    <3>6. tasks' = NoTask
      BY <1>6, <3>5 DEF NoTask
    <3>7. granted' = "Read"
      BY <3>1, <3>4 DEF SharePointPermission
    <3>8. QED
      BY <1>1, <2>3, <3>6, <3>7 DEF LatestWord, Busy
  <2>4. QED
    BY <2>2, <2>3
<1>10. QED
  BY <1>1, <1>2, <1>3, <1>7, <1>8, <1>9 DEF ManualInv

\* The death of a request keeps them: whatever it was about to queue is lost.
LEMMA DeathKeeps ==
    ASSUME ManualTypeOK, ManualInv, NEW s \in Session, Dies(s)
    PROVE  ManualTypeOK' /\ ManualInv'
<1>1. faults' \in 0..MaxFaults /\ faults' # 0
  BY ManualAssumption DEF Dies, ManualTypeOK
<1>2. UNCHANGED <<locks, restricted, tasks, granted, raced, now>>
  BY DEF Dies
<1>3. /\ locks' \in Rows /\ InOrder' /\ restricted' \in BOOLEAN
      /\ (~raced => OneLockEach') /\ Active("pm")' = Active("pm")
  BY <1>2 DEF ManualTypeOK, ManualInv, Rows, InOrder, Inserted, OneLockEach, Active
<1>4. ~Busy(s, "idle") /\ Done(s)
  BY DEF Dies
<1>5. QED
  BY <1>1, <1>2, <1>3, <1>4, EndKeeps

\* What looks only at rows, requests and tasks does not see the clock.
LEMMA ClockKeeps ==
    ASSUME ManualTypeOK, ManualInv, Tick \/ UNCHANGED manualVars
    PROVE  ManualTypeOK' /\ ManualInv'
<1>1. UNCHANGED <<locks, restricted, req, tasks, granted, raced, faults>>
  BY DEF Tick, manualVars
<1>2. now' \in 1..MaxTime
  BY ManualAssumption DEF Tick, manualVars, ManualTypeOK
<1>3. ManualTypeOK'
  BY <1>1, <1>2 DEF ManualTypeOK
<1>4. InOrder' /\ HasRow' /\ Active("pm")' = Active("pm")
  BY <1>1 DEF ManualInv, InOrder, Inserted, HasRow, Active
<1>5. ~raced => OneAtWork' /\ OneLockEach'
  BY <1>1 DEF ManualInv, OneAtWork, OneLockEach, Busy, Active
<1>6. ~raced => OneTask'
  BY <1>1 DEF ManualInv, OneTask
<1>7. ~raced => \A s \in Session : Knows(s)'
  BY <1>1 DEF ManualInv, Knows, Busy, Active
<1>8. ~raced /\ faults = 0 /\ Active("pm") # {} => LatestWord'
  BY <1>1 DEF ManualInv, LatestWord, Busy
<1>9. QED
  BY <1>1, <1>3, <1>4, <1>5, <1>6, <1>7, <1>8 DEF ManualInv

\* No lock, no request and no task to begin with.
LEMMA ManualInitKeeps == ManualInit => ManualTypeOK /\ ManualInv
<1> SUFFICES ASSUME ManualInit PROVE ManualTypeOK /\ ManualInv
  OBVIOUS
<1>1. Unused \in LockRow /\ Unused.by = "none" /\ ~Unused.active
  BY ManualAssumption DEF Unused, LockRow, NoTime
<1>2. locks \in [Row -> LockRow] /\ \A l \in Row : locks[l] = Unused
  BY <1>1 DEF ManualInit
<1>3. tasks \in [Action -> 0..MaxTasks] /\ \A a \in Action : tasks[a] = 0
  BY ManualAssumption DEF ManualInit, NoTask
<1>4. req \in [Session -> Request] /\ \A s \in Session : req[s].op = "idle"
  BY NoRequestTyped DEF ManualInit, NoRequest
<1>5. ManualTypeOK
  <2>1. 0 \in 0..MaxFaults /\ 1 \in 1..MaxTime
    BY ManualAssumption
  <2>2. QED
    BY <1>2, <1>3, <1>4, <2>1 DEF ManualInit, ManualTypeOK, Permission
<1>6. Inserted = {} /\ \A by \in {"rbac", "pm"} : Active(by) = {}
  BY <1>1, <1>2 DEF Inserted, Active
<1>7. InOrder
  <2>1. Cardinality({}) = 0 /\ 1..0 = {}
    BY FS_EmptySet
  <2>2. QED
    BY <1>6, <2>1 DEF InOrder
<1>8. HasRow /\ OneAtWork /\ \A s \in Session : Knows(s)
  BY <1>4 DEF HasRow, OneAtWork, Knows, Busy, Action
<1>9. OneLockEach /\ OneTask
  BY <1>3, <1>6 DEF OneLockEach, OneTask, ManualInit
<1>10. QED
  BY <1>5, <1>6, <1>7, <1>8, <1>9 DEF ManualInv

\* Every step keeps types and invariant.
LEMMA ManualNextKeeps ==
    ManualTypeOK /\ ManualInv /\ [ManualNext]_manualVars => ManualTypeOK' /\ ManualInv'
BY LockServiceKeeps, ManualLockServiceKeeps, WorkerKeeps, DeathKeeps, ClockKeeps
   DEF ManualNext

\* Both hold in every state.
LEMMA ManualInvariant == ManualSpec => [](ManualTypeOK /\ ManualInv)
<1>1. QED
  BY ManualInitKeeps, ManualNextKeeps, PTL DEF ManualSpec

\* The variables keep their types, whatever requests overlap, die and fail.
THEOREM ManualTypeCorrect == ManualSpec => []ManualTypeOK
<1>1. QED
  BY ManualInvariant, PTL

\* Without overlap a service has at most one lock on the folder, and the assignments
\* are restricted exactly while LockService has one.
THEOREM LocksAreSerial == ManualSpec => []SerialLocks
<1>1. ManualTypeOK /\ ManualInv => SerialLocks
  <2> SUFFICES ASSUME ManualInv, ~raced
               PROVE  /\ \A by \in {"rbac", "pm"} : Cardinality(Active(by)) <= 1
                      /\ restricted <=> Active("rbac") # {}
    BY DEF SerialLocks
  <2>1. OneLockEach
    BY DEF ManualInv
  <2>2. ASSUME NEW by \in {"rbac", "pm"} PROVE Cardinality(Active(by)) <= 1
    <3>1. CASE Active(by) = {}
      BY <3>1, FS_EmptySet
    <3>2. CASE Active(by) # {}
      <4>1. PICK l \in Active(by) : TRUE
        BY <3>2
      <4>2. Active(by) = {l}
        BY <2>1, <4>1 DEF OneLockEach
      <4>3. QED
        BY <4>2, FS_Singleton
    <3>3. QED
      BY <3>1, <3>2
  <2>3. QED
    BY <2>1, <2>2 DEF OneLockEach
<1>2. QED
  BY <1>1, ManualInvariant, PTL

\* Without overlap, deaths and failures, SharePoint shows a PM's lock once the queue
\* is empty.
THEOREM SharePointHasFollowed == ManualSpec => []SharePointFollows
<1>1. ManualTypeOK /\ ManualInv => SharePointFollows
  BY DEF ManualInv, LatestWord, SharePointFollows
<1>2. QED
  BY <1>1, ManualInvariant, PTL
=============================================================================
