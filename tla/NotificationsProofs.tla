------------------------- MODULE NotificationsProofs -------------------------
(***************************************************************************)
(* Proofs about Notifications, for any number of callers, executions, rows *)
(* and retries: its type invariant, how often a recipient can get a        *)
(* notification of one event, how often a row is tried, and which rows     *)
(* executions leave behind.                                                *)
(***************************************************************************)
EXTENDS Notifications, FiniteSetTheorems, TLAPS

\* The rows are queued one after the other, a batch holds queued rows, and an
\* execution sends a row of its batch.
QueueInv ==
    /\ Queued = 1..Cardinality(Queued)
    /\ \A p \in Processor : /\ Batch(p) \subseteq Queued
                            /\ current[p] # 0 => current[p] \in Batch(p)

TypeInv == TypeOK /\ QueueInv

\* A row that executions shared may be tried more often; of any other the
\* attempts are in retry_count, in the batch that holds the row, or both.
AttemptInv(n) ==
    /\ rows[n].status = "none" => attempts[n] = 0
    /\ n \notin shared =>
         /\ attempts[n] <= MaxRetries
         /\ rows[n].status = "pending" => attempts[n] <= rows[n].retry_count
         /\ \A p \in Processor : n \in Batch(p) =>
              attempts[n] <= batch[p][n] + (IF current[p] = n THEN 1 ELSE 0)
         /\ \A p, q \in Processor : n \in Batch(p) /\ n \in Batch(q) => p = q

-----------------------------------------------------------------------------
\* The number of queued rows.
LEMMA QueuedCount ==
    ASSUME TypeOK
    PROVE  Cardinality(Queued) \in 0..MaxRows
  <1>1. Queued \subseteq Row /\ IsFiniteSet(Row) /\ Cardinality(Row) = MaxRows
    BY FS_Interval, ParameterAssumption DEF Queued, Row
  <1>2. IsFiniteSet(Queued) /\ Cardinality(Queued) <= MaxRows
    BY <1>1, FS_Subset
  <1>3. QED
    BY <1>2, FS_CardinalityType, ParameterAssumption

\* What Inserted makes of the rows.
LEMMA InsertedRows ==
    ASSUME TypeInv, NEW count \in Nat, NEW schedule \in Schedule,
           NEW priority \in 1..10,
           Cardinality(Queued) + count <= MaxRows,
           rows' = Inserted(count, schedule, priority)
    PROVE  /\ rows' \in [Row -> NotificationQueue]
           /\ Queued' = 1..Cardinality(Queued') /\ Queued \subseteq Queued'
           /\ \A n \in Row : \/ rows'[n] = rows[n]
                             \/ /\ rows[n].status = "none"
                                /\ rows'[n].status = "pending" /\ rows'[n].retry_count = 0
  <1> DEFINE row == [status |-> "pending", retry_count |-> 0,
                     scheduled_for |-> schedule, priority |-> priority]
             first == Cardinality(Queued)
             last == first + count
  <1>1. /\ row \in NotificationQueue
        /\ row.status = "pending" /\ row.retry_count = 0
    BY ParameterAssumption DEF NotificationQueue, Status
  <1>2. rows' = [n \in Row |-> IF n \in first + 1 .. last THEN row ELSE rows[n]]
    BY DEF Inserted
  <1>3. first \in Nat /\ last \in Nat /\ first <= last /\ last <= MaxRows
    BY QueuedCount, FS_CardinalityType, ParameterAssumption DEF TypeInv
  <1> HIDE DEF row, last
  <1>4. Queued = 1..first
    BY DEF TypeInv, QueueInv
  <1>5. Queued' = {n \in Row : rows'[n].status # "none"}
    BY DEF Queued
  <1>6. \A n \in Row : n \in Queued <=> rows[n].status # "none"
    BY DEF Queued
  <1> HIDE DEF first
  <1>7. Queued' = 1..last
    BY <1>1, <1>2, <1>3, <1>4, <1>5, <1>6, ParameterAssumption DEF Row
  <1>8. Cardinality(Queued') = last
    BY <1>3, <1>7, FS_Interval
  <1>9. rows' \in [Row -> NotificationQueue]
    BY <1>1, <1>2 DEF TypeInv, TypeOK
  <1>10. QED
    BY <1>1, <1>2, <1>3, <1>4, <1>6, <1>7, <1>8, <1>9, ParameterAssumption DEF Row

\* A row that is queued is given new columns and stays queued.
LEMMA RowWritten ==
    ASSUME TypeInv, NEW n \in Queued, NEW row \in NotificationQueue,
           row.status # "none", rows' = [rows EXCEPT ![n] = row]
    PROVE  /\ rows' \in [Row -> NotificationQueue]
           /\ Queued' = Queued
           /\ \A m \in Row : m # n => rows'[m] = rows[m]
           /\ rows'[n] = row
  BY DEF TypeInv, TypeOK, Queued

\* The initial state.
LEMMA InitType == Init => TypeInv
  <1> SUFFICES ASSUME Init PROVE TypeInv
    OBVIOUS
  <1>1. TypeOK
    BY ParameterAssumption
       DEF Init, TypeOK, NoRow, NotLoaded, NotificationQueue, History,
           Status, Schedule
  <1>2. Queued = {} /\ \A p \in Processor : Batch(p) = {}
    BY DEF Init, Queued, NoRow, Batch
  <1>3. Queued = 1..Cardinality(Queued)
    BY <1>2, FS_EmptySet
  <1>4. QED
    BY <1>1, <1>2, <1>3 DEF Init, TypeInv, QueueInv

-----------------------------------------------------------------------------
\* A session is about to queue finitely many recipients.
LEMMA RecipientsFinite == IsFiniteSet(Recipient)
  <1>1. IsFiniteSet(1..MaxRecipients) /\ IsFiniteSet(Caller)
    BY FS_Interval, ParameterAssumption
  <1>2. QED
    BY <1>1, FS_Product DEF Recipient

\* The number of recipients, of all or of one key.
LEMMA NamedCount ==
    ASSUME NEW c \in Caller
    PROVE  /\ Cardinality(Named(c)) \in Nat
           /\ \A k \in Key : Cardinality(NamedAs(c, k)) \in Nat
  BY RecipientsFinite, FS_Subset, FS_CardinalityType DEF Named, NamedAs

\* A session that is through with one more recipient.
LEMMA PassesType ==
    ASSUME TypeInv, NEW c \in Caller, NEW key \in Key \cup {NoKey}, Passes(c, key)
    PROVE  TypeInv'
  <1>1. done[c] + 1 \in 1..MaxRecipients
    BY ParameterAssumption DEF Passes, TypeInv, TypeOK
  <1>2. done' \in [Caller -> 0..MaxRecipients]
    BY <1>1, ParameterAssumption DEF Passes, TypeInv, TypeOK
  <1>3. named' \in [Recipient -> Key \cup {NoKey}]
    BY <1>1 DEF Passes, TypeInv, TypeOK, Recipient
  <1>4. QED
    BY <1>2, <1>3 DEF Passes, TypeInv, TypeOK, QueueInv, queueVars, Queued, Batch

\* A session without uncommitted rows.
LEMMA EmptiedType ==
    ASSUME TypeInv, NEW c \in Caller, Emptied(c)
    PROVE  /\ done' \in [Caller -> 0..MaxRecipients]
           /\ named' \in [Recipient -> Key \cup {NoKey}]
  BY ParameterAssumption DEF Emptied, TypeInv, TypeOK

\* The steps of the callers keep the type.
LEMMA CallerType ==
    ASSUME TypeInv, NEW c \in Caller, QueueNotification(c)
    PROVE  TypeInv'
  <1>1. ASSUME NEW k \in Key, LooksFresh(c, k) \/ LooksDuplicate(c, k) \/ Bypasses(c, k)
        PROVE  TypeInv'
    BY <1>1, PassesType DEF LooksFresh, LooksDuplicate, Bypasses
  <1>2. ASSUME NEW k \in Key, LookupRaises(c, k) PROVE TypeInv'
    <2>1. CASE Passes(c, NoKey)
      BY <2>1, PassesType
    <2>2. CASE Emptied(c) /\ UNCHANGED <<history, queueVars>>
      BY <2>2, EmptiedType DEF TypeInv, TypeOK, QueueInv, queueVars, Queued, Batch
    <2>3. QED
      BY <1>2, <2>1, <2>2 DEF LookupRaises
  <1>3. ASSUME NEW schedule \in AtOnce, NEW priority \in Priority,
               CommitQueue(c, schedule, priority)
        PROVE  TypeInv'
    <2>1. schedule \in Schedule /\ priority \in 1..10
      BY ParameterAssumption DEF AtOnce, Schedule
    <2>2. /\ rows' \in [Row -> NotificationQueue]
          /\ Queued' = 1..Cardinality(Queued') /\ Queued \subseteq Queued'
      BY <1>3, <2>1, InsertedRows, NamedCount DEF CommitQueue
    <2>3. history' \in [Key -> History]
      <3>1. \A k \in Key : Cardinality(NamedAs(c, k)) \in Nat
        BY NamedCount
      <3>2. QED
        BY <1>3, <3>1 DEF CommitQueue, TypeInv, TypeOK, Remembered, History
    <2>4. QED
      BY <1>3, <2>2, <2>3, EmptiedType DEF CommitQueue, TypeInv, TypeOK, QueueInv, Batch
  <1>4. QED
    BY <1>1, <1>2, <1>3 DEF QueueNotification

\* A row queued without an event.
LEMMA UntrackedType ==
    ASSUME TypeInv, NEW schedule \in AtOnce, NEW priority \in 1..10,
           QueueUntracked(schedule, priority)
    PROVE  TypeInv'
  <1>2. Cardinality(Queued) + 1 <= MaxRows
    BY QueuedCount, ParameterAssumption DEF QueueUntracked, TypeInv
  <1>3. schedule \in Schedule
    BY DEF AtOnce, Schedule
  <1>4. rows' \in [Row -> NotificationQueue] /\ Queued' = 1..Cardinality(Queued')
        /\ Queued \subseteq Queued'
    BY <1>2, <1>3, InsertedRows DEF QueueUntracked
  <1>5. QED
    BY <1>4 DEF QueueUntracked, callVars, TypeInv, TypeOK, QueueInv, Batch

\* What a failed attempt makes of a row.
LEMMA FailedRow ==
    ASSUME NEW row \in NotificationQueue, NEW count \in 1..MaxRetries
    PROVE  /\ AfterFailure(row, count) \in NotificationQueue
           /\ AfterFailure(row, count).status \in {"pending", "failed"}
           /\ AfterFailure(row, count).retry_count = count
  <1>1. count \in 0..MaxRetries
    BY ParameterAssumption
  <1>2. GivenUp(row, count) \in NotificationQueue
        /\ Rescheduled(row, count) \in NotificationQueue
    BY <1>1 DEF GivenUp, Rescheduled, NotificationQueue, Status, Schedule
  <1>3. QED
    BY <1>2 DEF AfterFailure, GivenUp, Rescheduled

\* The steps of an execution of process_queue keep the type.
LEMMA ProcessorType ==
    ASSUME TypeInv, NEW p \in Processor, ProcessQueue(p) \/ Dies(p)
    PROVE  TypeInv'
  <1>0. TypeOK /\ QueueInv
    BY DEF TypeInv
  <1>1. CASE Select(p)
    <2>1. batch' \in [Processor -> [Row -> 0..MaxRetries]]
      BY <1>0, <1>1, ParameterAssumption DEF Select, TypeOK, NotificationQueue, NotLoaded
    <2>2. shared' \in SUBSET Row
      BY <1>0, <1>1 DEF Select, TypeOK, FirstOf, Selectable
    <2>3. \A n \in Row : n \in FirstOf(Selectable, BatchSize) => n \in Queued
      BY DEF FirstOf, Selectable, Queued
    <2>4. Queued' = Queued
      BY <1>1 DEF Select, Queued
    <2>5. QueueInv'
      BY <1>0, <1>1, <2>3, <2>4 DEF Select, QueueInv, Batch, TypeOK
    <2>6. QED
      BY <1>0, <1>1, <2>1, <2>2, <2>5 DEF Select, callVars, TypeInv, TypeOK
  <1>2. ASSUME NEW n \in Row, Take(p, n) PROVE TypeInv'
    <2> DEFINE row == [rows[n] EXCEPT !.status = "processing"]
    <2>1. n \in Batch(p) /\ n \in Queued
      BY <1>0, <1>2 DEF Take, FirstOf, QueueInv
    <2>2. row \in NotificationQueue /\ row.status = "processing"
      BY <1>0 DEF TypeOK, NotificationQueue, Status
    <2>3. rows' = [rows EXCEPT ![n] = row]
      BY <1>2 DEF Take
    <2> HIDE DEF row
    <2>4. rows' \in [Row -> NotificationQueue] /\ Queued' = Queued
      BY <2>1, <2>2, <2>3, RowWritten
    <2>5. QueueInv'
      BY <1>0, <1>2, <2>1, <2>4 DEF Take, QueueInv, Batch, TypeOK
    <2>6. current' \in [Processor -> 0..MaxRows] /\ attempts' \in [Row -> Nat]
      BY <1>0, <1>2, ParameterAssumption DEF Take, TypeOK, Row
    <2>7. UNCHANGED <<history, done, named, batch, shared, deaths>>
      BY <1>2 DEF Take, callVars
    <2>8. QED
      BY <1>0, <2>4, <2>5, <2>6, <2>7 DEF TypeInv, TypeOK
  <1>3. ASSUME NEW row \in NotificationQueue, row.status # "none", current[p] # 0,
               rows' = [rows EXCEPT ![current[p]] = row], Finish(p),
               UNCHANGED <<attempts, shared, deaths, callVars>>
        PROVE  TypeInv'
    <2>1. current[p] \in Queued
      BY <1>0, <1>3 DEF QueueInv
    <2>2. rows' \in [Row -> NotificationQueue] /\ Queued' = Queued
      BY <1>3, <2>1, RowWritten
    <2>3. batch' \in [Processor -> [Row -> 0..MaxRetries]]
      <3>1. NotLoaded \in 0..MaxRetries
        BY ParameterAssumption DEF NotLoaded
      <3>2. [batch[p] EXCEPT ![current[p]] = NotLoaded] \in [Row -> 0..MaxRetries]
        BY <1>0, <3>1 DEF TypeOK
      <3>3. batch' = [batch EXCEPT ![p] = [batch[p] EXCEPT ![current[p]] = NotLoaded]]
        BY <1>3 DEF Finish
      <3>4. QED
        BY <1>0, <3>2, <3>3 DEF TypeOK
    <2>4. \A q \in Processor : Batch(q)' \subseteq Batch(q)
      BY <1>0, <1>3 DEF Finish, Batch, TypeOK
    <2>5. \A q \in Processor : q # p => Batch(q)' = Batch(q) /\ current'[q] = current[q]
      BY <1>0, <1>3 DEF Finish, Batch, TypeOK
    <2>6. QueueInv'
      BY <1>0, <1>3, <2>2, <2>4, <2>5 DEF Finish, QueueInv, TypeOK
    <2>7. current' \in [Processor -> 0..MaxRows]
      BY <1>0, <1>3, ParameterAssumption DEF Finish, TypeOK
    <2>8. UNCHANGED <<history, done, named, attempts, shared, deaths>>
      BY <1>3 DEF callVars
    <2>9. QED
      BY <1>0, <2>2, <2>3, <2>6, <2>7, <2>8 DEF TypeInv, TypeOK
  <1>4. CASE SendSucceeds(p)
    <2> DEFINE row == [rows[current[p]] EXCEPT !.status = "sent"]
    <2>1. current[p] \in Row
      BY <1>0, <1>4 DEF SendSucceeds, QueueInv, Queued
    <2>2. row \in NotificationQueue /\ row.status = "sent"
      BY <1>0, <2>1 DEF TypeOK, NotificationQueue, Status
    <2>3. rows' = [rows EXCEPT ![current[p]] = row]
      BY <1>4 DEF SendSucceeds
    <2> HIDE DEF row
    <2>4. QED
      BY <1>3, <1>4, <2>2, <2>3 DEF SendSucceeds
  <1>5. CASE SendFails(p)
    <2> DEFINE count == batch[p][current[p]] + 1
               row == AfterFailure(rows[current[p]], count)
    <2>1. current[p] \in Row /\ current[p] \in Batch(p)
      BY <1>0, <1>5 DEF SendFails, Fails, QueueInv, Queued
    <2>2. count \in 1..MaxRetries
      <3>1. batch[p][current[p]] \in 0..MaxRetries /\ batch[p][current[p]] # MaxRetries
        BY <1>0, <2>1 DEF Batch, TypeOK, NotLoaded
      <3>2. QED
        BY <3>1, ParameterAssumption
    <2>3. rows' = [rows EXCEPT ![current[p]] = row]
      BY <1>5 DEF SendFails, Fails
    <2> HIDE DEF count
    <2>4. row \in NotificationQueue /\ row.status # "none"
      BY <1>0, <2>1, <2>2, FailedRow DEF TypeOK
    <2> HIDE DEF row
    <2>5. QED
      BY <1>3, <1>5, <2>3, <2>4 DEF SendFails, Fails
  <1>6. CASE Dies(p)
    <2>1. Queued' = Queued /\ \A q \in Processor : Batch(q)' \subseteq Batch(q)
      BY <1>0, <1>6 DEF Dies, Queued, Batch, TypeOK
    <2>2. \A q \in Processor : q # p => Batch(q)' = Batch(q) /\ current'[q] = current[q]
      BY <1>0, <1>6 DEF Dies, Batch, TypeOK
    <2>3. QueueInv'
      BY <1>0, <1>6, <2>1, <2>2 DEF Dies, QueueInv, TypeOK
    <2>4. QED
      BY <1>0, <1>6, <2>3, ParameterAssumption
         DEF Dies, callVars, TypeInv, TypeOK, NotLoaded
  <1>7. QED
    BY <1>1, <1>2, <1>4, <1>5, <1>6 DEF ProcessQueue, Work

\* One history row less.
LEMMA AgedHistory ==
    ASSUME TypeInv, NEW l \in Key, HistoryAges(l)
    PROVE  /\ history' \in [Key -> History]
           /\ \A k \in Key : history'[k].looked \in 0..history[k].looked
           /\ UNCHANGED <<done, named, queueVars>>
  <1>1. history[l].looked \in Nat /\ history[l].bypassed \in Nat
        /\ history[l] = [looked |-> history[l].looked, bypassed |-> history[l].bypassed]
    BY DEF TypeInv, TypeOK, History
  <1>2. CASE history[l].looked > 0
             /\ history' = [history EXCEPT ![l].looked = @ - 1]
    <2> DEFINE aged == [history[l] EXCEPT !.looked = history[l].looked - 1]
    <2>1. history' = [history EXCEPT ![l] = aged]
      BY <1>2
    <2>2. aged \in History /\ aged.looked \in 0..history[l].looked
      BY <1>1, <1>2 DEF History
    <2> HIDE DEF aged
    <2>3. QED
      BY <1>1, <2>1, <2>2 DEF HistoryAges, TypeInv, TypeOK, History
  <1>3. CASE history[l].bypassed > 0
             /\ history' = [history EXCEPT ![l].bypassed = @ - 1]
    <2> DEFINE aged == [history[l] EXCEPT !.bypassed = history[l].bypassed - 1]
    <2>1. history' = [history EXCEPT ![l] = aged]
      BY <1>3
    <2>2. aged \in History /\ aged.looked \in 0..history[l].looked
      BY <1>1, <1>3 DEF History
    <2> HIDE DEF aged
    <2>3. QED
      BY <1>1, <2>1, <2>2 DEF HistoryAges, TypeInv, TypeOK, History
  <1>4. QED
    BY <1>2, <1>3 DEF HistoryAges

\* Every step keeps the type.
LEMMA NextType == TypeInv /\ [Next]_vars => TypeInv'
  <1> SUFFICES ASSUME TypeInv, [Next]_vars PROVE TypeInv'
    OBVIOUS
  <1>0. TypeOK /\ QueueInv
    BY DEF TypeInv
  <1>1. ASSUME NEW priority \in Priority, SendNotification(priority) PROVE TypeInv'
    BY <1>1, UntrackedType, ParameterAssumption DEF SendNotification
  <1>2. CASE SendTestNotification
    BY <1>2, UntrackedType DEF SendTestNotification, AtOnce
  <1>3. ASSUME NEW k \in Key, HistoryAges(k) PROVE TypeInv'
    BY <1>0, <1>3, AgedHistory DEF queueVars, TypeInv, TypeOK, QueueInv, Queued, Batch
  <1>4. ASSUME NEW n \in Row, Due(n) PROVE TypeInv'
    <2>1. rows' \in [Row -> NotificationQueue] /\ Queued' = Queued
      BY <1>0, <1>4 DEF Due, TypeOK, NotificationQueue, Schedule, Queued
    <2>2. QED
      BY <1>0, <1>4, <2>1 DEF Due, callVars, TypeInv, TypeOK, QueueInv, Batch
  <1>5. CASE UNCHANGED vars
    BY <1>0, <1>5 DEF vars, TypeInv, TypeOK, QueueInv, Queued, Batch
  <1>6. QED
    BY <1>1, <1>2, <1>3, <1>4, <1>5, CallerType, ProcessorType DEF Next

\* The queue, the history, the batches and the attempts keep their types; in
\* particular retry_count never exceeds max_retries.
THEOREM TypeCorrect == Spec => []TypeOK
  <1>1. TypeInv => TypeOK
    BY DEF TypeInv
  <1>2. QED
    BY <1>1, InitType, NextType, PTL DEF Spec

-----------------------------------------------------------------------------
(* DedupBounded.                                                             *)

\* The lookups that found k missing and are not committed yet.
Fresh(k) == {s \in Lookups : named[s] = k}

\* What the history of a key and its uncommitted lookups come to.
Bounded(k) == history[k].looked + Cardinality(Fresh(k)) <= Cardinality(Lookups)

\* Lookups are finitely many, so the counts are numbers.
LEMMA LookupCounts ==
    /\ Cardinality(Lookups) \in Nat
    /\ Lookups \subseteq Recipient
    /\ \A S \in SUBSET Lookups :
         /\ IsFiniteSet(S) /\ Cardinality(S) \in Nat
         /\ Cardinality(S) <= Cardinality(Lookups)
         /\ \A T \in SUBSET S : Cardinality(T) <= Cardinality(S)
  <1>1. Lookups \subseteq Recipient
    BY DEF Lookups, Recipient
  <1>2. IsFiniteSet(Lookups)
    BY <1>1, RecipientsFinite, FS_Subset
  <1>3. QED
    BY <1>1, <1>2, FS_Subset, FS_CardinalityType

\* Neither more history nor more lookups.
LEMMA FewerStayBounded ==
    ASSUME TypeInv, NEW k \in Key, Bounded(k), Fresh(k)' \subseteq Fresh(k),
           history'[k].looked \in 0..history[k].looked
    PROVE  Bounded(k)'
  <1>1. Fresh(k) \in SUBSET Lookups /\ history[k].looked \in Nat
    BY DEF Fresh, TypeInv, TypeOK, History
  <1>2. /\ Cardinality(Fresh(k)) \in Nat /\ Cardinality(Fresh(k)') \in Nat
        /\ Cardinality(Fresh(k)') <= Cardinality(Fresh(k))
        /\ Cardinality(Lookups) \in Nat
    BY <1>1, LookupCounts
  <1>3. Lookups' = Lookups
    BY DEF Lookups
  <1>4. QED
    BY <1>1, <1>2, <1>3 DEF Bounded

\* A recipient more: one that looked fresh found no history row.
LEMMA PassesBounded ==
    ASSUME TypeInv, NEW k \in Key, Bounded(k), NEW c \in Caller,
           NEW key \in Key \cup {NoKey}, Passes(c, key),
           key = k => c \in Bypassing \/ history[k].looked = 0
    PROVE  Bounded(k)'
  <1>1. history' = history /\ Lookups' = Lookups
    BY DEF Passes, Lookups
  <1>2. CASE history[k].looked = 0
    <2>1. Fresh(k)' \in SUBSET Lookups
      BY <1>1 DEF Fresh
    <2>2. Cardinality(Fresh(k)') \in Nat /\ Cardinality(Fresh(k)') <= Cardinality(Lookups)
      BY <2>1, LookupCounts
    <2>3. QED
      BY <1>1, <1>2, <2>2 DEF Bounded
  <1>3. CASE history[k].looked # 0
    <2>1. \A s \in Lookups : named'[s] = k => named[s] = k
      <3> SUFFICES ASSUME NEW s \in Lookups, named'[s] = k PROVE named[s] = k
        OBVIOUS
      <3>1. s \in Recipient /\ s[1] \notin Bypassing
        BY DEF Lookups, Recipient
      <3>2. s # <<c, done[c] + 1>> \/ key # k
        BY <1>3, <3>1
      <3>3. named' = [named EXCEPT ![<<c, done[c] + 1>>] = key]
        BY DEF Passes
      <3>4. QED
        BY <3>1, <3>2, <3>3 DEF TypeInv, TypeOK
    <2>2. Fresh(k)' \subseteq Fresh(k)
      BY <1>1, <2>1 DEF Fresh
    <2>3. history'[k].looked \in 0..history[k].looked
      BY <1>1 DEF TypeInv, TypeOK, History
    <2>4. QED
      BY <2>2, <2>3, FewerStayBounded
  <1>4. QED
    BY <1>2, <1>3

\* A commit makes history rows of the lookups it uses up.
LEMMA CommitBounded ==
    ASSUME TypeInv, NEW k \in Key, Bounded(k), NEW c \in Caller,
           history' = Remembered(c), Emptied(c)
    PROVE  Bounded(k)'
  <1>1. Lookups' = Lookups
    BY DEF Lookups
  <1>2. Fresh(k)' = {s \in Lookups : s[1] # c /\ named[s] = k}
    <2>1. \A s \in Recipient : named'[s] = IF s[1] = c THEN NoKey ELSE named[s]
      BY DEF Emptied
    <2>2. k # NoKey
      BY ParameterAssumption
    <2>3. QED
      BY <1>1, <2>1, <2>2, LookupCounts DEF Fresh
  <1>3. CASE c \in Bypassing
    <2>1. history'[k].looked = history[k].looked
      BY <1>3 DEF Remembered, TypeInv, TypeOK, History
    <2>2. Fresh(k)' \subseteq Fresh(k)
      BY <1>2 DEF Fresh
    <2>3. QED
      BY <2>1, <2>2, FewerStayBounded DEF TypeInv, TypeOK, History
  <1>4. CASE c \notin Bypassing
    <2>1. history'[k].looked = history[k].looked + Cardinality(NamedAs(c, k))
      BY <1>4 DEF Remembered, TypeInv, TypeOK, History
    <2>2. NamedAs(c, k) \in SUBSET Fresh(k) /\ Fresh(k)' = Fresh(k) \ NamedAs(c, k)
      BY <1>2, <1>4 DEF NamedAs, Fresh, Lookups, Recipient
    <2>3. Fresh(k) \in SUBSET Lookups
      BY DEF Fresh
    <2>4. IsFiniteSet(Fresh(k)) /\ Fresh(k) \cap NamedAs(c, k) = NamedAs(c, k)
      BY <2>2, <2>3, LookupCounts
    <2>5. Cardinality(Fresh(k)') = Cardinality(Fresh(k)) - Cardinality(NamedAs(c, k))
      BY <2>2, <2>4, FS_Difference
    <2>6. Cardinality(Fresh(k)) \in Nat /\ Cardinality(NamedAs(c, k)) \in Nat
      BY <2>3, LookupCounts, NamedCount
    <2>7. history[k].looked \in Nat /\ Cardinality(Lookups) \in Nat
      BY LookupCounts DEF TypeInv, TypeOK, History
    <2>8. QED
      BY <1>1, <2>1, <2>5, <2>6, <2>7 DEF Bounded
  <1>5. QED
    BY <1>3, <1>4

\* A recipient who is looked up gets at most as many notifications of an event
\* as lookups run side by side: nobody looks fresh who has a history row, and a
\* lookup is used up by its commit.
THEOREM DedupIsBounded == Spec => []DedupBounded
  <1>1. Init => DedupBounded
    <2> SUFFICES ASSUME Init, NEW k \in Key PROVE Bounded(k)
      BY DEF DedupBounded, Bounded, Fresh
    <2>1. Fresh(k) = {} /\ history[k].looked = 0
      BY LookupCounts, ParameterAssumption DEF Init, Fresh
    <2>2. QED
      BY <2>1, FS_EmptySet, LookupCounts DEF Bounded
  <1>2. TypeInv /\ DedupBounded /\ [Next]_vars => DedupBounded'
    <2> SUFFICES ASSUME TypeInv, DedupBounded, [Next]_vars, NEW k \in Key
                 PROVE  Bounded(k)'
      BY DEF DedupBounded, Bounded, Fresh
    <2>0. Bounded(k) /\ k # NoKey
      BY ParameterAssumption DEF DedupBounded, Bounded, Fresh
    <2>1. ASSUME NEW c \in Caller, NEW l \in Key,
                 \/ LooksFresh(c, l) \/ LooksDuplicate(c, l)
                 \/ Bypasses(c, l) \/ LookupRaises(c, l)
          PROVE  Bounded(k)'
      <3>1. CASE LooksFresh(c, l)
        <4>1. Found(l) = 0 => history[l].looked = 0
          BY DEF Found, TypeInv, TypeOK, History
        <4>2. QED
          BY <2>0, <3>1, <4>1, PassesBounded DEF LooksFresh
      <3>2. CASE LooksDuplicate(c, l)
        BY <2>0, <3>2, PassesBounded DEF LooksDuplicate
      <3>3. CASE Bypasses(c, l)
        BY <2>0, <3>3, PassesBounded DEF Bypasses
      <3>4. CASE LookupRaises(c, l) /\ Passes(c, NoKey)
        BY <2>0, <3>4, PassesBounded
      <3>5. CASE LookupRaises(c, l) /\ Emptied(c) /\ UNCHANGED history
        <4>1. Fresh(k)' \subseteq Fresh(k)
          BY <2>0, <3>5, LookupCounts DEF Emptied, Fresh, Lookups, TypeInv, TypeOK
        <4>2. QED
          BY <2>0, <3>5, <4>1, FewerStayBounded DEF TypeInv, TypeOK, History
      <3>6. QED
        BY <2>1, <3>1, <3>2, <3>3, <3>4, <3>5 DEF LookupRaises
    <2>2. ASSUME NEW c \in Caller, NEW schedule \in AtOnce, NEW priority \in Priority,
                 CommitQueue(c, schedule, priority)
          PROVE  Bounded(k)'
      BY <2>0, <2>2, CommitBounded DEF CommitQueue
    <2>3. ASSUME NEW l \in Key, HistoryAges(l) PROVE Bounded(k)'
      <3>1. history'[k].looked \in 0..history[k].looked /\ named' = named
        BY <2>3, AgedHistory
      <3>2. Fresh(k)' \subseteq Fresh(k)
        BY <3>1 DEF Fresh, Lookups
      <3>3. QED
        BY <2>0, <3>1, <3>2, FewerStayBounded
    <2>4. ASSUME UNCHANGED callVars PROVE Bounded(k)'
      BY <2>0, <2>4 DEF callVars, Bounded, Fresh, Lookups
    <2>5. \A p \in Processor : ProcessQueue(p) \/ Dies(p) => UNCHANGED callVars
      BY DEF ProcessQueue, Work, Select, Take, SendSucceeds, SendFails, Fails, Dies
    <2>6. /\ \A priority \in Priority : SendNotification(priority) => UNCHANGED callVars
          /\ SendTestNotification => UNCHANGED callVars
          /\ \A n \in Row : Due(n) => UNCHANGED callVars
          /\ UNCHANGED vars => UNCHANGED callVars
      BY DEF SendNotification, SendTestNotification, QueueUntracked, Due, vars, callVars
    <2>7. QED
      BY <2>1, <2>2, <2>3, <2>4, <2>5, <2>6 DEF Next, QueueNotification
  <1>3. QED
    BY <1>1, <1>2, InitType, NextType, PTL DEF Spec

-----------------------------------------------------------------------------
(* AttemptsBounded.                                                          *)

AttemptsInv == \A n \in Row : AttemptInv(n)

\* What the invariant is about.
LEMMA AttemptTypes ==
    ASSUME TypeInv, NEW n \in Row
    PROVE  /\ attempts[n] \in Nat /\ rows[n].retry_count \in 0..MaxRetries
           /\ MaxRetries \in Nat \ {0}
           /\ \A p \in Processor :
                /\ batch[p][n] \in 0..MaxRetries
                /\ n \in Batch(p) <=> batch[p][n] # MaxRetries
                /\ current[p] = n => n \in Batch(p)
  <1>1. \A p \in Processor : current[p] = n => n \in Batch(p)
    BY ParameterAssumption DEF TypeInv, QueueInv, Row
  <1>2. QED
    BY <1>1, ParameterAssumption DEF TypeInv, TypeOK, NotificationQueue, Batch, NotLoaded

\* A step that leaves the executions alone and inserts rows at most.
LEMMA InsertKeepsAttempts ==
    ASSUME TypeInv, NEW n \in Row, AttemptInv(n),
           UNCHANGED <<batch, current, attempts, shared>>,
           \/ rows'[n] = rows[n]
           \/ rows'[n].status = rows[n].status /\ rows'[n].retry_count = rows[n].retry_count
           \/ /\ rows[n].status = "none"
              /\ rows'[n].status = "pending" /\ rows'[n].retry_count = 0
    PROVE  AttemptInv(n)'
  <1>1. \A p \in Processor : Batch(p)' = Batch(p)
    BY DEF Batch
  <1>2. QED
    BY <1>1, AttemptTypes DEF AttemptInv

\* An execution loads a batch: what it loads of a row nobody else holds is at
\* least what was tried.
LEMMA SelectKeepsAttempts ==
    ASSUME TypeInv, NEW n \in Row, AttemptInv(n), NEW p \in Processor, Select(p)
    PROVE  AttemptInv(n)'
  <1> DEFINE taken == FirstOf(Selectable, BatchSize)
  <1>1. /\ batch' = [batch EXCEPT ![p] = [m \in Row |-> IF m \in taken
                                                        THEN rows[m].retry_count
                                                        ELSE NotLoaded]]
        /\ shared' = shared \cup {m \in taken : \E q \in Processor : m \in Batch(q)}
        /\ current[p] = 0
        /\ UNCHANGED <<rows, current, attempts>>
    BY DEF Select
  <1>2. n \in taken => rows[n].status = "pending" /\ rows[n].retry_count < MaxRetries
    BY DEF FirstOf, Selectable
  <1> HIDE DEF taken
  <1>3. \A q \in Processor : q # p => batch'[q] = batch[q] /\ Batch(q)' = Batch(q)
    BY <1>1 DEF Batch, TypeInv, TypeOK
  <1>4. /\ n \in Batch(p)' <=> n \in taken
        /\ n \in taken => batch'[p][n] = rows[n].retry_count
    BY <1>1, <1>2, AttemptTypes DEF Batch, NotLoaded, TypeInv, TypeOK
  <1>5. CASE n \in shared'
    BY <1>1, <1>5 DEF AttemptInv
  <1>6. CASE n \notin shared'
    <2>1. n \notin shared /\ (n \in taken => \A q \in Processor : n \notin Batch(q))
      BY <1>1, <1>6
    <2>2. \A q \in Processor : n \in Batch(q)' =>
            attempts[n] <= batch'[q][n] + (IF current[q] = n THEN 1 ELSE 0)
      BY <1>2, <1>3, <1>4, <2>1, AttemptTypes DEF AttemptInv
    <2>3. \A q, r \in Processor : n \in Batch(q)' /\ n \in Batch(r)' => q = r
      BY <1>3, <1>4, <2>1 DEF AttemptInv
    <2>4. QED
      BY <1>1, <2>1, <2>2, <2>3 DEF AttemptInv
  <1>7. QED
    BY <1>5, <1>6

\* An execution takes a row of its batch: one attempt more.
LEMMA TakeKeepsAttempts ==
    ASSUME TypeInv, NEW n \in Row, AttemptInv(n), NEW p \in Processor, NEW m \in Row,
           Take(p, m)
    PROVE  AttemptInv(n)'
  <1>1. /\ current[p] = 0 /\ m \in Batch(p)
        /\ rows' = [rows EXCEPT ![m].status = "processing"]
        /\ current' = [current EXCEPT ![p] = m]
        /\ attempts' = [attempts EXCEPT ![m] = @ + 1]
        /\ UNCHANGED <<batch, shared>>
    BY DEF Take, FirstOf
  <1>2. \A q \in Processor : Batch(q)' = Batch(q)
    BY <1>1 DEF Batch
  <1>3. CASE m = n
    <2>1. rows'[n].status = "processing" /\ attempts'[n] = attempts[n] + 1
      BY <1>1, <1>3 DEF TypeInv, TypeOK, NotificationQueue
    <2>2. current[p] # n /\ current'[p] = n
      BY <1>1, <1>3, ParameterAssumption DEF TypeInv, TypeOK, Row
    <2>3. n \notin shared => /\ attempts[n] <= batch[p][n] /\ batch[p][n] < MaxRetries
                             /\ \A q \in Processor : n \in Batch(q) => q = p
      BY <1>1, <1>3, <2>2, AttemptTypes DEF AttemptInv
    <2>4. QED
      BY <1>1, <1>2, <2>1, <2>2, <2>3, AttemptTypes DEF AttemptInv
  <1>4. CASE m # n
    <2>1. /\ rows'[n] = rows[n] /\ attempts'[n] = attempts[n]
          /\ \A q \in Processor : current'[q] = n <=> current[q] = n
      BY <1>1, <1>4, ParameterAssumption DEF TypeInv, TypeOK, Row
    <2>2. QED
      BY <1>1, <1>2, <2>1 DEF AttemptInv
  <1>5. QED
    BY <1>3, <1>4

\* An execution lets go of a row, which gets a status and, when it stays
\* pending, the number of its attempts.
LEMMA FinishKeepsAttempts ==
    ASSUME TypeInv, NEW n \in Row, AttemptInv(n), NEW p \in Processor,
           current[p] # 0, Finish(p), UNCHANGED <<attempts, shared>>,
           NEW row, rows' = [rows EXCEPT ![current[p]] = row],
           row.status # "none",
           row.status = "pending" => row.retry_count = batch[p][current[p]] + 1
    PROVE  AttemptInv(n)'
  <1>1. /\ current' = [current EXCEPT ![p] = 0]
        /\ batch' = [batch EXCEPT ![p][current[p]] = NotLoaded]
    BY DEF Finish
  <1>2. \A q \in Processor : q # p => batch'[q] = batch[q] /\ Batch(q)' = Batch(q)
                                      /\ current'[q] = current[q]
    BY <1>1 DEF Batch, TypeInv, TypeOK
  <1>3. current[p] \in Row /\ current[p] \in Batch(p)
    BY DEF TypeInv, QueueInv, Batch
  <1>4. CASE current[p] = n
    <2>1. n \notin Batch(p)' /\ rows'[n] = row /\ n \in Batch(p)
      BY <1>1, <1>3, <1>4 DEF Batch, TypeInv, TypeOK
    <2>2. n \notin shared => attempts[n] <= batch[p][n] + 1
                             /\ \A q \in Processor : q # p => n \notin Batch(q)
      BY <1>4, <2>1 DEF AttemptInv
    <2>3. \A q \in Processor : n \notin shared => n \notin Batch(q)'
      BY <1>2, <2>1, <2>2
    <2>4. QED
      BY <1>4, <2>1, <2>2, <2>3, AttemptTypes DEF AttemptInv
  <1>5. CASE current[p] # n
    <2>1. rows'[n] = rows[n] /\ batch'[p][n] = batch[p][n] /\ (n \in Batch(p)' <=> n \in Batch(p))
      BY <1>1, <1>3, <1>5 DEF Batch, TypeInv, TypeOK
    <2>2. current'[p] # n /\ current[p] # n
      BY <1>1, <1>5, ParameterAssumption DEF TypeInv, TypeOK, Row
    <2>3. QED
      BY <1>2, <2>1, <2>2 DEF AttemptInv
  <1>6. QED
    BY <1>4, <1>5

\* An execution that dies lets go of its whole batch.
LEMMA DiesKeepsAttempts ==
    ASSUME TypeInv, NEW n \in Row, AttemptInv(n), NEW p \in Processor, Dies(p)
    PROVE  AttemptInv(n)'
  <1>1. \A q \in Processor : q # p => batch'[q] = batch[q] /\ Batch(q)' = Batch(q)
                                      /\ current'[q] = current[q]
    BY DEF Dies, Batch, TypeInv, TypeOK
  <1>2. Batch(p)' = {} /\ UNCHANGED <<rows, attempts, shared>>
    BY DEF Dies, Batch, TypeInv, TypeOK
  <1>3. QED
    BY <1>1, <1>2 DEF AttemptInv

\* A row two executions never held at the same time is tried at most
\* max_retries times, whatever fails, dies or is repeated.
THEOREM AttemptsAreBounded == Spec => []AttemptsBounded
  <1>1. Init => AttemptsInv
    BY ParameterAssumption
       DEF Init, AttemptsInv, AttemptInv, NoRow, Batch, NotLoaded
  <1>2. TypeInv /\ AttemptsInv /\ [Next]_vars => AttemptsInv'
    <2> SUFFICES ASSUME TypeInv, AttemptsInv, [Next]_vars, NEW n \in Row
                 PROVE  AttemptInv(n)'
      BY DEF AttemptsInv, Row
    <2>0. AttemptInv(n)
      BY DEF AttemptsInv
    <2>1. ASSUME NEW c \in Caller, QueueNotification(c) PROVE AttemptInv(n)'
      <3>1. ASSUME NEW schedule \in AtOnce, NEW priority \in Priority,
                   CommitQueue(c, schedule, priority)
            PROVE  AttemptInv(n)'
        <4>1. schedule \in Schedule /\ priority \in 1..10
          BY ParameterAssumption DEF AtOnce, Schedule
        <4>2. \/ rows'[n] = rows[n]
              \/ /\ rows[n].status = "none"
                 /\ rows'[n].status = "pending" /\ rows'[n].retry_count = 0
          BY <3>1, <4>1, InsertedRows, NamedCount DEF CommitQueue
        <4>3. QED
          BY <2>0, <3>1, <4>2, InsertKeepsAttempts DEF CommitQueue
      <3>2. ASSUME UNCHANGED queueVars PROVE AttemptInv(n)'
        BY <2>0, <3>2, InsertKeepsAttempts DEF queueVars
      <3>3. QED
        BY <2>1, <3>1, <3>2
           DEF QueueNotification, LooksFresh, LooksDuplicate, Bypasses, Passes, LookupRaises
    <2>2. ASSUME NEW schedule \in AtOnce, NEW priority \in 1..10,
                 QueueUntracked(schedule, priority)
          PROVE  AttemptInv(n)'
      <3>2. Cardinality(Queued) + 1 <= MaxRows
        BY <2>2, QueuedCount, ParameterAssumption DEF QueueUntracked, TypeInv
      <3>3. schedule \in Schedule
        BY DEF AtOnce, Schedule
      <3>4. \/ rows'[n] = rows[n]
            \/ /\ rows[n].status = "none"
               /\ rows'[n].status = "pending" /\ rows'[n].retry_count = 0
        BY <2>2, <3>2, <3>3, InsertedRows DEF QueueUntracked
      <3>5. QED
        BY <2>0, <2>2, <3>4, InsertKeepsAttempts DEF QueueUntracked
    <2>3. ASSUME NEW p \in Processor, SendSucceeds(p) PROVE AttemptInv(n)'
      <3> DEFINE row == [rows[current[p]] EXCEPT !.status = "sent"]
      <3>1. current[p] \in Row
        BY <2>3 DEF SendSucceeds, TypeInv, QueueInv, Batch
      <3>2. row.status = "sent"
        BY <3>1 DEF TypeInv, TypeOK, NotificationQueue
      <3>3. rows' = [rows EXCEPT ![current[p]] = row]
        BY <2>3 DEF SendSucceeds
      <3> HIDE DEF row
      <3>4. QED
        BY <2>0, <2>3, <3>2, <3>3, FinishKeepsAttempts DEF SendSucceeds
    <2>4. ASSUME NEW p \in Processor, SendFails(p) PROVE AttemptInv(n)'
      <3> DEFINE count == batch[p][current[p]] + 1
                 row == AfterFailure(rows[current[p]], count)
      <3>1. current[p] \in Row /\ current[p] \in Batch(p)
        BY <2>4 DEF SendFails, Fails, TypeInv, QueueInv, Batch
      <3>2. count \in 1..MaxRetries /\ rows[current[p]] \in NotificationQueue
        <4>1. batch[p][current[p]] \in 0..MaxRetries /\ batch[p][current[p]] # MaxRetries
          BY <3>1, AttemptTypes
        <4>2. count \in 1..MaxRetries
          BY <4>1, ParameterAssumption
        <4>3. rows[current[p]] \in NotificationQueue
          BY <3>1 DEF TypeInv, TypeOK
        <4>4. QED
          BY <4>2, <4>3
      <3>3. rows' = [rows EXCEPT ![current[p]] = row]
        BY <2>4 DEF SendFails, Fails
      <3>4. count = batch[p][current[p]] + 1
        OBVIOUS
      <3> HIDE DEF count
      <3>5. row.status # "none" /\ row.retry_count = count
        BY <3>2, FailedRow
      <3> HIDE DEF row
      <3>6. QED
        BY <2>0, <2>4, <3>3, <3>4, <3>5, FinishKeepsAttempts DEF SendFails, Fails
    <2>5. ASSUME NEW p \in Processor, ProcessQueue(p) \/ Dies(p) PROVE AttemptInv(n)'
      BY <2>0, <2>3, <2>4, <2>5, SelectKeepsAttempts, TakeKeepsAttempts, DiesKeepsAttempts
         DEF ProcessQueue, Work
    <2>6. ASSUME NEW m \in Row, Due(m) PROVE AttemptInv(n)'
      <3>1. rows'[n].status = rows[n].status /\ rows'[n].retry_count = rows[n].retry_count
        BY <2>6 DEF Due, TypeInv, TypeOK, NotificationQueue
      <3>2. QED
        BY <2>0, <2>6, <3>1, InsertKeepsAttempts DEF Due
    <2>7. ASSUME NEW k \in Key, HistoryAges(k) PROVE AttemptInv(n)'
      BY <2>0, <2>7, InsertKeepsAttempts DEF HistoryAges, queueVars
    <2>8. CASE UNCHANGED vars
      BY <2>0, <2>8, InsertKeepsAttempts DEF vars
    <2>9. ASSUME NEW priority \in Priority, SendNotification(priority) PROVE AttemptInv(n)'
      BY <2>2, <2>9, ParameterAssumption DEF SendNotification
    <2>10. CASE SendTestNotification
      BY <2>2, <2>10 DEF SendTestNotification, AtOnce
    <2>11. QED
      BY <2>1, <2>5, <2>6, <2>7, <2>8, <2>9, <2>10 DEF Next
  <1>3. AttemptsInv => AttemptsBounded
    BY DEF AttemptsInv, AttemptInv, AttemptsBounded
  <1>4. QED
    BY <1>1, <1>2, <1>3, InitType, NextType, PTL DEF Spec

-----------------------------------------------------------------------------
(* NothingStranded.                                                          *)

\* Stranded rows are finitely many.
LEMMA StrandedCount ==
    ASSUME TypeInv
    PROVE  IsFiniteSet(Stranded) /\ Cardinality(Stranded) \in Nat /\ deaths \in Nat
  <1>1. Stranded \subseteq Row /\ IsFiniteSet(Row)
    BY FS_Interval, ParameterAssumption DEF Stranded, Row
  <1>2. deaths \in Nat
    BY ParameterAssumption DEF TypeInv, TypeOK
  <1>3. QED
    BY <1>1, <1>2, FS_Subset, FS_CardinalityType

\* A step after which no other row is stranded.
LEMMA NoOtherStranded ==
    ASSUME TypeInv, TypeInv', NothingStranded, deaths' = deaths,
           \A n \in Row : n \in Stranded' => n \in Stranded
    PROVE  NothingStranded'
  <1>1. Stranded' \subseteq Stranded
    BY DEF Stranded
  <1>2. Cardinality(Stranded') <= Cardinality(Stranded)
    BY <1>1, StrandedCount, FS_Subset
  <1>3. Cardinality(Stranded') \in Nat
    BY StrandedCount, <1>1, FS_Subset, FS_CardinalityType
  <1>4. QED
    BY <1>2, <1>3, StrandedCount DEF NothingStranded

\* A row is stranded or not by its columns and by who works on it.
LEMMA SameStranded ==
    ASSUME NEW n \in Row, rows'[n] = rows[n], InWork(n) => InWork(n)'
    PROVE  n \in Stranded' => n \in Stranded
  BY DEF Stranded, Settled, Selected

\* An execution lets go of its row: what it wrote is settled or selected.
LEMMA FinishStrandsNothing ==
    ASSUME TypeInv, TypeInv', NothingStranded, NEW p \in Processor,
           current[p] # 0, Finish(p), deaths' = deaths,
           NEW row, rows' = [rows EXCEPT ![current[p]] = row],
           \/ row.status \in {"sent", "failed"}
           \/ row.status = "pending" /\ row.retry_count < MaxRetries
    PROVE  NothingStranded'
  <1>1. current[p] \in Row
    BY DEF TypeInv, QueueInv, Batch
  <1>2. ASSUME NEW n \in Row, n \in Stranded' PROVE n \in Stranded
    <2>1. CASE n = current[p]
      <3>1. rows'[n] = row
        BY <1>1, <2>1 DEF TypeInv, TypeOK
      <3>2. Settled(n)' \/ Selected(n)'
        BY <3>1 DEF Settled, Selected
      <3>3. QED
        BY <1>2, <3>2 DEF Stranded
    <2>2. CASE n # current[p]
      <3>1. rows'[n] = rows[n] /\ (InWork(n) => InWork(n)')
        BY <1>1, <2>2 DEF Finish, InWork, TypeInv, TypeOK
      <3>2. QED
        BY <1>2, <3>1, SameStranded
    <2>3. QED
      BY <2>1, <2>2
  <1>3. QED
    BY <1>2, NoOtherStranded

\* An execution that dies leaves the row it was at.
LEMMA DiesStrandsOne ==
    ASSUME TypeInv, TypeInv', NothingStranded, NEW p \in Processor, Dies(p)
    PROVE  NothingStranded'
  <1>1. \A n \in Row : n # current[p] => (InWork(n) => InWork(n)')
    BY DEF Dies, InWork, TypeInv, TypeOK
  <1>2. \A n \in Row : rows'[n] = rows[n]
    BY DEF Dies
  <1>3. Stranded' \subseteq Stranded \cup {current[p]}
    <2> SUFFICES ASSUME NEW n \in Row, n \in Stranded', n # current[p]
                 PROVE  n \in Stranded
      BY DEF Stranded
    <2>1. QED
      BY <1>1, <1>2, SameStranded
  <1>4. /\ IsFiniteSet(Stranded \cup {current[p]})
        /\ Cardinality(Stranded \cup {current[p]}) \in Nat
        /\ Cardinality(Stranded \cup {current[p]}) <= Cardinality(Stranded) + 1
    <2> DEFINE S == Stranded
               x == current[p]
    <2>1. IsFiniteSet(S) /\ Cardinality(S) \in Nat
      BY StrandedCount
    <2> HIDE DEF S, x
    <2>2. IsFiniteSet(S \cup {x})
          /\ Cardinality(S \cup {x}) = IF x \in S THEN Cardinality(S) ELSE Cardinality(S) + 1
      BY <2>1, FS_AddElement
    <2>3. /\ IsFiniteSet(S \cup {x})
          /\ Cardinality(S \cup {x}) \in Nat
          /\ Cardinality(S \cup {x}) <= Cardinality(S) + 1
      BY <2>1, <2>2
    <2>4. QED
      BY <2>3 DEF S, x
  <1>5. /\ Cardinality(Stranded') <= Cardinality(Stranded \cup {current[p]})
        /\ Cardinality(Stranded') \in Nat
    BY <1>3, <1>4, FS_Subset, FS_CardinalityType
  <1>6. deaths' = deaths + 1
    BY DEF Dies
  <1>7. QED
    BY <1>4, <1>5, <1>6, StrandedCount DEF NothingStranded

\* However executions overlap and overwrite each other's rows, only an
\* execution that dies leaves a scheduled row behind that nobody will select,
\* and it leaves one.
THEOREM NothingIsStranded == Spec => []NothingStranded
  <1>1. Init => NothingStranded
    <2> SUFFICES ASSUME Init PROVE NothingStranded
      OBVIOUS
    <2>1. Stranded = {}
      BY DEF Init, Stranded, NoRow
    <2>2. QED
      BY <2>1, FS_EmptySet DEF Init, NothingStranded
  <1>2. TypeInv /\ TypeInv' /\ NothingStranded /\ [Next]_vars => NothingStranded'
    <2> SUFFICES ASSUME TypeInv, TypeInv', NothingStranded, [Next]_vars
                 PROVE  NothingStranded'
      OBVIOUS
    <2>1. ASSUME UNCHANGED <<current, deaths>>, NEW count \in Nat,
                 NEW schedule \in Schedule, NEW priority \in 1..10,
                 Cardinality(Queued) + count <= MaxRows,
                 rows' = Inserted(count, schedule, priority)
          PROVE  NothingStranded'
      <3>1. ASSUME NEW n \in Row, n \in Stranded' PROVE n \in Stranded
        <4>1. \/ rows'[n] = rows[n]
              \/ rows'[n].status = "pending" /\ rows'[n].retry_count = 0
          BY <2>1, InsertedRows
        <4>2. InWork(n)' <=> InWork(n)
          BY <2>1 DEF InWork
        <4>3. rows'[n].status = "pending" /\ rows'[n].retry_count = 0 => Selected(n)'
          BY ParameterAssumption DEF Selected
        <4>4. ~Selected(n)'
          BY <3>1 DEF Stranded
        <4>5. QED
          BY <3>1, <4>1, <4>2, <4>3, <4>4, SameStranded
      <3>2. QED
        BY <2>1, <3>1, NoOtherStranded
    <2>2. ASSUME UNCHANGED <<rows, current, deaths>> PROVE NothingStranded'
      <3>1. ASSUME NEW n \in Row, n \in Stranded' PROVE n \in Stranded
        BY <2>2, <3>1, SameStranded DEF InWork
      <3>2. QED
        BY <2>2, <3>1, NoOtherStranded
    <2>3. ASSUME NEW c \in Caller, QueueNotification(c) PROVE NothingStranded'
      <3>1. ASSUME NEW schedule \in AtOnce, NEW priority \in Priority,
                   CommitQueue(c, schedule, priority)
            PROVE  NothingStranded'
        <4>1. schedule \in Schedule /\ priority \in 1..10
          BY ParameterAssumption DEF AtOnce, Schedule
        <4>2. QED
          BY <2>1, <3>1, <4>1, NamedCount DEF CommitQueue
      <3>2. ASSUME UNCHANGED queueVars PROVE NothingStranded'
        BY <2>2, <3>2 DEF queueVars
      <3>3. QED
        BY <2>3, <3>1, <3>2
           DEF QueueNotification, LooksFresh, LooksDuplicate, Bypasses, Passes, LookupRaises
    <2>4. ASSUME NEW schedule \in AtOnce, NEW priority \in 1..10,
                 QueueUntracked(schedule, priority)
          PROVE  NothingStranded'
      <3>1. Cardinality(Queued) + 1 <= MaxRows /\ schedule \in Schedule
        BY <2>4, QueuedCount, ParameterAssumption
           DEF QueueUntracked, TypeInv, AtOnce, Schedule
      <3>2. QED
        BY <2>1, <2>4, <3>1 DEF QueueUntracked
    <2>5. ASSUME NEW p \in Processor, NEW n \in Row, Take(p, n) PROVE NothingStranded'
      <3>1. ASSUME NEW m \in Row, m \in Stranded' PROVE m \in Stranded
        <4>1. CASE m = n
          <5>1. InWork(m)'
            BY <2>5, <4>1 DEF Take, InWork, TypeInv, TypeOK
          <5>2. QED
            BY <3>1, <5>1 DEF Stranded
        <4>2. CASE m # n
          <5>1. current[p] # m
            BY <2>5, ParameterAssumption DEF Take, Row
          <5>2. rows'[m] = rows[m] /\ (InWork(m) => InWork(m)')
            BY <2>5, <4>2, <5>1 DEF Take, InWork, TypeInv, TypeOK
          <5>3. QED
            BY <3>1, <5>2, SameStranded
        <4>3. QED
          BY <4>1, <4>2
      <3>2. QED
        BY <2>5, <3>1, NoOtherStranded DEF Take
    <2>6. ASSUME NEW p \in Processor, SendSucceeds(p) PROVE NothingStranded'
      <3> DEFINE row == [rows[current[p]] EXCEPT !.status = "sent"]
      <3>1. current[p] \in Row
        BY <2>6 DEF SendSucceeds, TypeInv, QueueInv, Batch
      <3>2. row.status = "sent"
        BY <3>1 DEF TypeInv, TypeOK, NotificationQueue
      <3>3. rows' = [rows EXCEPT ![current[p]] = row]
        BY <2>6 DEF SendSucceeds
      <3> HIDE DEF row
      <3>4. QED
        BY <2>6, <3>2, <3>3, FinishStrandsNothing DEF SendSucceeds
    <2>7. ASSUME NEW p \in Processor, SendFails(p) PROVE NothingStranded'
      <3> DEFINE row == AfterFailure(rows[current[p]], batch[p][current[p]] + 1)
      <3>1. current[p] \in Row /\ current[p] \in Batch(p)
        BY <2>7 DEF SendFails, Fails, TypeInv, QueueInv, Batch
      <3>2. batch[p][current[p]] \in 0..MaxRetries
        BY <3>1, AttemptTypes
      <3>3. \/ row.status \in {"sent", "failed"}
            \/ row.status = "pending" /\ row.retry_count < MaxRetries
        BY <3>2, ParameterAssumption DEF AfterFailure, GivenUp, Rescheduled
      <3>4. rows' = [rows EXCEPT ![current[p]] = row]
        BY <2>7 DEF SendFails, Fails
      <3> HIDE DEF row
      <3>5. QED
        BY <2>7, <3>3, <3>4, FinishStrandsNothing DEF SendFails, Fails
    <2>8. ASSUME NEW p \in Processor, ProcessQueue(p) \/ Dies(p) PROVE NothingStranded'
      <3>1. Select(p) => UNCHANGED <<rows, current, deaths>>
        BY DEF Select
      <3>2. QED
        BY <2>2, <2>5, <2>6, <2>7, <2>8, <3>1, DiesStrandsOne DEF ProcessQueue, Work
    <2>9. ASSUME NEW m \in Row, Due(m) PROVE NothingStranded'
      <3>1. ASSUME NEW n \in Row, n \in Stranded' PROVE n \in Stranded
        <4>1. /\ rows'[n].status = rows[n].status
              /\ rows'[n].retry_count = rows[n].retry_count
              /\ rows[n].scheduled_for = "null" => rows'[n].scheduled_for = "null"
          BY <2>9 DEF Due, TypeInv, TypeOK, NotificationQueue
        <4>2. InWork(n)' <=> InWork(n)
          BY <2>9 DEF Due, InWork
        <4>3. QED
          BY <3>1, <4>1, <4>2 DEF Stranded, Settled, Selected
      <3>2. QED
        BY <2>9, <3>1, NoOtherStranded DEF Due
    <2>10. ASSUME NEW k \in Key, HistoryAges(k) PROVE NothingStranded'
      BY <2>2, <2>10 DEF HistoryAges, queueVars
    <2>11. CASE UNCHANGED vars
      BY <2>2, <2>11 DEF vars
    <2>12. ASSUME NEW priority \in Priority, SendNotification(priority)
           PROVE  NothingStranded'
      BY <2>4, <2>12, ParameterAssumption DEF SendNotification
    <2>13. CASE SendTestNotification
      BY <2>4, <2>13 DEF SendTestNotification, AtOnce
    <2>14. QED
      BY <2>3, <2>8, <2>9, <2>10, <2>11, <2>12, <2>13 DEF Next
  <1>3. QED
    BY <1>1, <1>2, InitType, NextType, PTL DEF Spec
=============================================================================
