---------------------------- MODULE Notifications ----------------------------
(***************************************************************************)
(* The notification queue: callers of queue_notification, executions of    *)
(* process_queue, and the history that keeps duplicates out.               *)
(*                                                                         *)
(* A caller looks its recipients up in the history, one query after the    *)
(* other, and commits queue and history rows together at the end; sessions *)
(* do not autoflush, so it does not find the rows it is about to commit.   *)
(* A caller with bypass_dedup looks nobody up but leaves history rows as   *)
(* the others do.  An execution of process_queue loads a batch and then    *)
(* works on the loaded rows, which are not read again: it writes back a    *)
(* retry_count counted from what it loaded.                                *)
(***************************************************************************)
EXTENDS Naturals, FiniteSets

CONSTANTS
    Caller,        \* sessions that call queue_notification
    Bypassing,     \* those that call it with bypass_dedup
    Processor,     \* concurrent executions of process_queue
    Key,           \* dedup keys: event and recipient
    NoKey,         \* a recipient who is skipped, or not there yet
    Priority,      \* queue priorities in use, 1 is the highest
    MaxRetries,    \* max_retries
    BatchSize,     \* batch_size
    MaxRecipients, \* bound: recipients between two commits of a session
    MaxRows,       \* bound: rows ever queued
    MaxDeaths      \* bound: executions that die

ASSUME ParameterAssumption ==
    /\ MaxRetries \in Nat \ {0} /\ BatchSize \in Nat \ {0}
    /\ MaxRecipients \in Nat /\ MaxRows \in Nat /\ MaxDeaths \in Nat
    /\ IsFiniteSet(Caller) /\ Bypassing \subseteq Caller
    /\ NoKey \notin Key /\ Priority \subseteq 1..10

VARIABLES
    rows,     \* notification_queue in the order of created_at
    history,  \* per key, notification_history rows of the last 24 hours
    done,     \* per session, the recipients it is through with
    named,    \* per recipient of a session, the key of its uncommitted rows
    batch,    \* per execution, the retry_count it loaded of each row to do
    current,  \* per execution, the row it is sending, or 0
    attempts, \* per row, how often it was handed to the sender
    shared,   \* rows that two executions had loaded at the same time
    deaths

vars == <<rows, history, done, named, batch, current, attempts, shared, deaths>>

Row == 1..MaxRows
Status == {"none", "pending", "processing", "sent", "failed"}
Schedule == {"null", "due", "later"}   \* scheduled_for, against now
AtOnce == {"null", "due"}   \* asking for later is like asking later
NotificationQueue == [status : Status, retry_count : 0..MaxRetries,
                      scheduled_for : Schedule, priority : 1..10]
\* A history row was left after a lookup, or by a call that bypassed it.
History == [looked : Nat, bypassed : Nat]
Recipient == Caller \X (1..MaxRecipients)

NoRow == [status |-> "none", retry_count |-> 0, scheduled_for |-> "null",
          priority |-> 1]
NotLoaded == MaxRetries   \* the query selects smaller counts only

TypeOK ==
    /\ rows \in [Row -> NotificationQueue]
    /\ history \in [Key -> History]
    /\ done \in [Caller -> 0..MaxRecipients]
    /\ named \in [Recipient -> Key \cup {NoKey}]
    /\ batch \in [Processor -> [Row -> 0..MaxRetries]]
    /\ current \in [Processor -> 0..MaxRows]
    /\ attempts \in [Row -> Nat]
    /\ shared \in SUBSET Row
    /\ deaths \in 0..MaxDeaths

Init ==
    /\ rows = [n \in Row |-> NoRow]
    /\ history = [k \in Key |-> [looked |-> 0, bypassed |-> 0]]
    /\ done = [c \in Caller |-> 0]
    /\ named = [s \in Recipient |-> NoKey]
    /\ batch = [p \in Processor |-> [n \in Row |-> NotLoaded]]
    /\ current = [p \in Processor |-> 0]
    /\ attempts = [n \in Row |-> 0]
    /\ shared = {}
    /\ deaths = 0

Queued == {n \in Row : rows[n].status # "none"}
Batch(p) == {n \in Row : batch[p][n] # NotLoaded}
queueVars == <<rows, batch, current, attempts, shared, deaths>>
callVars == <<history, done, named>>

-----------------------------------------------------------------------------
\* What scalar_one_or_none is asked about: the rows a lookup finds.
Found(k) == history[k].looked + history[k].bypassed

\* queue_notification is through with one more recipient.
Passes(c, key) ==
    /\ done[c] < MaxRecipients
    /\ done' = [done EXCEPT ![c] = @ + 1]
    /\ named' = [named EXCEPT ![<<c, done[c] + 1>>] = key]
    /\ UNCHANGED <<history, queueVars>>

\* Mutant of LooksFresh: one row of the last 24 hours is no duplicate yet.
LooksFreshTwice(c, k) == c \notin Bypassing /\ Found(k) <= 1 /\ Passes(c, k)

\* _should_send_notification: no row of the last 24 hours.
LooksFresh(c, k) == c \notin Bypassing /\ Found(k) = 0 /\ Passes(c, k)

\* bypass_dedup: nothing is looked up.
Bypasses(c, k) == c \in Bypassing /\ Passes(c, k)

\* One row: skipped as a duplicate.
LooksDuplicate(c, k) == c \notin Bypassing /\ Found(k) = 1 /\ Passes(c, NoKey)

\* The session holds no uncommitted rows any more.
Emptied(c) ==
    /\ done' = [done EXCEPT ![c] = 0]
    /\ named' = [s \in Recipient |-> IF s[1] = c THEN NoKey ELSE named[s]]

\* Two rows: scalar_one_or_none raises.  The call is rolled back with its
\* session, or its caller goes on and a later commit takes the rows along.
LookupRaises(c, k) ==
    /\ c \notin Bypassing
    /\ Found(k) > 1
    /\ \/ Emptied(c) /\ UNCHANGED <<history, queueVars>>
       \/ Passes(c, NoKey)

Inserted(count, schedule, priority) ==
    LET first == Cardinality(Queued)
        row == [status |-> "pending", retry_count |-> 0,
                scheduled_for |-> schedule, priority |-> priority]
    IN  [n \in Row |-> IF n \in first + 1 .. first + count THEN row ELSE rows[n]]

\* The recipients of a session that are to be queued, and those of one key.
Named(c) == {s \in Recipient : s[1] = c /\ named[s] # NoKey}
NamedAs(c, k) == {s \in Recipient : s[1] = c /\ named[s] = k}

\* _record_notification_history, which is not asked about bypass_dedup
Remembered(c) ==
    [k \in Key |->
       IF c \in Bypassing
       THEN [history[k] EXCEPT !.bypassed = @ + Cardinality(NamedAs(c, k))]
       ELSE [history[k] EXCEPT !.looked = @ + Cardinality(NamedAs(c, k))]]

\* Queue and history rows of the recipients that looked fresh.
CommitQueue(c, schedule, priority) ==
    LET count == Cardinality(Named(c)) IN
    /\ done[c] > 0
    /\ Cardinality(Queued) + count <= MaxRows
    /\ rows' = Inserted(count, schedule, priority)
    /\ history' = Remembered(c)
    /\ Emptied(c)
    /\ UNCHANGED <<batch, current, attempts, shared, deaths>>

QueueNotification(c) ==
    \/ \E k \in Key :
          \/ LooksFresh(c, k) \/ LooksDuplicate(c, k)
          \/ Bypasses(c, k) \/ LookupRaises(c, k)
    \/ \E schedule \in AtOnce, priority \in Priority :
          CommitQueue(c, schedule, priority)

\* Without an event nothing is looked up or remembered.
QueueUntracked(schedule, priority) ==
    /\ Cardinality(Queued) < MaxRows
    /\ rows' = Inserted(1, schedule, priority)
    /\ UNCHANGED <<callVars, batch, current, attempts, shared, deaths>>

\* The /send endpoint names no event, and a test message has priority 1.
SendNotification(priority) ==
    \E schedule \in AtOnce : QueueUntracked(schedule, priority)
SendTestNotification == QueueUntracked("null", 1)

\* A history row gets older than 24 hours.
HistoryAges(k) ==
    /\ \/ /\ history[k].looked > 0
          /\ history' = [history EXCEPT ![k].looked = @ - 1]
       \/ /\ history[k].bypassed > 0
          /\ history' = [history EXCEPT ![k].bypassed = @ - 1]
    /\ UNCHANGED <<done, named, queueVars>>

-----------------------------------------------------------------------------
\* The rows process_queue selects.
Selectable == {n \in Row : /\ rows[n].status = "pending"
                           /\ rows[n].retry_count < MaxRetries
                           /\ rows[n].scheduled_for = "due"}

\* ORDER BY priority, created_at
Before(m, n) ==
    \/ rows[m].priority < rows[n].priority
    \/ rows[m].priority = rows[n].priority /\ m <= n

FirstOf(S, k) == {n \in S : Cardinality({m \in S : Before(m, n)}) <= k}

Select(p) ==
    LET taken == FirstOf(Selectable, BatchSize) IN
    /\ current[p] = 0 /\ Batch(p) = {}
    /\ taken # {}
    /\ batch' = [batch EXCEPT ![p] = [n \in Row |-> IF n \in taken
                                                   THEN rows[n].retry_count
                                                   ELSE NotLoaded]]
    /\ shared' = shared \cup {n \in taken : \E q \in Processor : n \in Batch(q)}
    /\ UNCHANGED <<rows, current, attempts, deaths, callVars>>

\* The next row of the batch is marked "processing", whatever it has become.
Take(p, n) ==
    /\ current[p] = 0
    /\ n \in FirstOf(Batch(p), 1)
    /\ rows' = [rows EXCEPT ![n].status = "processing"]
    /\ current' = [current EXCEPT ![p] = n]
    /\ attempts' = [attempts EXCEPT ![n] = @ + 1]
    /\ UNCHANGED <<batch, shared, deaths, callVars>>

Finish(p) ==
    /\ current' = [current EXCEPT ![p] = 0]
    /\ batch' = [batch EXCEPT ![p][current[p]] = NotLoaded]

SendSucceeds(p) ==
    /\ current[p] # 0
    /\ rows' = [rows EXCEPT ![current[p]].status = "sent"]
    /\ Finish(p)
    /\ UNCHANGED <<attempts, shared, deaths, callVars>>

Rescheduled(row, count) ==
    [status |-> "pending", retry_count |-> count, scheduled_for |-> "later",
     priority |-> row.priority]
GivenUp(row, count) ==
    [status |-> "failed", retry_count |-> count,
     scheduled_for |-> row.scheduled_for, priority |-> row.priority]

\* Mutant of AfterFailure: given up one attempt later.
AfterFailureLate(row, count) ==
    IF count > MaxRetries THEN GivenUp(row, count) ELSE Rescheduled(row, count)

\* What the row becomes when its attempt failed.
AfterFailure(row, count) ==
    IF count >= MaxRetries THEN GivenUp(row, count) ELSE Rescheduled(row, count)

Fails(p, count) ==
    /\ current[p] # 0
    /\ rows' = [rows EXCEPT ![current[p]] = AfterFailure(@, count)]
    /\ Finish(p)
    /\ UNCHANGED <<attempts, shared, deaths, callVars>>

\* Mutants of SendFails: the attempt is not counted, or added to what the row
\* has by now.
SendFailsUncounted(p) == Fails(p, batch[p][current[p]])
SendFailsFresh(p) == Fails(p, rows[current[p]].retry_count + 1)

\* The sender fails, or what follows it in the try block does: the attempt is
\* added to the count that was loaded.
SendFails(p) == Fails(p, batch[p][current[p]] + 1)

\* The execution dies, or one of its commits fails: nobody returns its row.
Dies(p) ==
    /\ deaths < MaxDeaths
    /\ current[p] # 0
    /\ deaths' = deaths + 1
    /\ current' = [current EXCEPT ![p] = 0]
    /\ batch' = [batch EXCEPT ![p] = [n \in Row |-> NotLoaded]]
    /\ UNCHANGED <<rows, attempts, shared, callVars>>

\* The time of scheduled_for comes.
Due(n) ==
    /\ rows[n].scheduled_for = "later"
    /\ rows' = [rows EXCEPT ![n].scheduled_for = "due"]
    /\ UNCHANGED <<batch, current, attempts, shared, deaths, callVars>>

Work(p) == (\E n \in Row : Take(p, n)) \/ SendSucceeds(p) \/ SendFails(p)

ProcessQueue(p) == Select(p) \/ Work(p)

Next ==
    \/ \E c \in Caller : QueueNotification(c)
    \/ \E priority \in Priority : SendNotification(priority)
    \/ SendTestNotification
    \/ \E k \in Key : HistoryAges(k)
    \/ \E p \in Processor : ProcessQueue(p) \/ Dies(p)
    \/ \E n \in Row : Due(n)

Spec == Init /\ [][Next]_vars

-----------------------------------------------------------------------------
\* Properties.

\* The recipients that are looked up at the same time.
Lookups == (Caller \ Bypassing) \X (1..MaxRecipients)

\* In 24 hours a recipient who is looked up gets at most as many notifications
\* of an event as lookups can run side by side, those about to be queued
\* included: whoever finds a row, of a call with bypass_dedup also, queues
\* nothing, and a call finds its own rows only after its commit.
DedupBounded ==
    \A k \in Key :
      history[k].looked + Cardinality({s \in Lookups : named[s] = k})
        <= Cardinality(Lookups)

\* However executions fail, die and are repeated, a row is tried at most
\* max_retries times, unless two executions had loaded it at the same time.
AttemptsBounded == \A n \in Row \ shared : attempts[n] <= MaxRetries

Settled(n) == rows[n].status \in {"none", "sent", "failed"}
Selected(n) == rows[n].status = "pending" /\ rows[n].retry_count < MaxRetries
InWork(n) == \E p \in Processor : current[p] = n

\* The rows nobody will select, finish or write again.
Stranded == {n \in Row : /\ rows[n].scheduled_for # "null"
                         /\ ~Settled(n) /\ ~Selected(n) /\ ~InWork(n)}

\* However executions overlap and overwrite each other's rows, a row with a
\* time to be sent is sent, given up, in work, or selected when its time
\* comes: an execution that dies leaves one row behind, and nothing else does.
NothingStranded == Cardinality(Stranded) <= deaths

\* "scheduled_for: When to send (None = immediate)": a row that is pending
\* without a time is among those the next execution selects.
ImmediateIsSelected ==
    \A n \in Row :
      rows[n].status = "pending" /\ rows[n].scheduled_for = "null"
        => n \in Selectable

\* "no duplicate notifications for same event+recipient within 24 hours" (story
\* 3.4): of the calls that look their recipients up, one queues a key.
NoDuplicates == \A k \in Key : history[k].looked <= 1
=============================================================================
