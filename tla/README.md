# Formal model of the Pool Drive backend

Pool Drive provisions a Teams/SharePoint workspace for every order (*EM*) of a
framework contract, locks and unlocks its folders around the order's T date, and
manages the partner guests who may use it. The backend is a FastAPI application
(`src/api`), Celery workers (`src/worker`) and Celery beat tasks
(`src/scheduler`) over one PostgreSQL database, one Redis server (broker, leases,
job hashes) and Microsoft Graph.

This directory holds TLA+ modules that model parts of that backend, the
configurations TLC checks them with, and theorems proved with TLAPS.

    tlc -workers 2 -config MCChangeRequests.cfg MCChangeRequests
    tlapm ChangeRequestsProofs.tla

`PROJECT.json` lists the components, the runs, the mutants of every property, the
source lines of every definition, the hazards and the theorems. Configurations that it
does not list belong to the disagreements of section 7 and to wider bounds.

## 1. The system

| Part | State | Operations | Talks to |
|---|---|---|---|
| Change requests (`cr_service`, `cr_expiry_checker`) | `change_request`, CR columns of `lock_state` | create, close, expiry sweep | lock rows, audit, Redis lock |
| Lock evaluation and application (`lock_evaluator`, `lock_scheduler`, `lock_application`) | `lock_state`, `lock_transition_log` | evaluate, apply transition, apply to SharePoint, admin override | queue `locks`, SharePoint |
| Scheduler lease (`distributed_lock`) | one Redis key with TTL, a renewal task | acquire, renew, release, break a stale lease | Redis |
| Provisioning (`services/provisioning`, `orders`, `tasks/provisioning`, `idempotency`) | order status, job hash, idempotency record | trigger, cancel, provision, retry | queue `provisioning`, Graph |
| Rollback (`tasks/rollback`) | order status | delete resources in reverse order | Graph |
| Guest invitations (`guest_service`) | `guest_user`, invitations, group memberships | invite, resend, status check, groups, revoke, purge | Graph, notifications |
| Guest lifecycle (`lifecycle_service`, two beat tasks) | `expires_at`, `extended_count`, grace period | extend, expire, notify, grace | guests, notifications |
| Graph access (`retry_adapter`, `core/retry`, `graph_auth`) | request window, breaker state, token | call with retry | Graph |
| Notifications (queue, dispatcher, senders, tracker) | queue rows, history, delivery log | queue, process, retry, webhook | Graph mail and Teams |
| Templates (`templates`, `template_rollback`) | template and version rows | publish, update, delete, roll back | audit |
| Lock rules (`lock_rule_service`, `state_transition_service`) | `lock_rule` | create, validate, windows around T | evaluator |
| Manual and RBAC locks (`manual_lock_service`, `rbac/lock_service`, `lock_cleanup`) | manual `lock_state` rows | lock, unlock, extend, expire | SharePoint |
| RBAC permissions (engine, inheritance, batches, reconciliation) | assignments, an asyncio queue | compute, apply in batches, reconcile | SharePoint |
| Reconciliation (`permission_reconciler`, `state_reconciliation`) | sync status, dead letters | sync, retry, correct drift | SharePoint |
| Monitoring, audit, cache, routers, schemas, web client | logs, Redis cache, UI state | | |

What makes it hard, and what correct means for each part:

* **Change requests.** Two CRs of one scope share rows; a row remembers one of
  them. The sweep commits its CRs one at a time while the API runs, and two sweeps
  may overlap because the Redis lock around them is never renewed. Correct: no end
  of one CR takes the other's access away; folders stay unlocked for the union of the
  windows of their scope; every folder is locked again when the last one has ended.
* **Lock pipeline.** Three tasks and an admin write one row and one SharePoint
  permission; messages are unordered, retried, and redelivered or lost after a crash.
  Correct: the row is one setting, of a rule or of an override; row and SharePoint
  settle at the rule of the day; overrides stand.
* **Lease.** Redis time, the renewal task's time and the holder's time are three
  clocks. Correct: one holder; nobody loses a lease to a late release; every lease
  ends.
* **Provisioning.** Duplicate requests, cancellation at any point, retries, dying
  workers, and a record that is the only thing between two workflows. Correct: the
  workflow of one key runs at most once; every task ends; every order ends up
  completed or failed.
* **Guests.** Sessions stay open across Graph calls, so a status read before the
  call is written back after it. Correct: revoked stays revoked; accepted means
  redeemed; the access granted by extensions is bounded by the policy.
* **Graph access.** Callers share a window counter and a breaker. Correct: the
  requests of any minute stay within a known bound; enough failures open the breaker;
  every call ends.
* **Notifications.** Rows are taken without a row lock; the history is read per recipient
  and written with all of them. Correct: one notification of an event and a recipient in
  24 hours, at most `max_retries` attempts, no row left behind.
* **Templates.** Version numbers come from "the latest row". Correct: versions of
  a template form a chain; a published template equals its snapshot.
* **Lock rules.** A check for overlapping windows and the write it allows are two
  transactions, and every rule has a T date of its own. Correct: one rule in force.
* **Folder access.** Levels are handed down a tree whose folders may be cut, and compared
  with what Graph returns. Correct: nothing crosses a cut, restrictions hold, a scan
  without drift means that SharePoint agrees.
* **Locks by hand, batches, reconciliation.** Check-then-insert without a unique
  key; a flag set after the task that should set it was scheduled; retry loops
  whose last iteration is special.

The hazards, each at its line, are in `PROJECT.json` with the properties that
would catch them.

## 2. The modules

| Module | Models | Extended or used by |
|---|---|---|
| `UnlockWindows` | what change requests promise: windows that open once, end once, and re-lock only when none is open | instance in `ChangeRequests` |
| `ChangeRequests` | CR service, sweep, admin override of the rows | `MCChangeRequests`, `ChangeRequestsProofs` |
| `DistributedLock` | the Redis lease | `SharedClientsProofs` |
| `LockPipeline` | evaluation to SharePoint for one order | `MCLockPipeline`, `LocksProofs` |
| `AtMostOnce` | what an idempotency key promises | instance in `Provisioning` |
| `Provisioning` | requests, cancellations and tasks for one order | `WorkspaceProofs` |
| `Guests` | invitations and lifecycle of one guest | `MCGuests`, `GuestsProofs` |
| `Notifications` | the queue, its history and its executions | `MCNotifications`, `NotificationsProofs` |
| `GraphCalls` | retries, breaker and limiter of the Graph adapter | `SharedClientsProofs` |
| `FolderLocks` | the manual locks of both lock services on one folder | `MCFolderLocks`, `LocksProofs` |
| `Templates` | templates of a name and their versions | `MCTemplates`, `WorkspaceProofs` |
| `LockRules` | the lock rules of one order and the rule in force | `MCLockRules`, `LockRulesProofs` |
| `Permissions` | batches of permission changes of one folder | `MCPermissions`, `RbacProofs` |
| `FolderAccess` | effective permissions on a path of folders, and the drift scan | `MCFolderAccess`, `RbacProofs` |

A module of proofs may hold two components: `SharedClientsProofs` the two clients every
process shares, `LocksProofs` both kinds of folder locks, `RbacProofs` what a role gets
and how it gets into SharePoint, `WorkspaceProofs` the order and the templates its
folders are made from. So that both can be extended at once, the second of each pair
names its `Init`, `Next`, `Spec` and `TypeOK` after itself (`CallsSpec`, `ManualSpec`,
`AccessSpec`, `TemplatesSpec`).

Where components meet: an admin override of `LockPipeline` is also an action of
`ChangeRequests`, as both write the same rows; `LockRules` chooses the rule whose
setting `LockPipeline` applies (its constant `Schedule`), and `LockPipeline`'s row is
what protects a rule from deletion; `Provisioning` implements the key that
`AtMostOnce` promises; `Permissions` contains the hour's key of the same module; the
two lock services share the rows of `FolderLocks`. `Guests` queues notifications:
`queue_notification` commits its session, which decides where a request of `Guests`
may be interrupted.

### ChangeRequests

`crs` is the `change_request` table (status, expiry), `locks` the active
`lock_state` rows (one per folder path that some scope pattern matches), `pending`
what each running sweep has selected and not committed, `now` the clock. `overlapped`
is history: the CRs that were active beside another of their scope.

`CreateCR` and `CloseCR` are whole handlers: `AuditService.log_event` commits the
caller's session, so the CR and its rows change together. `BeginSweep` is the
query of `expire_crs`; `ExpireCR` one iteration of its loop up to the commit, which
does not read the status again; `SweepFails` the death of the task or of its
session. `ManualOverride` is the database half of `apply_manual_override`. The
automatic evaluation is not in this module: it only ever looks at
`/teams/order_<id>/documents` (`lock_evaluator.py:423`), which no CR pattern
matches. So the rows a CR can find are those an override created, and they start
as overrides.

`Phase` and `UnlockedFolders` map it to `UnlockWindows`: a CR is *unused*, *open*
or *ended*; a folder is unlocked while its row carries a CR.

### DistributedLock

`owner` and `ttl` are the key; `pc` where an execution is; `renewing` and `since`
its renewal task. `ReadTtl` and `Break` are two steps, as they are two Redis
commands. `Renew` adds the timeout to the remaining TTL, because redis-py's
`extend` does so by default. `BreakStale` selects `acquire_scheduler_lock` (TRUE)
or `distributed_lock` (FALSE). `Tick` is Redis's clock; a renewal is at most
`MaxLate` intervals late.

### LockPipeline

`row` is the `lock_state` row of the order's folder, `sp` what SharePoint enforces,
`queue` the bag of Celery messages, `slot` the workers. A task that calls
SharePoint takes three steps (`Start`, `CallSharePoint`, `Commit`) because the row
it loaded may change meanwhile, and SQLAlchemy writes only the columns that differ
from what was loaded (`Written`). `apply_order_transitions` is one step
(`ApplyTransition`), or that step without its `delay()`: the worker dies in between
(`TransitionInterrupted`), or a statement of the loop raises and
`lock_scheduler.py:316` logs the exception and goes on (`TransitionRaises`). A worker
that dies returns its message, since tasks are acknowledged late, or loses it, since
nothing sets `task_reject_on_worker_lost` for a killed child of the pool (`BackOrLost`,
`TaskLost`). `Conflict` queues two retries: `self.retry()` raises inside a `try` whose
`except` retries again. `Schedule` gives the window whose rule matches on each day, and
`OverrideSettings` what an admin may ask for. `asked`, `torn` and `calm` are history:
the settings of overrides; that the last write of the row mixed two settings; and that
since a transition was applied alone no call failed, no message was lost, nobody
overrode and no two tasks ran at once.

### Provisioning

`order` is `order_em.provisioning_status`, `job` the Redis hash of each job,
`record` the idempotency record of each day's key; `request`, `cancel` and `task`
are program counters with one step per commit or Redis command another actor can
see. `WorkerDies` returns the message (machine lost, `task_acks_late`) or loses it
(only the pool's child died). `FailTask` is the outer `except` clause with Celery's
`autoretry_for`: it marks whatever record the key has by then. The phases that
create Graph resources are one step, since nothing else reads what they created
before the order is marked.

`Phase` maps it to `AtMostOnce`: a key was *never* used, its workflow is *running*
in some task, or it *ended*.

### Guests

`guest` is the `guest_user` row, `req[s]` what the request of session `s` is doing and
the columns it loaded. A request takes two or three steps: it loads the row, waits
for Graph or for other queries, and commits the columns that differ from what it
loaded; in between the row may have changed (`Changed` and `Written`, as in
`LockPipeline`). The asynchronous services are modelled with the sessions they are
written for, which keep their objects across commits. `redeemed`, `graces` and `Sent`
count what happened, for the properties. `Fails` is a request that raises and rolls
back: a revocation that fails has removed groups and not the guest.

### Notifications

`rows` is the queue; `history` counts, per key, the history rows of 24 hours, those left
after a lookup apart from those left by a call with `bypass_dedup` (which writes them
too, `notification_service.py:98-101`). A session looks its recipients up one query at a
time, over one call or several without a commit, and commits them together: `done` is how
many it is through with, `named` which of them are to be queued, and as which key, so a
recipient may occur twice. A lookup that finds two rows raises (`scalar_one_or_none`),
and the session ends or goes on without that recipient. An execution of `process_queue`
(`batch`, `current`) selects rows, sets them to *processing* and writes a `retry_count`
counted from what it loaded. `Dies` leaves its row in *processing*, which nothing
selects. `attempts`, `shared` and `deaths` are history variables.

### GraphCalls

One adapter with its breaker and its limiter, and callers that pass the breaker, poll
the limiter and send, in that order: a caller that waits for the limiter sends
whatever the breaker says by then. Times are kept as ages that stop counting where no
comparison tells them apart. `recent[a]` is the number of requests that are at most `a`
seconds old.

### FolderLocks

The `lock_state` rows that people cause on one folder, by `LockService` (*rbac*) and by
`ManualLockService` (*pm*), the assignments the first restricts (`restricted`), and the
SharePoint permission that a worker sets for the second (`granted`). Searching for a
lock and committing one are two steps; `LockService` also ends rows by id, whoever
inserted them. `raced` and `faults` record that requests or tasks overlapped, or that
something died.

### Templates

Templates, versions and the requests of several API processes; within one process the
handlers are atomic, as they are `async def` over synchronous sessions. `raced`
remembers, per template, what overlapped with a publication.

### LockRules

The `lock_rule` rows of one order, each with its own T date and its offsets from it. The
endpoints run in a pool of threads: the check for overlapping windows is one step, the
write it allows another. The check compares offsets and leaves the T dates out
(`Overlap`), an update may move a rule to another T date unchecked, and on a day the
evaluator picks the rule of the smallest start offset (`Chosen`) of those `InForce`.
`unchecked` becomes true when a window is written whose check another write has outdated,
or by an update that changes the offsets or the activity of a rule unchecked. `Evaluate`
and `Apply` are what the pipeline contributes: the rule in force, and the reference of
the folder's row that keeps a rule from being deleted.

### Permissions

`sharePoint` is the set of the folder's permissions, each with an id, a principal and a
role; a principal may have several. An operation reads one page of them (`PageSize`;
the code does not follow `nextLink`) and keeps one id per principal, whichever comes last
(`permission_service.py:209`). Beside it stand the assignments' sync status, the asyncio
queue with its flag and its tasks, and the operations of each batch. Every call of
`apply_permissions` is a step, so operations of two batches interleave; `page` is history,
what others held of the folder as the operation read it, until somebody else changes the
folder. Where Graph's behaviour is not determined by the code (whether breaking the
inheritance again empties the folder, whether an invitation adds a permission or changes
one), the model lets it choose.

### FolderAccess

The assignments of roles on the folders of one path; what a role gets is calculated by
recursion (`get_inherited_permissions`), and the audit chain by a loop
(`get_inheritance_chain`). `Access` is what `apply_inheritance` returns for a user: what
the engine calculated for the roles of the user, and inherited levels of every role, also
of those the user does not have (`inheritance_service.py:119-134`). Whether a folder
inherits is asked of its parent's rows, not of its own. The patterns that restrict a
folder, or stop it inheriting, are searched in its whole path, so they hold for the
folders below too; only *CEG_* stops just the folder that has the name. A scan reads the
assignments, waits for Graph's first page and compares: what names neither a user nor a
group is dropped, a role the mapping does not know (*owner*) has no level, and of several
permissions of one principal the last counts (`Compares`). One path stands for the tree,
since only ancestors count.

## 3. The runs

| Run | Instance; distinct states | What it shows |
|---|---|---|
| `cr_windows` | 2 CRs, one folder inside and one outside their scope, 2 sweeps, clock 0..3; 89,840 | `UnlockHolds`: no end of one CR takes away what another, still active one has opened. `UnlockedForTheUnion`: a folder is re-locked only when every CR of its scope was closed or has reached its own expiry. `RelockMissedByOverlap`: only an overlap makes an end miss its rows. `ImplementsWindows`: the service is an `UnlockWindows`. |
| `lease_kept` | 3 executions, timeout 3, renewals up to 1 late, Redis errors, breaking on; 63,253 | `LeaseEndsByOwner`: a lease ends by its owner, by breaking, or after its holder stopped renewing. `LeaseEnds`: no lease is held for ever. |
| `pipeline_row` | 2 workers, 4 days, 1 retry, 1 override, failing SharePoint, lost messages, crashes; 114,783 | `RowIsOneSetting`: the row is the setting of one rule or one override, unless a late task has torn it. `RowConverges`: the row settles at the rule of the last day. `SharePointConverges`: SharePoint does too, once a transition was applied alone and nothing has failed, overlapped or been lost since. |
| `provisioning` | 2 requests, one cancellable, 2 days, failures and crashes; 120,979 | `WorkflowOnce`: the task implements `AtMostOnce` for each day's key. `TasksEnd`: every queued task ends. |
| `guests` | 2 sessions, 2 invitations, 2 extensions, 1 grace, time 0..3; 1,902,520 | `AccessBounded`: the expiry stays within what the policy grants. `AcceptedRedeemed`: a guest nobody extended or gave grace is accepted only after a redemption. `RevokedLeaves`: only an invitation, its redemption or an older request revives a revoked guest. |
| `notifications` | 3 sessions of which one bypasses, 2 recipients each, 2 executions, 2 rows, 2 retries, 1 death; 4,216,488 | `DedupBounded`: a recipient who is looked up gets no more of an event than lookups run side by side. `AttemptsBounded`: attempts exceed `max_retries` only by what executions share. `NothingStranded`: only a death leaves a scheduled row behind. |
| `graph_calls` | 3 calls, budget 2 in a window of 2, 1 retry, breaker at 3; 149,433 | `RateBounded`: no interval of one window's length sees more than two budgets. `CallsEnd`: every call returns or raises. |
| `folder_locks` | 2 requests, 2 rows, 1 queued task, 1 fault; 735,284 | `SerialLocks`: two active locks need overlapping searches. `SharePointFollows`: without overlap or fault, rows, assignments and SharePoint agree. |
| `templates` | 2 sessions, 2 templates, 3 versions, 2 names; 963,457 | `PublishedIsSnapshot`: what is published equals its version, unless a request overlapped. `OneCurrent`: one template of a name is current, however they overlap. |
| `lock_rules` | 2 requests, 2 rules, 2 T dates, offsets 0 and 1, 1 update, 1 evaluation at a time; 2,236,322 | `OneRuleInForce`: unless a write overtook a check or changed offsets unchecked, of the rules with one T date at most one holds on any day. |
| `permissions` | 2 batches of a folder, 2 tasks, 2 attempts, 2 hours, up to 3 permissions, pages of 2; 721,362 | `NoLeftovers`: an operation nobody disturbed has taken a permission from everybody else it had listed. `BatchesEnd`: every batch handed over ends. |
| `folder_access` | 4 folders in a path, 2 roles, 2 groups and a link, 1 exception, 1 scan, 2 permissions; 528,264 | `NothingCrossesACut`: what a user has was calculated for a role of the user, or stands above with no cut folder in between. `CleanMeansCovered`: a scan of current assignments is clean only if what it can read of SharePoint covers them. |

Every run also checks its module's type invariant.

### Bounds, and why they are enough

* Two requests, two CRs, two sessions, two or three executions: the hazards are between
  two actors and a third party (the sweep, the breaker, the clock); the third execution
  of `lease_kept` is the one whose lease a late release could delete, the third call of
  `graph_calls` meets the breaker that the others opened. The safety properties of all
  modules (section 4) are proved for any number.
* `ChangeRequests`: `MaxTime = 3`, `MaxDuration = 2`: an older CR can outlast a newer
  one, end with it, or before it, and a sweep can start before and after each.
* `DistributedLock`: `Timeout = 3`, `MaxTtl = 10`: a lease can exceed twice its timeout
  (the breaking condition), and the counter saturates above it, where no guard tells
  values apart.
* `LockPipeline`: `LastDay = 3` with three windows, of which the last day returns to the
  first, as when T is moved: a task of one change of window can still be queued at the
  next, which gives a permission or a state an older one had. The two settings of an
  override share their state with one rule and their permission with another.
  `MaxQueue = 1` bounds only new work; retries and redeliveries may exceed it.
  `MaxRetries = 1` (3 in the code) is enough for a retry to meet a later task.
* `Provisioning`: `LastDay = 1`: a task that starts the next day has another key than
  the one queued beside it. `provisioning` has cancellations and no retries; retries
  that reach the next day's record, without cancellations, are `ProvisioningLive.cfg`
  (81,766 states, passes).
* `Guests`: two invitations, two extensions, one grace period, time 0..3: an extension or
  a check can be loaded before a revocation, an expiry or a second invitation and
  commit after it.
* `Notifications`: two sessions that look up and one that bypasses, two recipients between
  two commits (who may be the same), two executions over two rows, two retries, one death
  and a history that ages: lookups of two sessions, and two of one session, may all miss
  the history row, and both executions may load a row whose retries the other is counting.
* `GraphCalls`: a budget of 2 in a window of 2, a breaker that opens at 3 failures, one
  retry, `Retry-After` up to 2: a window can end while callers wait for it, and the
  breaker can open, half-open and close around them. `MaxCalls = 1` call per caller.
* `FolderLocks`: two rows, two requests, one queued task at a time, one fault: two
  requests can both find no lock, and an expiry can meet a removal. What needs a
  third row is a repetition.
* `Templates`: two templates, three versions, one valid and one invalid content, names
  that can be swapped: two publications of one name, and a rollback to a version that
  another publication has left.
* `LockRules`: two rules, two T dates a day apart, offsets 0 and 1, one update, a template
  of two windows: adjacent, equal, nested and disjoint windows exist, and an inverted one;
  rules of different offsets meet on a day through their T dates. A third rule repeats what
  a second does to the first.
* `Permissions`: a batch of two assignments and one of a single one, two tasks, one
  chunk per batch, one operation of a batch at a time (two batches still interleave),
  two attempts, two hours, three ids and pages of two: a principal may have two
  permissions, and one may stand on the second page.
* `FolderAccess`: four folders of which the second is a CEG folder, the third of a
  partner's and the last *FINAL*, two roles, one of them in both groups, two levels, at most
  two initial assignments, one exception: a cut can lie above, at and below an
  assignment. Two permissions in SharePoint: two of one group, or one of a group beside a
  link.

`CHECK_DEADLOCK FALSE` is said where the system really stops: every execution of the
lease is over; the last day has passed and the queue is empty; every request and task
has ended, every rule id is used, every call was made. `ChangeRequests`, `Guests` and
`Templates` never stop within their bounds (a failing request or an override stays
possible), and their runs check for deadlock.

### Fairness, and what justifies it

* `DistributedLock`: time passes, the renewal task wakes up, and the task that holds
  the lease ends (`task_time_limit`). Acquiring needs no fairness.
* `LockPipeline`: beat evaluates every 15 minutes, workers consume the queue;
  steps a crash or a failing call may preempt are strongly fair: a task that is
  delivered again and again does not lose its worker every time. SharePoint converges
  only while `calm`: since some transition that was applied with nothing else queued or
  running, no call failed (after `max_retries` the code gives up for good), no message
  was lost or dropped, no two tasks of the folder ran at once, nobody overrode.
* `Provisioning`: the request handler goes on, workers consume the queue, and a
  task that is delivered again and again finally gets past the steps that a dying
  worker can repeat.
* `GraphCalls`: time passes, the event loop runs every coroutine, and every request is
  answered or times out. The limiter is polled for ever, as in the code.
* `Permissions`: the event loop runs every task that can run, and every call is
  answered. No fairness for the hour, the session's breaking or new batches.
* The other modules state safety only. `ChangeRequests` and `Notifications` do not say that
  a CR ends or a row is sent: the repository loads no schedule for the sweep and has none
  for `process_queue` (section 6).

## 4. What is proved

For every value of the constants that satisfies the modules' assumptions.

* `ChangeRequestsProofs`: `TypeCorrect`, `UnlockHeld`, `UnionOfWindows`,
  `OnlyOverlapMisses`, `SweepsOnlyOverdue`, `RelockWaits`, `WindowsImplemented`. What they
  rest on is the lemma invariant `TagAgrees`: opening a CR writes id and expiry together,
  and the expiry of a CR never changes afterwards. `UnlockHolds` needs it: a row an end
  re-locks carries that CR, so it lies in that CR's scope, where the end has just found no
  other active CR. `UnionOfWindows` adds that only the sweep writes *expired*, and only to
  what is overdue. `OnlyOverlapMisses` needs that a CR that never overlapped finds no other
  active CR at its end, hence re-locks every row that names it. The refinement needs the
  tags too: an end removes folders of its own scope only, and an expiry of a CR the API has
  already closed is `LateRelock` or a stutter.
* `SharedClientsProofs`, the lease: `TypeCorrect`, with `KeyHasTtl` (the key exists exactly
  while it has time to live) a part of the type invariant. `LeaseKept` needs
  `RenewalInv`, which ties the time since the last renewal to the TTL left: with `1 + MaxLate < Timeout` the lease cannot run out
  while it is renewed. `RenewingHolderOwns` and `HoldersExclude` are about
  `distributed_lock` only (`~BreakStale`), the second also without Redis errors.
  With breaking, `DistributedLockBreak.cfg` is the counterexample to exclusion; with
  Redis errors, a holder whose renewal ended loses the lease while it works on.
* `SharedClientsProofs`, Graph calls: `CallsTypeCorrect`; `RateIsBounded` through
  `WindowInv`: for every age `a` up to a window's length, the requests at most `a`
  seconds old are those the limiter has counted in its window and, when `a` reaches back
  beyond the window's start, one budget more. A new window starts only when the last one
  began more than a window's length ago: what is recent then was counted in it, one
  budget at most. Only sending and the passing of a second touch these numbers; where the
  callers and the breaker are does not matter.
* `WorkspaceProofs`, provisioning: `TypeCorrect`; `WorkflowExclusive` (`ExclusionInv`: a
  task in the workflow has a record, and is alone in it); `WorkflowRunsOnce`, the
  refinement of `AtMostOnce`. Every step either leaves the set of running workflows,
  enters one for a key without record, or leaves one (`StepKinds`); records never
  disappear. With several days, `key` of a retried task moves to the new day, which is
  why the invariant speaks of the key stored at `Take`.
* `WorkspaceProofs`, templates: `TemplatesTypeCorrect`, `PublishedStaysSnapshot`,
  `OneTemplateCurrent`, all from `TemplatesInv`. It says that rows are numbered in the
  order of insertion, that what a request refers to exists and what it loaded as
  published still is, that a template which `raced` calls undisturbed has one writer at
  most (`Alone`), and how much of what a writer loaded still holds (`UpToDate`): the name
  unless an update raced it, content and number unless anything did. The name is what
  `NotCurrent` selects by, so `OneCurrent` survives overlapping publications and
  rollbacks; content and number are what the snapshot is made of. Two theorems no run
  checks state more of the history: `VersionsFormHistory` (however requests overlap, no
  template has a number twice, and the parent of a version is an earlier version of the
  same template) and `HistoryIsKept` (no step writes a version again or takes a
  publication back).
* `LocksProofs`, the pipeline: `TypeCorrect`; `RowOneSetting`, for any schedule and any
  settings of rules and overrides. `RowInv` strengthens it: every task, queued or running,
  carries a setting that a rule or an override has given. A `Commit` then leaves the row
  alone, writes both columns, or writes one beside the other one as it was loaded, and when
  another task has written meanwhile that is what `torn` records.
* `LocksProofs`, manual locks: `ManualTypeCorrect`; `LocksAreSerial` and
  `SharePointHasFollowed` through `ManualInv`. Without overlap one request is at work
  (`OneAtWork`) and what it found still holds (`Knows`), each service has one lock
  (`OneLockEach`), and one task is queued (`OneTask`). `LatestWord` follows a PM's lock to
  SharePoint: the request about to queue its task says *lock*, else the queued task does,
  else SharePoint already shows it; a death or a failure interrupts just this chain.
* `RbacProofs`, batches: `TypeCorrect`; `UndisturbedRevokes` through `RevokeInv`: of what a
  principal held on the page an operation has read, something is gone or still to be
  revoked; `OnlyFinishCompletes` says that no other step completes an operation.
* `RbacProofs`, access: `AccessTypeCorrect`; `CutsAreNotCrossed` for a path of any depth;
  `CleanScanMeansCovered`, the action property. What a role inherits is a recursive
  function over the path and the audit chain another; that an inherited level stands on a
  folder above, with no cut in between, where the chain lists it (`InheritedHasSource`) is
  an induction. The library's induction theorems take the formula as an operator, so the
  induction is made on sets: a set of numbers has a least member (`LeastMember`, from the
  well-foundedness of `<`), hence one that holds 0 and each successor holds every number
  (`SetInduction`), hence a function given by a value at 0 and a step exists
  (`Recursion`), which is what `InheritedIs` and `ChainIs` need of the two definitions.
* `GuestsProofs`: `TypeCorrect` (with `LoadedInv`, what each request found
  when it loaded the row, and `GraceInv`, which counts the grace periods under way); `AccessIsBounded`
  needs `AccessInv`, which says of every *loaded* row too that its expiry is covered,
  because an older request writes it back; `AcceptedHasRedeemed` and `RevokedStays` go
  the same way.
* `NotificationsProofs`: `TypeCorrect` (with `QueueInv`: rows are numbered from 1, and
  batches hold queued rows); `DedupIsBounded`: nobody looks fresh who has a history row,
  and a commit turns fresh lookups into history rows one for one, so their sum never
  exceeds the lookups there are, with any calls that bypass beside them;
  `AttemptsAreBounded` through `AttemptInv(n)`: an attempt is in a row's `retry_count`, in a
  batch that will write it, or shared by two executions; `NothingIsStranded`: what an
  execution writes when it lets go of a row is settled or will be selected, and one that
  dies lets go of one row.
* `LockRulesProofs`: `TypeCorrect`; `OneRule` through `ApartInv`: while nothing went
  unchecked, the offsets of the active rules are apart, and so are from them those that a
  request has checked and not written; any write of offsets outdates the checks of the
  others, and moving a rule to another T date changes none (`SameOverlap`). Rules with one
  T date whose offsets are apart are not in force on one day.

With these every invariant and every action property of the runs is a theorem. Only
model-checked are the liveness properties (`LeaseEnds`, `RowConverges`,
`SharePointConverges`, `TasksEnd`, `CallsEnd`, `BatchesEnd`): they rest on fairness and
`ENABLED`, which TLAPS does not reach. The theorems depend on the assumptions on the
constants that each module names (`ParameterAssumption`, `CallsAssumption`,
`ManualAssumption`, `AccessAssumption`, `PathAssumption`, `TemplatesAssumption`, ...) and,
where said above, on `BreakStale` or `RedisFails`.

## 5. What is left

1. More theorems where the runs state nothing yet: what the breaker of `GraphCalls` lets
   through, what bounds the rows of one service in `FolderLocks` when requests do overlap.
2. Two API sessions that interleave inside `create_cr` and `close_cr` (READ COMMITTED).
3. A broker that refuses `send_task` after the order was committed, and the Graph
   resources of each provisioning phase.
4. Several chunks per permission batch, with the pause between them.
5. The first evaluation, which creates the row of a folder, and several folders per
   order if `lock_evaluator.py:423` ever names more than one.

## 6. Calls that cannot work as written

Where a model covers one of these, it reads it as its authors meant it, and the
properties hold or fail for that reading. As the files stand, the calls raise or are
never made.

* Change requests: `check_cr_expiry` is an `async def` Celery task, and neither
  `worker/app.py` nor `worker/celery_app.py` loads its beat schedule;
  `redis_client.lock(token=...)` is not a parameter of redis-py. `_emit_cr_notification`
  reads `partner_id` and `_sync_sharepoint` reads `sharepoint_site_id`, which the tables do
  not have; both swallow the error.
* Lock pipeline: `scheduler/tasks/lock_scheduler.py` imports an `IdempotencyService` that
  does not exist; the nested helpers of `apply_lock_state` are never bound to the task;
  the include list of Celery lacks `lock_application`.
* Provisioning: `provision_order` calls the `async def` `check_idempotency` without
  awaiting it (its docstring, `idempotency.py:43-47`, promises a result for sync
  sessions); `_update_job_status` awaits a synchronous Redis client; several Teams and
  SharePoint methods it calls are not in the services. Nothing queues
  `rollback_provisioning`, whose services raise `TypeError` when constructed.
* Guests: the router hands a synchronous session to asynchronous services.
  `apply_grace_period` and `expire_guest` pass `grace_details` and `expiry_details`, which
  `log_guest_event` does not take; grace and purge are called by tests only. The beat
  tasks import missing modules (`guest_lifecycle_checker`) or pass
  `acquire_scheduler_lock` other arguments than it takes (`guest_status_checker`).
* Notifications: the guest templates are never seeded, so `queue_notification` returns an
  empty list and `send_expiry_notifications` still reports *notified*. The dispatcher
  reads `order.name`, which does not exist, and iterates `async for` over the synchronous
  `get_db`; `deadline_notifier` depends on it. Nothing schedules `process_queue`, nobody
  passes it a `scheduled_for`, and `_send_notification` is a placeholder.
* Locks by hand: `_get_folder_paths` and `apply_manual_lock_permissions` read columns
  `OrderEm` does not have; `FolderLocks` reads them as if it had them.
  `check_and_expire_manual_locks` is called by tests only.
* Rules: `state_transition_service` and the older `scheduler/tasks/lock_evaluator.py` read
  `OrderEm.status`, which does not exist.
* Reconciliation: `permission_reconciler` reads `em.sharepoint_site_id` and writes
  `AuditLog` columns that do not exist; `reconciliation_report` builds
  `PermissionEngine()` without its session; `state_reconciliation` runs with
  `graph_client = None`. The permission classes and `FolderAccess`'s services are
  constructed by tests only; `get_graph_token` reads a global that stays `None`.

## 7. Observations, and configurations that show a disagreement

Configurations beside the runs. Each but the last finds a property violated that the
repository's documents, comments or defaults suggest; none is a run.

* `DistributedLockBreak.cfg`, `MutualExclusion`: `extend` adds to the TTL, so a holder that
  renews reaches more than twice the timeout, and `acquire_scheduler_lock` deletes its
  live key (`distributed_lock.py:155`): both run. `distributed_lock.py:221` says "Check
  for stale locks (locks older than 2x the timeout)", `docs/stories/3.1.story.md:154`
  "Distributed lock to prevent concurrent evaluations".
* `MCChangeRequestsRelockLost.cfg`, `RelockedWhenAllEnded`: opening an overlapping CR
  overwrites a row's `cr_id`, and an end re-locks only rows that carry its own
  (`cr_service.py:384`), so a folder may stay unlocked when all its CRs have ended.
  `docs/stories/3.5.story.md:38`: "Only re-lock when ALL CRs for scope have
  expired/closed".
* `MCChangeRequestsMovesBack.cfg`, `ExpiryCoversActive`: the expiry that rows show is that of
  the CR opened last, also when it is the shorter one (`cr_service.py:385`).
  `docs/stories/3.5.story.md:17` "overlapping CRs for same scope extend the unlock period",
  `:35-36`, `:252` "union of unlock windows"; `cr_service.py:93` "extend the expiry if
  needed". The folder is not re-locked earlier for it (`UnlockedForTheUnion`).
* `MCLockPipelineOverlap.cfg`, `SharePointConvergesAlways`: of two overlapping tasks the older may
  be the last to call SharePoint (`lock_application.py:158`), which then stays behind
  the row. `docs/stories/3.1.story.md:16`: "Lock transitions are idempotent and
  re-entrant safe".
* `MCLockPipelineOverride.cfg`, `OverrideStands`: the evaluation ignores `is_manual_override`
  (`lock_evaluator.py:281`) and undoes an override; `docs/stories/3.3.story.md:18`.
* `ProvisioningStuck.cfg`, `OrderSettles`: the second of two requests overwrites *completed*
  with *in_progress* (`orders.py:121-122`, `:140`), and its task finds the key used: the
  order never settles. `docs/stories/1.1.story.md:46`.
* `TemplatesDraft.cfg`, `DraftPublishable`: a published template's update is refused with
  "Create a new draft version instead" (`services/templates.py:76`), but the
  draft that `create_version` makes starts at version 1.0.0 again and cannot be published
  under that template's name; `docs/stories/1.4.story.md:15`.
* `NotificationsImmediate.cfg`, `ImmediateIsSelected`: a row without `scheduled_for` is never
  selected (`NULL <= now` is not true), so an immediate notification stays queued;
  `notification_service.py:49` "When to send (None = immediate)".
* `NotificationsDuplicates.cfg`, `NoDuplicates`: two calls may both look before either has
  committed. `docs/stories/3.4.story.md:15`: "no duplicate notifications for same
  event+recipient within 24 hours".
* `MCLockRulesTwoDates.cfg`, `OneRuleOfOrder`: rules of different T dates pass the check for
  overlapping windows and hold on the same day (`lock_rule_service.py:112`);
  `lock_rule_service.py:88` "Validate that lock windows don't overlap for the same order/EM",
  `docs/stories/3.1.story.md:34`.
* `MCFolderAccessCut.cfg`, `CutKeepsOut`: a folder whose own inheritance was broken goes on
  inheriting, as only the parent's flag is asked (`inheritance_service.py:106-111`);
  `inheritance_service.py:201` "Break inheritance for a specific folder",
  `docs/stories/2.1.story.md:14`.
* `MCFolderAccessSegregation.cfg`, `SegregationHolds`: inherited levels are added after the
  restriction of a folder's type, and where an exception or a rule has decided, also for
  roles the user does not have (`inheritance_service.py:119-134`);
  `docs/stories/2.1.story.md:152-156`, `:167` "Explicit rules trump inherited".
* `MCFolderAccessScan.cfg`, `CleanMeansInSync`: a scan drops what names neither a user nor a
  group, roles its mapping does not know, and what is not on the first page
  (`reconciliation_service.py:63-73`, `:89-108`), and may find no drift beside them;
  `docs/stories/2.1.story.md:17`.
* `ProvisioningLive.cfg`, `TasksEnd`, passes: tasks end with retries too.

`RateBounded` allows two budgets in one window's length, because the window is fixed and
starts with the first check after the last one ended. With the code's 50 requests per
window that is just what `docs/stories/3.2.story.md:216` allows ("Graph API rate limit:
100 requests/minute"); a larger `max_requests_per_minute` would exceed it.

Met while modelling; the documents do not say enough to call them wrong.

* Change requests: a sweep rewrites a CR that was closed meanwhile to expired
  (`cr_service.py:284`).
* Lease: a crash after many renewals blocks the task for as long as the TTL has grown
  (`distributed_lock.py:117`). One Redis error ends the renewal while the holder works
  on (`:133`).
* Pipeline: a `delay()` that fails after the row was committed is swallowed
  (`lock_scheduler.py:316`), and the message of a killed child of the pool is lost: both
  leave SharePoint behind until the row changes again. A task that finds one of its two
  columns in the row it loaded writes the other alone, beside whatever stands there by
  then. `apply_lock_state` gives up after `max_retries` and leaves SharePoint behind
  the row it has committed. A conflict is retried twice per delivery
  (`lock_application.py:155`), so messages double up to `max_retries`.
* Guests: `update_guest_groups` does not look at the status. An extension of an expired
  guest sets *accepted* without a redemption. A request loaded before a revocation can
  revive the guest. The overdue check leaves the groups. A resend within 24 hours is
  de-duplicated.
* Notifications: `related_entity_id` is never set, so webhooks find no row;
  `resolve_recipients` gives recipients fresh ids (`notification_service.py:142`, `:155`,
  `:171`), so de-duplication never matches for them. A call that bypasses de-duplication
  leaves history rows that keep later calls from sending, and two of them make every
  lookup of the key raise for 24 hours.
* Graph calls: client errors count as failures of the breaker; a call that waits for the
  limiter is sent although the breaker has opened meanwhile; a late success resets the
  failure count of an open breaker.
* Folder locks: removing a PM's lock through `LockService` never tells SharePoint;
  `_get_active_lock` raises when two rows are active; an overdue lock blocks a new one
  until a read expires it.
* Templates: an update that overlaps a publication may leave the published content
  different from its snapshot.
* Rules: re-activating a rule without offsets is not checked, an update may put the start
  after the end, the standard windows written before a conflict stay, and deleting a
  rule that a row refers to fails by the foreign key.
* Permissions: of a principal with several permissions one is revoked
  (`permission_service.py:209`), and what is beyond the first page is not seen. A user is
  named by e-mail, which no listed permission matches, so the user is invited again and the
  listed permission is revoked: if the invitation changed that one, nothing is left. Each operation wants only its own assignment and revokes the others of its
  folder; within the hour a second assignment of the folder is *already_applied* and
  still marked synced; an empty batch stays *processing*; two queue tasks together exceed
  the limit.
* Folder access: cascading never writes, restoring deletes inherited rows without
  restoring any, and a failed query of Graph reads as *nobody*. The folders below a *CEG_*
  folder inherit through it. A test asserts that levels are inherited for roles the user
  lacks; only tests hand the engine's result to `apply_inheritance`.

## 8. Not modelled, and why

Rendering, formatting, logging, metrics and the web client carry no state the
properties speak of. SharePoint and Graph are external: a call succeeds or fails, and
what decides the next step is kept. Orders and contracts are single transactions.
Time is counted in the unit the code compares (sweep periods, renewal intervals,
days); real durations, jitter and backoff only say *when* a retry comes, and the models
let it come at any time.

The rollback, the reconciliation of permissions and states, the older batch evaluation,
the dispatcher and the guest beat tasks raise before they change anything (section 6):
a model of what they might have meant would have no source to be faithful to. The
cache and the token hold a value behind one lock or one Redis command. The remaining
parts are listed with their reasons in `PROJECT.json`; what could still be modelled is
section 5.
