--------------------------- MODULE DistributedLock ---------------------------
(***************************************************************************)
(* The Redis lease that keeps two executions of a scheduler task apart:    *)
(* api/utils/distributed_lock.py.  Time is counted in renewal intervals.   *)
(* An instance is one execution with its own token.  It holds the lock     *)
(* from the successful acquire to the call of release; a background task   *)
(* renews the lease meanwhile and stops at the first error, which the      *)
(* holder is not told.                                                     *)
(***************************************************************************)
EXTENDS Integers

CONSTANTS
    Instance,    \* executions of the task; each makes its own token
    Nobody,      \* the Redis key does not exist
    Timeout,     \* lease timeout, in renewal intervals
    MaxTtl,      \* bound: the TTL counter saturates here
    MaxLate,     \* intervals by which a renewal may come too late
    BreakStale,  \* TRUE: acquire_scheduler_lock; FALSE: distributed_lock
    RedisFails   \* TRUE: a renewal may meet a Redis error

ASSUME NobodyAssumption == Nobody \notin Instance
ASSUME TimingAssumption ==
    /\ Timeout \in Nat /\ MaxLate \in Nat /\ MaxTtl \in Nat
    /\ 1 + MaxLate < Timeout
    /\ 2 * Timeout < MaxTtl
ASSUME ModeAssumption ==
    /\ BreakStale \in BOOLEAN
    /\ RedisFails \in BOOLEAN

VARIABLES
    owner,     \* the token stored under the key
    ttl,       \* the key's remaining time to live
    pc,        \* where each instance is
    renewing,  \* its renewal task is running
    since      \* intervals since the renewal task last slept from zero

vars == <<owner, ttl, pc, renewing, since>>

Location == {"start", "breaking", "acquiring", "held", "releasing", "done",
             "crashed"}

\* The key exists exactly while it has time to live: none is ever set without
\* an expiry, which nobody would remove.
KeyHasTtl == owner = Nobody <=> ttl = 0

TypeOK ==
    /\ owner \in Instance \cup {Nobody}
    /\ ttl \in 0..MaxTtl
    /\ pc \in [Instance -> Location]
    /\ renewing \in [Instance -> BOOLEAN]
    /\ since \in [Instance -> 0..Timeout]
    /\ KeyHasTtl

Saturated(n) == IF n > MaxTtl THEN MaxTtl ELSE n

-----------------------------------------------------------------------------
Init ==
    /\ owner = Nobody
    /\ ttl = 0
    /\ pc = [i \in Instance |-> "start"]
    /\ renewing = [i \in Instance |-> FALSE]
    /\ since = [i \in Instance |-> 0]

Goto(i, loc) == pc' = [pc EXCEPT ![i] = loc]

\* break_stale_lock(timeout * 2): the TTL of the key, whoever owns it.  The
\* branch for a key without TTL is dead: every key here was set with one.
ReadTtl(i) ==
    /\ pc[i] = "start"
    /\ Goto(i, IF BreakStale /\ owner # Nobody /\ ttl > 2 * Timeout
               THEN "breaking" ELSE "acquiring")
    /\ UNCHANGED <<owner, ttl, renewing, since>>

\* The DELETE that follows, with no check of the token.
Break(i) ==
    /\ pc[i] = "breaking"
    /\ owner' = Nobody
    /\ ttl' = 0
    /\ Goto(i, "acquiring")
    /\ UNCHANGED <<renewing, since>>

\* Mutant of Acquire: SET NX without PX, the timeout never reaches the key.
AcquireForEver(i) ==
    /\ pc[i] = "acquiring"
    /\ owner = Nobody
    /\ owner' = i
    /\ Goto(i, "held")
    /\ renewing' = [renewing EXCEPT ![i] = TRUE]
    /\ since' = [since EXCEPT ![i] = 0]
    /\ UNCHANGED ttl

\* SET NX PX once, without blocking; success starts the renewal task.
Acquire(i) ==
    /\ pc[i] = "acquiring"
    /\ owner = Nobody
    /\ owner' = i
    /\ ttl' = Timeout
    /\ Goto(i, "held")
    /\ renewing' = [renewing EXCEPT ![i] = TRUE]
    /\ since' = [since EXCEPT ![i] = 0]

Refused(i) ==
    /\ pc[i] = "acquiring"
    /\ owner # Nobody
    /\ Goto(i, "done")
    /\ UNCHANGED <<owner, ttl, renewing, since>>

\* Mutant of Renew: the key is set again, whoever owns it.
RenewAnyway(i) ==
    /\ renewing[i]
    /\ since[i] >= 1
    /\ owner' = i
    /\ ttl' = Saturated(ttl + Timeout)
    /\ since' = [since EXCEPT ![i] = 0]
    /\ UNCHANGED <<pc, renewing>>

\* _auto_renew wakes up: extend succeeds for the owner only, and adds the
\* timeout to what is left of the lease (redis-py: replace_ttl=False).
Renew(i) ==
    /\ renewing[i]
    /\ since[i] >= 1
    /\ owner = i
    /\ ttl' = Saturated(ttl + Timeout)
    /\ since' = [since EXCEPT ![i] = 0]
    /\ UNCHANGED <<owner, pc, renewing>>

\* extend raises, for a lost lease or a Redis error: the task ends, silently.
RenewFails(i) ==
    /\ renewing[i]
    /\ since[i] >= 1
    /\ owner # i \/ RedisFails
    /\ renewing' = [renewing EXCEPT ![i] = FALSE]
    /\ UNCHANGED <<owner, ttl, pc, since>>

\* Mutant of Finish: the task returns without calling release.
FinishSilently(i) ==
    /\ pc[i] = "held"
    /\ Goto(i, "done")
    /\ UNCHANGED <<owner, ttl, renewing, since>>

\* The work is over: release cancels the renewal task first.
Finish(i) ==
    /\ pc[i] = "held"
    /\ Goto(i, "releasing")
    /\ renewing' = [renewing EXCEPT ![i] = FALSE]
    /\ UNCHANGED <<owner, ttl, since>>

\* Lock.release deletes the key if it still holds this token; a LockError is
\* logged and swallowed.
Release(i) ==
    /\ pc[i] = "releasing"
    /\ Goto(i, "done")
    /\ IF owner = i THEN owner' = Nobody /\ ttl' = 0
                    ELSE UNCHANGED <<owner, ttl>>
    /\ UNCHANGED <<renewing, since>>

\* The worker process dies with the lock held or half released.
Crash(i) ==
    /\ pc[i] \in {"held", "releasing"}
    /\ Goto(i, "crashed")
    /\ renewing' = [renewing EXCEPT ![i] = FALSE]
    /\ UNCHANGED <<owner, ttl, since>>

\* One interval passes; no renewal is more than MaxLate behind.
Tick ==
    /\ owner # Nobody
    /\ \A i \in Instance : renewing[i] => since[i] <= MaxLate
    /\ ttl' = ttl - 1
    /\ owner' = IF ttl = 1 THEN Nobody ELSE owner
    /\ since' = [i \in Instance |->
                    IF renewing[i] THEN since[i] + 1 ELSE since[i]]
    /\ UNCHANGED <<pc, renewing>>

Step(i) ==
    \/ ReadTtl(i) \/ Break(i) \/ Acquire(i) \/ Refused(i)
    \/ Renew(i) \/ RenewFails(i) \/ Finish(i) \/ Release(i) \/ Crash(i)

Next == Tick \/ \E i \in Instance : Step(i)

Spec == Init /\ [][Next]_vars

\* Time passes, renewals run, and the task ends (task_time_limit).
Fairness ==
    /\ WF_vars(Tick)
    /\ \A i \in Instance : WF_vars(Renew(i) \/ RenewFails(i))
    /\ \A i \in Instance : WF_vars(Finish(i)) /\ WF_vars(Release(i))

FairSpec == Spec /\ Fairness

-----------------------------------------------------------------------------
\* Properties.

\* Work under a lease that is still being renewed is never done twice.  Only
\* distributed_lock keeps this (SharedClientsProofs).
RenewingOwns ==
    \A i \in Instance : renewing[i] => pc[i] = "held" /\ owner = i

\* The same without the excuse of a failed renewal: "Another instance is
\* already running" (acquire_scheduler_lock) is then the only answer.
MutualExclusion ==
    \A i, j \in Instance : pc[i] = "held" /\ pc[j] = "held" => i = j

\* A lease ends before its time only by its owner's release or a break: a
\* late release or renewal spares the next owner; and a lease that is still
\* renewed does not run out at all.
LeaseEndsByOwner ==
    [][owner # Nobody /\ owner' # owner /\ (ttl > 1 \/ renewing[owner])
       => \/ pc[owner] = "releasing" /\ pc'[owner] = "done"
          \/ \E i \in Instance : pc[i] = "breaking" /\ pc'[i] # "breaking"]_vars

\* A lease is always given up, by its owner or by its timeout.
LeaseEnds == \A i \in Instance : owner = i ~> owner # i
=============================================================================
