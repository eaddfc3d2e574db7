------------------------- MODULE SharedClientsProofs -------------------------
(***************************************************************************)
(* Theorems about the two clients that all workers share: the Redis lease  *)
(* (DistributedLock) and the Graph adapter (GraphCalls).                   *)
(*                                                                         *)
(* DistributedLock, for any set of instances and any timeout longer than   *)
(* the latest renewal.  LeaseKept is about both kinds of lock; the         *)
(* exclusion theorems are about distributed_lock, which breaks no lease:   *)
(* with BreakStale the instance DistributedLockBreak.cfg refutes them.     *)
(*                                                                         *)
(* GraphCalls, for any callers, retries and limits: the type invariant,    *)
(* and what the limiter's fixed windows promise about any interval.        *)
(***************************************************************************)
EXTENDS DistributedLock, GraphCalls, TLAPS

(* DistributedLock. *)

USE NobodyAssumption, TimingAssumption, ModeAssumption

\* One step keeps the type invariant.
LEMMA TypeStep ==
    ASSUME TypeOK, [Next]_vars
    PROVE  TypeOK'
<1> USE DEF TypeOK, KeyHasTtl, Goto, Location
<1>1. ASSUME NEW i \in Instance, ReadTtl(i) PROVE TypeOK'
  BY <1>1 DEF ReadTtl
<1>2. ASSUME NEW i \in Instance, Break(i) PROVE TypeOK'
  BY <1>2 DEF Break
<1>3. ASSUME NEW i \in Instance, Acquire(i) PROVE TypeOK'
  BY <1>3 DEF Acquire
<1>4. ASSUME NEW i \in Instance, Refused(i) PROVE TypeOK'
  BY <1>4 DEF Refused
<1>5. ASSUME NEW i \in Instance, Renew(i) PROVE TypeOK'
  BY <1>5 DEF Renew, Saturated
<1>6. ASSUME NEW i \in Instance, RenewFails(i) PROVE TypeOK'
  BY <1>6 DEF RenewFails
<1>7. ASSUME NEW i \in Instance, Finish(i) PROVE TypeOK'
  BY <1>7 DEF Finish
<1>8. ASSUME NEW i \in Instance, Release(i) PROVE TypeOK'
  BY <1>8 DEF Release
<1>9. ASSUME NEW i \in Instance, Crash(i) PROVE TypeOK'
  BY <1>9 DEF Crash
<1>10. CASE Tick
  <2>1. ttl' \in 0..MaxTtl /\ owner' \in Instance \cup {Nobody} /\ KeyHasTtl'
    BY <1>10 DEF Tick
  <2>2. since' \in [Instance -> 0..Timeout]
    BY <1>10 DEF Tick
  <2>3. QED
    BY <1>10, <2>1, <2>2 DEF Tick
<1>11. CASE UNCHANGED vars
  BY <1>11 DEF vars
<1>12. QED
  BY <1>1, <1>2, <1>3, <1>4, <1>5, <1>6, <1>7, <1>8, <1>9, <1>10, <1>11
     DEF Next, Step

\* Every state of every behaviour has the declared types; since[i] counts at
\* most to the timeout because no renewal is later than MaxLate, and a key has
\* time to live as long as it exists.
THEOREM TypeCorrect == Spec => []TypeOK
<1>1. Init => TypeOK
  BY DEF Init, TypeOK, KeyHasTtl, Location
<1>2. TypeOK /\ [Next]_vars => TypeOK'
  BY TypeStep
<1>3. QED
  BY <1>1, <1>2, PTL DEF Spec

-----------------------------------------------------------------------------
\* The lease of a renewing owner cannot run out: what is left of it and the
\* time since the last renewal make up at least one timeout.
RenewalInv ==
    \A i \in Instance :
        renewing[i] => /\ pc[i] = "held"
                       /\ owner = i => ttl + since[i] >= Timeout

\* One step keeps RenewalInv: only time eats a lease, and the owner's clock
\* counts the same intervals.
LEMMA RenewalStep ==
    ASSUME TypeOK, RenewalInv, [Next]_vars
    PROVE  RenewalInv'
<1> USE DEF TypeOK, KeyHasTtl, RenewalInv, Goto, Location
<1>1. ASSUME NEW i \in Instance, ReadTtl(i) PROVE RenewalInv'
  BY <1>1 DEF ReadTtl
<1>2. ASSUME NEW i \in Instance, Break(i) PROVE RenewalInv'
  BY <1>2 DEF Break
<1>3. ASSUME NEW i \in Instance, Acquire(i) PROVE RenewalInv'
  BY <1>3 DEF Acquire
<1>4. ASSUME NEW i \in Instance, Refused(i) PROVE RenewalInv'
  BY <1>4 DEF Refused
<1>5. ASSUME NEW i \in Instance, Renew(i) PROVE RenewalInv'
  BY <1>5 DEF Renew, Saturated
<1>6. ASSUME NEW i \in Instance, RenewFails(i) PROVE RenewalInv'
  BY <1>6 DEF RenewFails
<1>7. ASSUME NEW i \in Instance, Finish(i) PROVE RenewalInv'
  BY <1>7 DEF Finish
<1>8. ASSUME NEW i \in Instance, Release(i) PROVE RenewalInv'
  BY <1>8 DEF Release
<1>9. ASSUME NEW i \in Instance, Crash(i) PROVE RenewalInv'
  BY <1>9 DEF Crash
<1>10. CASE Tick
  BY <1>10 DEF Tick
<1>11. CASE UNCHANGED vars
  BY <1>11 DEF vars
<1>12. QED
  BY <1>1, <1>2, <1>3, <1>4, <1>5, <1>6, <1>7, <1>8, <1>9, <1>10, <1>11
     DEF Next, Step

\* RenewalInv holds in every state of both kinds of lock.
LEMMA RenewalInvariant == Spec => []RenewalInv
<1>1. Init => RenewalInv
  BY DEF Init, RenewalInv
<1>2. TypeOK /\ RenewalInv /\ [Next]_vars => RenewalInv'
  BY RenewalStep
<1>3. QED
  BY <1>1, <1>2, TypeCorrect, PTL DEF Spec

\* A step that takes an unexpired or a renewed lease from its owner is the
\* owner's release or a break.
LEMMA LeaseEndStep ==
    ASSUME TypeOK, RenewalInv, [Next]_vars,
           owner # Nobody, owner' # owner, ttl > 1 \/ renewing[owner]
    PROVE  \/ pc[owner] = "releasing" /\ pc'[owner] = "done"
           \/ \E i \in Instance : pc[i] = "breaking" /\ pc'[i] # "breaking"
<1> USE DEF TypeOK
<1>1. ASSUME NEW i \in Instance, Break(i)
      PROVE  pc[i] = "breaking" /\ pc'[i] # "breaking"
  BY <1>1 DEF Break, Goto
<1>2. ASSUME NEW i \in Instance, Release(i)
      PROVE  pc[owner] = "releasing" /\ pc'[owner] = "done"
  BY <1>2 DEF Release, Goto
<1>3. ASSUME NEW i \in Instance, Step(i), ~Break(i), ~Release(i)
      PROVE  FALSE
  BY <1>3 DEF Step, ReadTtl, Acquire, Refused, Renew, RenewFails, Finish, Crash
<1>4. CASE Tick
  <2>1. ttl = 1
    BY <1>4 DEF Tick
  <2>2. renewing[owner] /\ since[owner] <= MaxLate
    BY <1>4, <2>1 DEF Tick
  <2>3. ttl + since[owner] >= Timeout
    BY <2>2 DEF RenewalInv
  <2>4. QED
    BY <2>1, <2>2, <2>3
<1>5. CASE UNCHANGED vars
  BY <1>5 DEF vars
<1>6. QED
  BY <1>1, <1>2, <1>3, <1>4, <1>5 DEF Next

\* Nobody's late release or renewal takes a lease away, and one that is still
\* renewed never runs out, whatever is broken, crashes or fails.
THEOREM LeaseKept == Spec => LeaseEndsByOwner
<1>1. TypeOK /\ RenewalInv /\ [Next]_vars
      => [owner # Nobody /\ owner' # owner /\ (ttl > 1 \/ renewing[owner])
          => \/ pc[owner] = "releasing" /\ pc'[owner] = "done"
             \/ \E i \in Instance :
                   pc[i] = "breaking" /\ pc'[i] # "breaking"]_vars
  BY LeaseEndStep
<1>2. QED
  BY <1>1, TypeCorrect, RenewalInvariant, PTL DEF Spec, LeaseEndsByOwner

-----------------------------------------------------------------------------
\* Where no lease is broken, whoever renews owns the lease.
OwnInv ==
    \A i \in Instance : pc[i] # "breaking" /\ (renewing[i] => owner = i)

\* One step keeps OwnInv.
LEMMA OwnStep ==
    ASSUME ~BreakStale, TypeOK, RenewalInv, OwnInv, [Next]_vars
    PROVE  OwnInv'
<1> USE DEF TypeOK, KeyHasTtl, OwnInv, Goto
<1>1. ASSUME NEW i \in Instance, Step(i), ~Release(i) PROVE OwnInv'
  BY <1>1 DEF Step, ReadTtl, Break, Acquire, Refused, Renew, RenewFails,
              Finish, Crash
<1>2. ASSUME NEW i \in Instance, Release(i) PROVE OwnInv'
  BY <1>2 DEF Release, RenewalInv
<1>3. CASE Tick
  <2>1. ASSUME NEW i \in Instance, renewing[i]
        PROVE  ttl > 1
    BY <1>3, <2>1 DEF Tick, RenewalInv
  <2>2. QED
    BY <1>3, <2>1 DEF Tick
<1>4. CASE UNCHANGED vars
  BY <1>4 DEF vars
<1>5. QED
  BY <1>1, <1>2, <1>3, <1>4 DEF Next

\* OwnInv holds in every state of distributed_lock.
LEMMA OwnInvariant ==
    ASSUME ~BreakStale
    PROVE  Spec => []OwnInv
<1>1. Init => OwnInv
  BY DEF Init, OwnInv
<1>2. TypeOK /\ RenewalInv /\ OwnInv /\ [Next]_vars => OwnInv'
  BY OwnStep
<1>3. QED
  BY <1>1, <1>2, TypeCorrect, RenewalInvariant, PTL DEF Spec

\* Without stale breaking, an instance whose renewals succeed owns the lease,
\* whatever crashes, late releases and Redis errors there are.
THEOREM RenewingHolderOwns ==
    ASSUME ~BreakStale
    PROVE  Spec => []RenewingOwns
<1>1. RenewalInv /\ OwnInv => RenewingOwns
  BY DEF RenewalInv, OwnInv, RenewingOwns
<1>2. QED
  BY <1>1, RenewalInvariant, OwnInvariant, PTL

-----------------------------------------------------------------------------
\* Without Redis errors either, a holder never stops renewing.
HolderRenews == \A i \in Instance : pc[i] = "held" => renewing[i]

\* One step keeps HolderRenews.
LEMMA HolderRenewsStep ==
    ASSUME ~RedisFails, TypeOK, OwnInv, HolderRenews, [Next]_vars
    PROVE  HolderRenews'
<1> USE DEF TypeOK, HolderRenews, Goto, Location
<1>1. ASSUME NEW i \in Instance, RenewFails(i) PROVE HolderRenews'
  BY <1>1 DEF RenewFails, OwnInv
<1>2. ASSUME NEW i \in Instance, Step(i), ~RenewFails(i) PROVE HolderRenews'
  BY <1>2 DEF Step, ReadTtl, Break, Acquire, Refused, Renew, Finish, Release,
              Crash
<1>3. CASE Tick \/ UNCHANGED vars
  BY <1>3 DEF Tick, vars
<1>4. QED
  BY <1>1, <1>2, <1>3 DEF Next

\* Mutual exclusion: with neither breaking nor Redis errors no two instances
\* work at once, for renewals late by any MaxLate that leaves time to renew.
THEOREM HoldersExclude ==
    ASSUME ~BreakStale, ~RedisFails
    PROVE  Spec => []MutualExclusion
<1>1. Init => HolderRenews
  BY DEF Init, HolderRenews
<1>2. TypeOK /\ OwnInv /\ HolderRenews /\ [Next]_vars => HolderRenews'
  BY HolderRenewsStep
<1>3. OwnInv /\ HolderRenews => MutualExclusion
  BY DEF OwnInv, HolderRenews, MutualExclusion
<1>4. QED
  BY <1>1, <1>2, <1>3, TypeCorrect, OwnInvariant, PTL DEF Spec

-----------------------------------------------------------------------------
(* GraphCalls. *)

\* The requests of the current window are counted; of older ones, no more than a
\* budget is still within a window's length.
WindowInv ==
    \A a \in 0..Window :
       recent[a] <= limiter.request_count + (IF a < limiter.age THEN 0 ELSE Budget)

\* Sending a request and the passing of a second are the only steps that touch what
\* the limiter counts.
LimiterKept ==
    /\ limiter' \in Limiter /\ recent' = recent
    /\ limiter'.request_count = limiter.request_count
    /\ limiter'.age = limiter.age

\* A coroutine goes where its step says.
LEMMA CallWritten ==
    ASSUME CallsTypeOK, NEW c \in Caller,
           \/ \E place \in {"idle", "enter", "poll", "sent"} : GoesTo(c, place)
           \/ NextAttempt(c)
    PROVE  call' \in [Caller -> Call]
<1>0. call \in [Caller -> Call] /\ call[c] \in Call
  BY DEF CallsTypeOK
<1>1. ASSUME NEW place \in {"idle", "enter", "poll", "sent"}, GoesTo(c, place)
      PROVE  call' \in [Caller -> Call]
  BY <1>0, <1>1 DEF GoesTo, Call
<1>2. CASE call[c].attempt < MaxRetries /\ NextAttempt(c)
  <2>1. call[c].attempt + 1 \in 0..MaxRetries
    BY <1>0, <1>2, CallsAssumption DEF Call
  <2>2. call' = [call EXCEPT ![c] = [call[c] EXCEPT !.pc = "enter",
                                                   !.attempt = call[c].attempt + 1]]
    BY <1>0, <1>2 DEF NextAttempt, Call
  <2>3. QED
    BY <1>0, <2>1, <2>2 DEF Call
<1>3. CASE ~(call[c].attempt < MaxRetries) /\ NextAttempt(c)
  BY <1>1, <1>3 DEF NextAttempt
<1>4. QED
  BY <1>1, <1>2, <1>3

\* What the breaker becomes after an answer has its type.
LEMMA BreakerWritten ==
    ASSUME CallsTypeOK, OnSuccess \/ OnFailure
    PROVE  breaker' \in Breaker
<1>1. CASE OnSuccess
  BY <1>1 DEF OnSuccess, CallsTypeOK, Breaker, BreakerState
<1>2. CASE OnFailure
  <2>1. breaker.failure_count + 1 \in Nat /\ 0 \in 0..Recovery + 1
    BY CallsAssumption DEF CallsTypeOK, Breaker
  <2>2. QED
    BY <1>2, <2>1 DEF OnFailure, CallsTypeOK, Breaker, BreakerState
<1>3. QED
  BY <1>1, <1>2

\* The initial states have the type and an empty window.
LEMMA CallsInitKeeps == CallsInit => CallsTypeOK /\ WindowInv
<1> SUFFICES ASSUME CallsInit PROVE CallsTypeOK /\ WindowInv
  OBVIOUS
<1>1. breaker \in Breaker /\ limiter \in Limiter
  BY CallsAssumption DEF CallsInit, Breaker, BreakerState, Limiter
<1>2. call \in [Caller -> Call]
  BY CallsAssumption DEF CallsInit, Call
<1>3. WindowInv
  BY CallsAssumption DEF CallsInit, WindowInv
<1>4. QED
  BY <1>1, <1>2, <1>3 DEF CallsInit, CallsTypeOK

\* A step that leaves the limiter's count alone keeps the window.
LEMMA WindowKept ==
    ASSUME CallsTypeOK, WindowInv, LimiterKept, breaker' \in Breaker, call' \in [Caller -> Call]
    PROVE  CallsTypeOK' /\ WindowInv'
BY DEF CallsTypeOK, WindowInv, LimiterKept

\* A request is sent only while the window has some of its budget left; the first of
\* a new window leaves at most one budget behind it.
LEMMA PollKeeps ==
    ASSUME CallsTypeOK, WindowInv, NEW c \in Caller, Poll(c)
    PROVE  CallsTypeOK' /\ WindowInv'
<1>0. /\ limiter \in Limiter /\ recent \in [0..Window -> Nat]
      /\ limiter.request_count \in 0..Budget /\ limiter.age \in 0..Window + 1
      /\ Budget \in Nat /\ Window \in Nat
  BY CallsAssumption DEF CallsTypeOK, Limiter
<1>1. Count \in Nat /\ Count < Budget /\ Age \in 0..Window + 1
  BY <1>0 DEF Poll, MayProceed, Count, Age
<1>2. limiter' = [limiter EXCEPT !.request_count = Count + 1, !.age = Age]
  BY DEF Poll
<1>3. limiter'.request_count = Count + 1 /\ limiter'.age = Age /\ limiter' \in Limiter
  <2>1. Count + 1 \in 0..Budget
    BY <1>0, <1>1
  <2>2. QED
    BY <1>0, <1>1, <1>2, <2>1 DEF Limiter
<1>4. recent' = [a \in 0..Window |-> recent[a] + 1]
  BY DEF Poll
<1>5. ASSUME NEW a \in 0..Window
      PROVE  recent'[a] <= Count + 1 + (IF a < Age THEN 0 ELSE Budget)
  <2>1. recent[a] <= limiter.request_count + (IF a < limiter.age THEN 0 ELSE Budget)
        /\ recent[a] \in Nat
    BY <1>0 DEF WindowInv
  <2>2. recent'[a] = recent[a] + 1
    BY <1>4
  <2>3. CASE WindowOver
    <3>1. Count = 0 /\ Age = 0 /\ a < limiter.age
      BY <1>0, <2>3 DEF Count, Age, WindowOver
    <3>2. QED
      BY <1>0, <2>1, <2>2, <3>1
  <2>4. CASE ~WindowOver
    <3>1. Count = limiter.request_count /\ Age = limiter.age
      BY <2>4 DEF Count, Age
    <3>2. QED
      BY <1>0, <2>1, <2>2, <3>1
  <2>5. QED
    BY <2>3, <2>4
<1>6. call' \in [Caller -> Call]
  BY CallWritten DEF Poll
<1>7. recent' \in [0..Window -> Nat]
  BY <1>0, <1>4
<1>8. breaker' = breaker
  BY DEF Poll
<1>9. WindowInv'
  BY <1>3, <1>5 DEF WindowInv
<1>10. QED
  BY <1>3, <1>6, <1>7, <1>8, <1>9 DEF CallsTypeOK

\* A second makes every request and the window older alike.
LEMMA SecondKeeps ==
    ASSUME CallsTypeOK, WindowInv, SecondPasses
    PROVE  CallsTypeOK' /\ WindowInv'
<1>0. /\ limiter \in Limiter /\ recent \in [0..Window -> Nat]
      /\ limiter.request_count \in 0..Budget /\ limiter.age \in 0..Window + 1
      /\ limiter.retry_after \in 0..MaxWait
      /\ Budget \in Nat /\ Window \in Nat /\ Recovery \in Nat /\ MaxWait \in Nat
  BY CallsAssumption DEF CallsTypeOK, Limiter
<1>1. breaker' \in Breaker
  <2>1. breaker.since \in 0..Recovery + 1
    BY DEF CallsTypeOK, Breaker
  <2>2. Older(breaker.since, Recovery + 1) \in 0..Recovery + 1
    BY <1>0, <2>1 DEF Older
  <2>3. QED
    BY <2>2 DEF SecondPasses, CallsTypeOK, Breaker
<1>2. /\ limiter' \in Limiter /\ limiter'.request_count = limiter.request_count
      /\ limiter'.age = Older(limiter.age, Window + 1)
  <2>1. Older(limiter.age, Window + 1) \in 0..Window + 1
    BY <1>0 DEF Older
  <2>2. (IF limiter.retry_after = 0 THEN 0 ELSE limiter.retry_after - 1) \in 0..MaxWait
    BY <1>0
  <2>3. limiter' = [limiter EXCEPT !.age = Older(limiter.age, Window + 1),
          !.retry_after = IF limiter.retry_after = 0 THEN 0 ELSE limiter.retry_after - 1]
    BY <1>0 DEF SecondPasses, Limiter
  <2>4. QED
    BY <1>0, <2>1, <2>2, <2>3 DEF Limiter
<1>3. recent' = [a \in 0..Window |-> IF a = 0 THEN 0 ELSE recent[a - 1]]
  BY DEF SecondPasses
<1>4. ASSUME NEW a \in 0..Window
      PROVE  /\ recent'[a] \in Nat
             /\ recent'[a] <= limiter.request_count
                   + (IF a < Older(limiter.age, Window + 1) THEN 0 ELSE Budget)
  <2>1. CASE a = 0
    BY <1>0, <1>3, <2>1
  <2>2. CASE a # 0
    <3>1. a - 1 \in 0..Window
      BY <1>0, <2>2
    <3>2. recent[a - 1] <= limiter.request_count
             + (IF a - 1 < limiter.age THEN 0 ELSE Budget)
      BY <3>1 DEF WindowInv
    <3>3. a - 1 < limiter.age <=> a < Older(limiter.age, Window + 1)
      BY <1>0, <2>2 DEF Older
    <3>4. recent'[a] = recent[a - 1] /\ recent[a - 1] \in Nat
      BY <1>0, <1>3, <2>2, <3>1
    <3>5. QED
      BY <3>2, <3>3, <3>4
  <2>3. QED
    BY <2>1, <2>2
<1>5. recent' \in [0..Window -> Nat]
  BY <1>3, <1>4
<1>6. call' \in [Caller -> Call]
  BY DEF SecondPasses, CallsTypeOK
<1>7. WindowInv'
  BY <1>2, <1>4 DEF WindowInv
<1>8. QED
  BY <1>1, <1>2, <1>5, <1>6, <1>7 DEF CallsTypeOK

\* Every step keeps the types and the window.
LEMMA CallsNextKeeps ==
    CallsTypeOK /\ WindowInv /\ [CallsNext]_callsVars => CallsTypeOK' /\ WindowInv'
<1> SUFFICES ASSUME CallsTypeOK, WindowInv, [CallsNext]_callsVars
             PROVE  CallsTypeOK' /\ WindowInv'
  OBVIOUS
<1>0. limiter \in Limiter /\ breaker \in Breaker /\ call \in [Caller -> Call]
  BY DEF CallsTypeOK
<1>1. ASSUME NEW c \in Caller, Begin(c) PROVE CallsTypeOK' /\ WindowInv'
  <2>1. call[c].calls + 1 \in 0..MaxCalls /\ 0 \in 0..MaxRetries
    BY <1>0, <1>1, CallsAssumption DEF Begin, Call
  <2>2. call' \in [Caller -> Call]
    BY <1>0, <1>1, <2>1 DEF Begin, Call
  <2>3. LimiterKept /\ breaker' = breaker
    BY <1>0, <1>1 DEF Begin, LimiterKept
  <2>4. QED
    BY <1>0, <2>2, <2>3, WindowKept
<1>2. ASSUME NEW c \in Caller, Admitted(c) \/ HalfOpens(c) \/ TurnedAway(c)
      PROVE  CallsTypeOK' /\ WindowInv'
  <2>1. call' \in [Caller -> Call]
    BY <1>2, CallWritten DEF Admitted, HalfOpens, TurnedAway
  <2>2. LimiterKept /\ breaker' \in Breaker
    BY <1>0, <1>2 DEF Admitted, HalfOpens, TurnedAway, LimiterKept, Breaker, BreakerState
  <2>3. QED
    BY <2>1, <2>2, WindowKept
<1>3. ASSUME NEW c \in Caller, Succeeds(c) \/ Fails(c) \/ ClientError(c)
      PROVE  CallsTypeOK' /\ WindowInv'
  <2>1. call' \in [Caller -> Call]
    BY <1>3, CallWritten DEF Succeeds, Fails, ClientError
  <2>2. LimiterKept /\ breaker' \in Breaker
    BY <1>0, <1>3, BreakerWritten DEF Succeeds, Fails, ClientError, LimiterKept
  <2>3. QED
    BY <2>1, <2>2, WindowKept
<1>4. ASSUME NEW c \in Caller, NEW wait \in 0..MaxWait, Throttled(c, wait)
      PROVE  CallsTypeOK' /\ WindowInv'
  <2>1. call' \in [Caller -> Call]
    BY <1>4, CallWritten DEF Throttled
  <2>2. LimiterKept /\ breaker' \in Breaker
    BY <1>0, <1>4, BreakerWritten DEF Throttled, LimiterKept, Limiter
  <2>3. QED
    BY <2>1, <2>2, WindowKept
<1>5. CASE UNCHANGED callsVars
  BY <1>0, <1>5, WindowKept DEF callsVars, LimiterKept
<1>6. QED
  BY <1>1, <1>2, <1>3, <1>4, <1>5, PollKeeps, SecondKeeps
  DEF CallsNext, ExecuteWithRetry, Passes, Answered

\* The types and the window's invariant hold in every state.
LEMMA CallsInvariant == CallsSpec => [](CallsTypeOK /\ WindowInv)
<1>1. QED
  BY CallsInitKeeps, CallsNextKeeps, PTL DEF CallsSpec

\* The variables keep their types: no call has more attempts than max_retries allows,
\* and a window never counts more than its budget.
THEOREM CallsTypeCorrect == CallsSpec => []CallsTypeOK
<1>1. QED
  BY CallsInvariant, PTL

\* No interval of a window's length sees more than two budgets, whatever the number of
\* callers, the retries and the state of the breaker.
THEOREM RateIsBounded == CallsSpec => []RateBounded
<1>1. CallsTypeOK /\ WindowInv => RateBounded
  <2> SUFFICES ASSUME CallsTypeOK, WindowInv PROVE RateBounded
    OBVIOUS
  <2>1. /\ limiter.request_count \in 0..Budget /\ Budget \in Nat /\ Window \in 0..Window
        /\ recent[Window] \in Nat
    BY CallsAssumption DEF CallsTypeOK, Limiter
  <2>2. recent[Window] <= limiter.request_count
           + (IF Window < limiter.age THEN 0 ELSE Budget)
    BY <2>1 DEF WindowInv
  <2>3. QED
    BY <2>1, <2>2 DEF RateBounded
<1>2. QED
  BY <1>1, CallsInvariant, PTL
=============================================================================
