------------------------ MODULE ChangeRequestsProofs ------------------------
(***************************************************************************)
(* Theorems about ChangeRequests, for any sets of CRs, folders and sweeps. *)
(* The inductive invariant is TypeOK with TagAgrees: the other invariants  *)
(* need to know that a row's cr_id names a CR of the row's own scope.      *)
(***************************************************************************)
EXTENDS ChangeRequests, TLAPS

USE TargetAssumption, NoCRAssumption, BoundAssumption

\* The mark of an empty expiry column is a time like any other.
LEMMA NoTimeInTime == NoTime \in Time
  BY DEF NoTime, Time

\* The two row updates keep the type of a row.
LEMMA RowTypes ==
    ASSUME NEW row \in LockState, NEW c \in CR, NEW e \in Time
    PROVE  Unlocked(row, c, e) \in LockState /\ Relocked(row) \in LockState
<1>1. Unlocked(row, c, e) \in LockState
  BY DEF Unlocked, LockState, PermissionLevel, OverrideBy
<1>2. Relocked(row) \in LockState
  BY NoTimeInTime DEF Relocked, LockState, PermissionLevel, OverrideBy
<1>3. QED
  BY <1>1, <1>2

\* UnlockRows and EndRows keep the type of the table.
LEMMA TableTypes ==
    ASSUME TypeOK, NEW c \in CR, NEW e \in Time
    PROVE  /\ UnlockRows(c, e) \in [Folder -> LockState]
           /\ EndRows(c) \in [Folder -> LockState]
  BY RowTypes DEF UnlockRows, EndRows, TypeOK

\* Every state of every behaviour has the types of the tables.
THEOREM TypeCorrect == Spec => []TypeOK
<1>1. Init => TypeOK
  BY NoTimeInTime DEF Init, TypeOK, ChangeRequest, CRStatus, LockState,
                      NoLockState, PermissionLevel, OverrideBy, NoTime
<1>2. TypeOK /\ [Next]_vars => TypeOK'
  <2> SUFFICES ASSUME TypeOK, [Next]_vars PROVE TypeOK'
    OBVIOUS
  <2>1. ASSUME NEW c \in CR, NEW d \in 1..MaxDuration, CreateCR(c, d)
        PROVE  TypeOK'
    <3>1. now + d \in Time
      BY <2>1 DEF CreateCR, NewCR, TypeOK, Time
    <3>2. crs' \in [CR -> ChangeRequest]
      BY <2>1, <3>1 DEF CreateCR, NewCR, TypeOK, ChangeRequest, CRStatus
    <3>3. overlapped' \subseteq CR
      BY <2>1 DEF CreateCR, NoteOverlap, OtherActive, TypeOK
    <3>4. QED
      BY <2>1, <3>1, <3>2, <3>3, TableTypes DEF CreateCR, NewCR, TypeOK
  <2>2. ASSUME NEW c \in CR, CloseCR(c) PROVE TypeOK'
    <3>1. crs' \in [CR -> ChangeRequest]
      BY <2>2 DEF Ends, CloseCR, TypeOK, ChangeRequest, CRStatus
    <3>2. QED
      BY <2>2, <3>1, TableTypes DEF Ends, CloseCR, TypeOK
  <2>3. ASSUME NEW s \in Sweeper, BeginSweep(s) PROVE TypeOK'
    BY <2>3 DEF BeginSweep, TypeOK
  <2>4. ASSUME NEW s \in Sweeper, NEW c \in CR, ExpireCR(s, c) PROVE TypeOK'
    <3>1. crs' \in [CR -> ChangeRequest]
      BY <2>4 DEF Ends, ExpireCR, TypeOK, ChangeRequest, CRStatus
    <3>2. pending' \in [Sweeper -> SUBSET CR]
      BY <2>4 DEF Ends, ExpireCR, TypeOK
    <3>3. QED
      BY <2>4, <3>1, <3>2, TableTypes DEF Ends, ExpireCR, TypeOK
  <2>5. ASSUME NEW s \in Sweeper, SweepFails(s) PROVE TypeOK'
    BY <2>5 DEF SweepFails, TypeOK
  <2>6. ASSUME NEW f \in Folder, NEW p \in PermissionLevel, ManualOverride(f, p)
        PROVE  TypeOK'
    <3> DEFINE row == [locks[f] EXCEPT !.exists = TRUE,
                                       !.permission_level = p,
                                       !.override = "admin"]
    <3>1. locks[f] \in LockState
      BY DEF TypeOK
    <3>2. row \in LockState
      BY <3>1 DEF LockState, OverrideBy
    <3>3. locks' = [locks EXCEPT ![f] = row]
      BY <2>6 DEF ManualOverride
    <3> HIDE DEF row
    <3>4. locks' \in [Folder -> LockState]
      BY <3>2, <3>3 DEF TypeOK
    <3>5. QED
      BY <2>6, <3>4 DEF ManualOverride, TypeOK
  <2>7. CASE Tick
    BY <2>7 DEF Tick, TypeOK, Time
  <2>8. CASE UNCHANGED vars
    BY <2>8 DEF vars, TypeOK
  <2>9. QED
    BY <2>1, <2>2, <2>3, <2>4, <2>5, <2>6, <2>7, <2>8 DEF Next
<1>3. QED
  BY <1>1, <1>2, PTL DEF Spec

-----------------------------------------------------------------------------
\* The rows after the end of a CR: what is re-locked carries no tag, what is
\* not is as it was, and a re-lock happens only with no other CR active.
LEMMA EndRowsCases ==
    ASSUME TypeOK, NEW c \in CR, NEW f \in Folder
    PROVE  \/ EndRows(c)[f] = locks[f] /\ (OtherActive(c) # {} \/ locks[f].cr_id # c)
           \/ /\ OtherActive(c) = {} /\ locks[f].cr_id = c
              /\ EndRows(c)[f].exists = locks[f].exists
              /\ EndRows(c)[f].cr_id = NoCR
              /\ EndRows(c)[f].cr_expires_at = NoTime
              /\ EndRows(c)[f].override = "nobody"
  BY DEF EndRows, Relocked, TypeOK, LockState

\* The rows after an unlock: every row of the scope is the CR's.
LEMMA UnlockRowsCases ==
    ASSUME TypeOK, NEW c \in CR, NEW e \in Time, NEW f \in Folder
    PROVE  \/ /\ UnlockRows(c, e)[f] = locks[f]
              /\ ~locks[f].exists \/ FolderTarget[f] # CRTarget[c]
           \/ /\ locks[f].exists /\ FolderTarget[f] = CRTarget[c]
              /\ UnlockRows(c, e)[f].exists = locks[f].exists
              /\ UnlockRows(c, e)[f].cr_id = c
              /\ UnlockRows(c, e)[f].cr_expires_at = e
              /\ UnlockRows(c, e)[f].lock_type = "manual"
              /\ UnlockRows(c, e)[f].override = "cr"
  BY DEF UnlockRows, InScope, Unlocked, TypeOK, LockState

\* TagAgrees of one row, for the case analysis.
RowAgrees(f) ==
    LET row == locks[f] IN
    IF row.cr_id = NoCR
    THEN row.cr_expires_at = NoTime /\ row.override # "cr"
    ELSE /\ row.exists
         /\ row.cr_id \in CR
         /\ FolderTarget[f] = CRTarget[row.cr_id]
         /\ crs[row.cr_id].status # "none"
         /\ row.cr_expires_at = crs[row.cr_id].expires_at
         /\ row.lock_type = "manual"
         /\ row.override # "nobody"

\* One step keeps the agreement of rows and CRs.
LEMMA TagStep ==
    ASSUME TypeOK, TagAgrees, [Next]_vars
    PROVE  TagAgrees'
<1> SUFFICES ASSUME NEW f \in Folder PROVE RowAgrees(f)'
  BY DEF TagAgrees, RowAgrees, InScope
<1>0. RowAgrees(f)
  BY DEF TagAgrees, RowAgrees, InScope
<1>1. ASSUME NEW c \in CR, NEW d \in 1..MaxDuration, CreateCR(c, d)
      PROVE  RowAgrees(f)'
  <2>1. now + d \in Time
    BY <1>1 DEF CreateCR, NewCR, TypeOK, Time
  <2>2. /\ crs[c].status = "none"
        /\ crs'[c].status = "active" /\ crs'[c].expires_at = now + d
        /\ \A b \in CR \ {c} : crs'[b] = crs[b]
        /\ locks'[f] = UnlockRows(c, now + d)[f]
    BY <1>1 DEF CreateCR, NewCR, TypeOK, ChangeRequest
  <2>3. CASE UnlockRows(c, now + d)[f] = locks[f]
    BY <1>0, <2>2, <2>3 DEF RowAgrees
  <2>4. CASE UnlockRows(c, now + d)[f] # locks[f]
    BY <2>1, <2>2, <2>4, UnlockRowsCases DEF RowAgrees
  <2>5. QED
    BY <2>3, <2>4
<1>2. ASSUME NEW c \in CR, CloseCR(c) \/ \E s \in Sweeper : ExpireCR(s, c)
      PROVE  RowAgrees(f)'
  <2>1. /\ locks'[f] = EndRows(c)[f]
        /\ \A b \in CR : crs'[b].expires_at = crs[b].expires_at
        /\ \A b \in CR : crs[b].status # "none" => crs'[b].status # "none"
    <3>1. CASE CloseCR(c)
      BY <3>1 DEF Ends, CloseCR, TypeOK, ChangeRequest
    <3>2. CASE \E s \in Sweeper : ExpireCR(s, c)
      BY <3>2 DEF Ends, ExpireCR, TypeOK, ChangeRequest
    <3>3. QED
      BY <1>2, <3>1, <3>2
  <2>3. CASE locks'[f] = locks[f]
    BY <1>0, <2>1, <2>3 DEF RowAgrees
  <2>4. CASE locks'[f] # locks[f]
    <3>1. /\ locks'[f].cr_id = NoCR /\ locks'[f].cr_expires_at = NoTime
          /\ locks'[f].override = "nobody"
      BY <2>1, <2>4, EndRowsCases
    <3>2. QED
      BY <3>1 DEF RowAgrees
  <2>5. QED
    BY <2>3, <2>4
<1>3. ASSUME NEW g \in Folder, NEW p \in PermissionLevel, ManualOverride(g, p)
      PROVE  RowAgrees(f)'
  <2>1. crs' = crs /\ (f # g => locks'[f] = locks[f])
    BY <1>3 DEF ManualOverride, TypeOK
  <2>2. /\ locks'[g].exists = TRUE /\ locks'[g].override = "admin"
        /\ locks'[g].cr_id = locks[g].cr_id
        /\ locks'[g].cr_expires_at = locks[g].cr_expires_at
        /\ locks'[g].lock_type = locks[g].lock_type
    BY <1>3 DEF ManualOverride, TypeOK, LockState
  <2>3. QED
    BY <1>0, <2>1, <2>2 DEF RowAgrees
<1>4. CASE UNCHANGED <<crs, locks>>
  BY <1>0, <1>4 DEF RowAgrees
<1>5. QED
  BY <1>1, <1>2, <1>3, <1>4 DEF Next, BeginSweep, SweepFails, Tick, vars

\* The tag of a row always names a CR of its scope and copies its expiry.
THEOREM TagsAgree == Spec => []TagAgrees
<1>1. Init => TagAgrees
  BY DEF Init, TagAgrees, NoLockState, NoTime
<1>2. TypeOK /\ TagAgrees /\ [Next]_vars => TagAgrees'
  BY TagStep
<1>3. QED
  BY <1>1, <1>2, TypeCorrect, PTL DEF Spec

-----------------------------------------------------------------------------
\* While a CR of a scope is active, no row of the scope is re-locked.
LEMMA UnlockStep ==
    ASSUME TypeOK, TagAgrees, UnlockHolds, [Next]_vars
    PROVE  UnlockHolds'
<1> SUFFICES ASSUME NEW f \in Folder, locks'[f].exists,
                    NEW a \in CR, crs'[a].status = "active",
                    CRTarget[a] = FolderTarget[f]
             PROVE  locks'[f].cr_id # NoCR \/ locks'[f].override = "admin"
  BY DEF UnlockHolds, ActiveFor, Active
<1>0. locks[f].exists /\ crs[a].status = "active"
      => locks[f].cr_id # NoCR \/ locks[f].override = "admin"
  BY DEF UnlockHolds, ActiveFor, Active
<1>1. ASSUME NEW c \in CR, NEW d \in 1..MaxDuration, CreateCR(c, d)
      PROVE  locks'[f].cr_id # NoCR \/ locks'[f].override = "admin"
  <2>1. now + d \in Time
    BY <1>1 DEF CreateCR, NewCR, TypeOK, Time
  <2>2. /\ \A b \in CR \ {c} : crs'[b] = crs[b]
        /\ locks'[f] = UnlockRows(c, now + d)[f]
    BY <1>1 DEF CreateCR, NewCR, TypeOK, ChangeRequest
  <2>3. QED
    BY <1>0, <2>1, <2>2, UnlockRowsCases
<1>2. ASSUME NEW c \in CR, CloseCR(c) \/ \E s \in Sweeper : ExpireCR(s, c)
      PROVE  locks'[f].cr_id # NoCR \/ locks'[f].override = "admin"
  <2>1. /\ locks'[f] = EndRows(c)[f]
        /\ a # c
        /\ crs[a].status = "active"
    BY <1>2 DEF Ends, CloseCR, ExpireCR, TypeOK, ChangeRequest
  <2>2. locks[f].cr_id = c => a \in OtherActive(c)
    BY <2>1 DEF OtherActive, Active, TagAgrees, InScope
  <2>3. QED
    BY <1>0, <2>1, <2>2, EndRowsCases
<1>3. ASSUME NEW g \in Folder, NEW p \in PermissionLevel, ManualOverride(g, p)
      PROVE  locks'[f].cr_id # NoCR \/ locks'[f].override = "admin"
  <2>1. crs' = crs /\ (f # g => locks'[f] = locks[f])
    BY <1>3 DEF ManualOverride, TypeOK
  <2>2. locks'[g].override = "admin"
    BY <1>3 DEF ManualOverride, TypeOK, LockState
  <2>3. QED
    BY <1>0, <2>1, <2>2
<1>4. CASE UNCHANGED <<crs, locks>>
  BY <1>0, <1>4
<1>5. QED
  BY <1>1, <1>2, <1>3, <1>4 DEF Next, BeginSweep, SweepFails, Tick, vars

\* No overlap of CRs, sweeps and closures re-locks a scope too early.
THEOREM UnlockHeld == Spec => []UnlockHolds
<1>1. Init => UnlockHolds
  BY DEF Init, UnlockHolds, NoLockState
<1>2. TypeOK /\ TagAgrees /\ UnlockHolds /\ [Next]_vars => UnlockHolds'
  BY UnlockStep
<1>3. QED
  BY <1>1, <1>2, TypeCorrect, TagsAgree, PTL DEF Spec

\* A sweep never expires a CR before its time, however late it commits.
THEOREM SweepsOnlyOverdue == Spec => []PendingOverdue
<1>1. Init => PendingOverdue
  BY DEF Init, PendingOverdue
<1>2. TypeOK /\ PendingOverdue /\ [Next]_vars => PendingOverdue'
  <2> SUFFICES ASSUME TypeOK, PendingOverdue, [Next]_vars,
                      NEW s \in Sweeper, NEW b \in pending'[s]
               PROVE  crs'[b].status # "none" /\ crs'[b].expires_at <= now'
    BY DEF PendingOverdue
  <2>0. /\ b \in pending[s] => b \in CR /\ crs[b].status # "none"
                                       /\ crs[b].expires_at <= now
        /\ now \in Nat /\ \A c \in CR : crs[c].expires_at \in Nat
    BY DEF PendingOverdue, TypeOK, ChangeRequest, Time
  <2>1. ASSUME NEW c \in CR, NEW d \in 1..MaxDuration, CreateCR(c, d)
        PROVE  crs'[b].status # "none" /\ crs'[b].expires_at <= now'
    BY <2>0, <2>1 DEF CreateCR, NewCR, TypeOK
  <2>2. ASSUME NEW c \in CR, CloseCR(c)
        PROVE  crs'[b].status # "none" /\ crs'[b].expires_at <= now'
    BY <2>0, <2>2 DEF Ends, CloseCR, TypeOK, ChangeRequest
  <2>3. ASSUME NEW z \in Sweeper, BeginSweep(z)
        PROVE  crs'[b].status # "none" /\ crs'[b].expires_at <= now'
    BY <2>0, <2>3 DEF BeginSweep, TypeOK, Active
  <2>4. ASSUME NEW z \in Sweeper, NEW c \in CR, ExpireCR(z, c)
        PROVE  crs'[b].status # "none" /\ crs'[b].expires_at <= now'
    BY <2>0, <2>4 DEF Ends, ExpireCR, TypeOK, ChangeRequest
  <2>5. ASSUME NEW z \in Sweeper, SweepFails(z)
        PROVE  crs'[b].status # "none" /\ crs'[b].expires_at <= now'
    BY <2>0, <2>5 DEF SweepFails, TypeOK
  <2>6. CASE UNCHANGED <<crs, pending, now>>
    BY <2>0, <2>6
  <2>7. CASE Tick
    BY <2>0, <2>7 DEF Tick
  <2>8. QED
    BY <2>1, <2>2, <2>3, <2>4, <2>5, <2>6, <2>7 DEF Next, ManualOverride, vars
<1>3. QED
  BY <1>1, <1>2, TypeCorrect, PTL DEF Spec

-----------------------------------------------------------------------------
\* A step that clears the tag of a row leaves its scope without active CRs.
LEMMA RelockStep ==
    ASSUME TypeOK, TagAgrees, [Next]_vars, NEW f \in Folder,
           locks[f].cr_id # NoCR, locks'[f].cr_id = NoCR
    PROVE  ActiveFor(FolderTarget[f])' = {}
<1>1. ASSUME NEW c \in CR, NEW d \in 1..MaxDuration, CreateCR(c, d)
      PROVE  FALSE
  <2>1. now + d \in Time
    BY <1>1 DEF CreateCR, NewCR, TypeOK, Time
  <2>2. QED
    BY <1>1, <2>1, UnlockRowsCases DEF CreateCR, NewCR
<1>2. ASSUME NEW c \in CR, CloseCR(c) \/ \E s \in Sweeper : ExpireCR(s, c)
      PROVE  ActiveFor(FolderTarget[f])' = {}
  <2>1. locks'[f] = EndRows(c)[f]
    BY <1>2 DEF Ends, CloseCR, ExpireCR
  <2>2. OtherActive(c) = {} /\ locks[f].cr_id = c
    BY <2>1, EndRowsCases
  <2>3. FolderTarget[f] = CRTarget[c]
    BY <2>2 DEF TagAgrees, InScope
  <2>4. /\ crs'[c].status # "active"
        /\ \A b \in CR \ {c} : crs'[b] = crs[b]
    BY <1>2 DEF Ends, CloseCR, ExpireCR, TypeOK, ChangeRequest
  <2>5. QED
    BY <2>2, <2>3, <2>4 DEF OtherActive, ActiveFor, Active
<1>3. ASSUME NEW g \in Folder, NEW p \in PermissionLevel, ManualOverride(g, p)
      PROVE  FALSE
  BY <1>3 DEF ManualOverride, TypeOK, LockState
<1>4. CASE UNCHANGED <<crs, locks>>
  BY <1>4
<1>5. QED
  BY <1>1, <1>2, <1>3, <1>4 DEF Next, BeginSweep, SweepFails, Tick, vars

\* Re-locking waits for the last CR of the scope, in every interleaving of
\* whole handlers.
THEOREM RelockWaits == Spec => RelockOnlyWhenAllEnded
<1>1. ASSUME TypeOK, TagAgrees, [Next]_vars
      PROVE  [\A f \in Folder :
                locks[f].cr_id # NoCR /\ locks'[f].cr_id = NoCR
                => ActiveFor(FolderTarget[f])' = {}]_vars
  BY <1>1, RelockStep
<1>2. QED
  BY <1>1, TypeCorrect, TagsAgree, PTL DEF Spec, RelockOnlyWhenAllEnded

-----------------------------------------------------------------------------
\* What a sweep ended has reached its expiry.
ExpiredOverdue == \A c \in CR : crs[c].status = "expired" => crs[c].expires_at <= now

\* A CR turns expired only when a sweep had selected it, and time only grows.
LEMMA ExpiredStep ==
    ASSUME TypeOK, PendingOverdue, ExpiredOverdue, [Next]_vars
    PROVE  ExpiredOverdue'
<1> SUFFICES ASSUME NEW b \in CR, crs'[b].status = "expired"
             PROVE  crs'[b].expires_at <= now'
  BY DEF ExpiredOverdue
<1>0. /\ crs[b].status = "expired" => crs[b].expires_at <= now
      /\ now \in Nat /\ crs[b].expires_at \in Nat
  BY DEF ExpiredOverdue, TypeOK, ChangeRequest, Time
<1>1. ASSUME NEW c \in CR, NEW d \in 1..MaxDuration, CreateCR(c, d)
      PROVE  crs'[b].expires_at <= now'
  <2>1. c # b => crs'[b] = crs[b]
    BY <1>1 DEF CreateCR, TypeOK
  <2>2. crs'[c].status = "active"
    BY <1>1 DEF CreateCR, NewCR, TypeOK
  <2>3. now' = now
    BY <1>1 DEF CreateCR
  <2>4. QED
    BY <1>0, <2>1, <2>2, <2>3
<1>2. ASSUME NEW c \in CR, CloseCR(c)
      PROVE  crs'[b].expires_at <= now'
  BY <1>0, <1>2 DEF Ends, CloseCR, TypeOK, ChangeRequest
<1>3. ASSUME NEW s \in Sweeper, NEW c \in CR, ExpireCR(s, c)
      PROVE  crs'[b].expires_at <= now'
  <2>1. crs[c].expires_at <= now
    BY <1>3 DEF ExpireCR, PendingOverdue
  <2>2. /\ crs'[b].expires_at = crs[b].expires_at
        /\ c # b => crs'[b].status = crs[b].status
        /\ now' = now
    BY <1>3 DEF Ends, ExpireCR, TypeOK, ChangeRequest
  <2>3. QED
    BY <1>0, <2>1, <2>2
<1>4. CASE UNCHANGED <<crs, now>>
  BY <1>0, <1>4
<1>5. CASE Tick
  BY <1>0, <1>5 DEF Tick
<1>6. QED
  BY <1>1, <1>2, <1>3, <1>4, <1>5
     DEF Next, BeginSweep, SweepFails, ManualOverride, vars

\* A folder stays unlocked for the union of the windows of its scope: what
\* re-locks it finds every CR of the scope closed or past its own expiry.
THEOREM UnionOfWindows == Spec => UnlockedForTheUnion
<1>1. Init => ExpiredOverdue
  BY DEF Init, ExpiredOverdue
<1>2. TypeOK /\ PendingOverdue /\ ExpiredOverdue /\ [Next]_vars => ExpiredOverdue'
  BY ExpiredStep
<1>3. ASSUME TypeOK, TagAgrees, TypeOK', ExpiredOverdue', [Next]_vars
      PROVE  [\A f \in Folder :
                locks[f].cr_id # NoCR /\ locks'[f].cr_id = NoCR
                => \A c \in CR : CRTarget[c] = FolderTarget[f] =>
                      \/ crs'[c].status \in {"none", "closed"}
                      \/ crs'[c].expires_at <= now]_vars
  <2> SUFFICES ASSUME NEW f \in Folder,
                      locks[f].cr_id # NoCR, locks'[f].cr_id = NoCR,
                      NEW c \in CR, CRTarget[c] = FolderTarget[f]
               PROVE  \/ crs'[c].status \in {"none", "closed"}
                      \/ crs'[c].expires_at <= now
    OBVIOUS
  <2>1. ActiveFor(FolderTarget[f])' = {}
    BY <1>3, RelockStep
  <2>2. crs'[c].status # "active"
    BY <2>1 DEF ActiveFor, Active
  <2>3. crs'[c].status \in CRStatus
    BY <1>3 DEF TypeOK, ChangeRequest
  <2>4. crs'[c].status = "expired" => crs'[c].expires_at <= now'
    BY <1>3 DEF ExpiredOverdue
  <2>5. now' = now
    <3>1. locks' # locks
      OBVIOUS
    <3>2. QED
      BY <1>3, <3>1 DEF Next, vars, CreateCR, CloseCR, BeginSweep, ExpireCR,
                        SweepFails, ManualOverride, Tick
  <2>6. QED
    BY <2>2, <2>3, <2>4, <2>5 DEF CRStatus
<1>4. QED
  BY <1>1, <1>2, <1>3, TypeCorrect, TagsAgree, SweepsOnlyOverdue, PTL
     DEF Spec, UnlockedForTheUnion

-----------------------------------------------------------------------------
\* Two CRs of a scope that are active at once are known to have overlapped.
OverlapKnown ==
    \A c, d \in CR :
        Active(c) /\ Active(d) /\ c # d /\ CRTarget[c] = CRTarget[d]
        => c \in overlapped

\* Only the opening of a CR makes two active at once, and it notes both.
LEMMA OverlapStep ==
    ASSUME TypeOK, OverlapKnown, [Next]_vars
    PROVE  OverlapKnown' /\ overlapped \subseteq overlapped'
<1> SUFFICES ASSUME NEW a \in CR, NEW b \in CR, a # b, CRTarget[a] = CRTarget[b],
                    crs'[a].status = "active", crs'[b].status = "active"
             PROVE  a \in overlapped'
  <2>1. overlapped \subseteq overlapped'
    BY DEF Next, vars, CreateCR, NoteOverlap, CloseCR, BeginSweep, ExpireCR,
           SweepFails, ManualOverride, Tick
  <2>2. QED
    BY <2>1 DEF OverlapKnown, Active
<1>0. crs[a].status = "active" /\ crs[b].status = "active" => a \in overlapped
  BY DEF OverlapKnown, Active
<1>1. ASSUME NEW c \in CR, NEW d \in 1..MaxDuration, CreateCR(c, d)
      PROVE  a \in overlapped'
  <2>1. \A e \in CR : e # c => crs'[e] = crs[e]
    BY <1>1 DEF CreateCR, TypeOK
  <2>2. CASE c = a
    <3>1. b \in OtherActive(c)
      BY <2>1, <2>2 DEF OtherActive, Active
    <3>2. QED
      BY <1>1, <2>2, <3>1 DEF CreateCR, NoteOverlap
  <2>3. CASE c = b
    <3>1. a \in OtherActive(c)
      BY <2>1, <2>3 DEF OtherActive, Active
    <3>2. QED
      BY <1>1, <3>1 DEF CreateCR, NoteOverlap
  <2>4. CASE c # a /\ c # b
    BY <1>0, <1>1, <2>1, <2>4 DEF CreateCR, NoteOverlap
  <2>5. QED
    BY <2>2, <2>3, <2>4
<1>2. ASSUME NEW c \in CR, CloseCR(c) \/ \E s \in Sweeper : ExpireCR(s, c)
      PROVE  a \in overlapped'
  <2>1. /\ crs[a].status = "active" /\ crs[b].status = "active"
        /\ overlapped' = overlapped
    BY <1>2 DEF Ends, CloseCR, ExpireCR, TypeOK, ChangeRequest
  <2>2. QED
    BY <1>0, <2>1
<1>3. CASE UNCHANGED <<crs, overlapped>>
  BY <1>0, <1>3
<1>4. QED
  BY <1>1, <1>2, <1>3 DEF Next, BeginSweep, SweepFails, ManualOverride, Tick, vars

\* An end that finds no other CR of the scope active re-locks its rows.
LEMMA MissedStep ==
    ASSUME TypeOK, TagAgrees, OverlapKnown, RelockMissedByOverlap, [Next]_vars,
           overlapped \subseteq overlapped'
    PROVE  RelockMissedByOverlap'
<1> SUFFICES ASSUME NEW f \in Folder, NEW b \in CR, locks'[f].cr_id = b,
                    crs'[b].status # "active"
             PROVE  b \in overlapped'
  BY DEF RelockMissedByOverlap, Active
<1>0. locks[f].cr_id = b /\ crs[b].status # "active" => b \in overlapped'
  BY DEF RelockMissedByOverlap, Active
<1>1. ASSUME NEW c \in CR, NEW d \in 1..MaxDuration, CreateCR(c, d)
      PROVE  b \in overlapped'
  <2>1. now + d \in Time
    BY <1>1 DEF CreateCR, NewCR, TypeOK, Time
  <2>2. /\ crs'[c].status = "active"
        /\ \A e \in CR \ {c} : crs'[e] = crs[e]
        /\ locks'[f] = UnlockRows(c, now + d)[f]
    BY <1>1 DEF CreateCR, NewCR, TypeOK, ChangeRequest
  <2>3. b # c
    BY <2>2
  <2>4. locks[f].cr_id = b
    BY <2>1, <2>2, <2>3, UnlockRowsCases
  <2>5. QED
    BY <1>0, <2>2, <2>3, <2>4
<1>2. ASSUME NEW c \in CR, CloseCR(c) \/ \E s \in Sweeper : ExpireCR(s, c)
      PROVE  b \in overlapped'
  <2>1. /\ locks'[f] = EndRows(c)[f]
        /\ c # b => crs[b].status # "active"
    BY <1>2 DEF Ends, CloseCR, ExpireCR, TypeOK, ChangeRequest
  <2>2. /\ locks[f].cr_id = b
        /\ c = b => OtherActive(c) # {}
    BY <2>1, EndRowsCases, NoCRAssumption
  <2>3. CASE crs[b].status # "active"
    BY <1>0, <2>2, <2>3
  <2>4. CASE crs[b].status = "active"
    <3>1. PICK e \in OtherActive(c) : TRUE
      BY <2>1, <2>2, <2>4
    <3>2. b \in overlapped
      BY <2>1, <2>4, <3>1 DEF OtherActive, Active, OverlapKnown
    <3>3. QED
      BY <3>2
  <2>5. QED
    BY <2>3, <2>4
<1>3. ASSUME NEW g \in Folder, NEW p \in PermissionLevel, ManualOverride(g, p)
      PROVE  b \in overlapped'
  <2>1. crs' = crs /\ locks'[f].cr_id = locks[f].cr_id
    BY <1>3 DEF ManualOverride, TypeOK, LockState
  <2>2. QED
    BY <1>0, <2>1
<1>4. CASE UNCHANGED <<crs, locks>>
  BY <1>0, <1>4
<1>5. QED
  BY <1>1, <1>2, <1>3, <1>4 DEF Next, BeginSweep, SweepFails, Tick, vars

\* A row that still names an ended CR was missed because of an overlap, whatever
\* an admin wrote into it and whichever sweep or request ended the CR.
THEOREM OnlyOverlapMisses == Spec => []RelockMissedByOverlap
<1>1. Init => OverlapKnown /\ RelockMissedByOverlap
  BY DEF Init, OverlapKnown, Active, RelockMissedByOverlap, NoLockState
<1>2. ASSUME TypeOK, TagAgrees, OverlapKnown, RelockMissedByOverlap, [Next]_vars
      PROVE  OverlapKnown' /\ RelockMissedByOverlap'
  BY <1>2, OverlapStep, MissedStep
<1>3. QED
  BY <1>1, <1>2, TypeCorrect, TagsAgree, PTL DEF Spec

-----------------------------------------------------------------------------
\* Every step of the service is a step of UnlockWindows or a stutter.
LEMMA WindowsStep ==
    ASSUME TypeOK, TagAgrees, PendingOverdue, [Next]_vars
    PROVE  [Windows!Next]_(Windows!vars)
<1> USE DEF Windows!vars
<1>1. ASSUME NEW c \in CR, NEW d \in 1..MaxDuration, CreateCR(c, d)
      PROVE  Windows!Open(c)
  <2>1. now + d \in Time
    BY <1>1 DEF CreateCR, NewCR, TypeOK, Time
  <2>2. /\ crs[c].status = "none" /\ crs'[c].status = "active"
        /\ \A b \in CR \ {c} : crs'[b] = crs[b]
        /\ locks' = UnlockRows(c, now + d)
    BY <1>1 DEF CreateCR, NewCR, TypeOK, ChangeRequest
  <2>3. Phase[c] = "unused" /\ Phase' = [Phase EXCEPT ![c] = "open"]
    BY <2>2 DEF Phase
  <2>4. \A f \in Folder : locks[f].cr_id # NoCR => locks'[f].cr_id # NoCR
    BY <2>1, <2>2, UnlockRowsCases
  <2>5. \A f \in Folder : locks[f].cr_id = NoCR /\ locks'[f].cr_id # NoCR
                          => FolderTarget[f] = CRTarget[c]
    BY <2>1, <2>2, UnlockRowsCases
  <2>6. QED
    BY <2>3, <2>4, <2>5 DEF Windows!Open, UnlockedFolders
<1>2. ASSUME NEW c \in CR, CloseCR(c) \/ \E s \in Sweeper : ExpireCR(s, c)
      PROVE  [Windows!Next]_(Windows!vars)
  <2>1. /\ locks' = EndRows(c)
        /\ crs'[c].status \in {"closed", "expired"}
        /\ \A b \in CR \ {c} : crs'[b] = crs[b]
    BY <1>2 DEF Ends, CloseCR, ExpireCR, TypeOK, ChangeRequest
  <2>2. UnlockedFolders' \subseteq UnlockedFolders
    BY <2>1, EndRowsCases DEF UnlockedFolders
  <2>3. \A t : ActiveFor(t)' = Windows!OpenFor(t)'
    BY DEF ActiveFor, Active, Windows!OpenFor, Phase
  <2>4. \A f \in UnlockedFolders \ UnlockedFolders' :
            ActiveFor(FolderTarget[f])' = {}
    BY RelockStep DEF UnlockedFolders
  <2>5. Windows!RelockSome
    BY <2>2, <2>3, <2>4 DEF Windows!RelockSome
  <2>6. CASE crs[c].status = "active"
    <3>1. Phase[c] = "open" /\ Phase' = [Phase EXCEPT ![c] = "ended"]
      BY <2>1, <2>6 DEF Phase
    <3>2. QED
      BY <2>5, <3>1 DEF Windows!End, Windows!Next
  <2>7. CASE crs[c].status \in {"closed", "expired"}
    <3>1. Phase' = Phase
      BY <2>1, <2>7 DEF Phase
    <3>2. QED
      BY <2>5, <3>1 DEF Windows!LateRelock, Windows!Next
  <2>8. CASE crs[c].status = "none"
    <3>1. FALSE
      BY <1>2, <2>8 DEF Ends, CloseCR, Active, ExpireCR, PendingOverdue
    <3>2. QED
      BY <3>1
  <2>9. QED
    BY <2>6, <2>7, <2>8 DEF TypeOK, ChangeRequest, CRStatus
<1>3. ASSUME NEW g \in Folder, NEW p \in PermissionLevel, ManualOverride(g, p)
      PROVE  UNCHANGED Windows!vars
  <2>1. crs' = crs /\ \A f \in Folder : locks'[f].cr_id = locks[f].cr_id
    BY <1>3 DEF ManualOverride, TypeOK, LockState
  <2>2. QED
    BY <2>1 DEF Phase, UnlockedFolders
<1>4. CASE UNCHANGED <<crs, locks>>
  BY <1>4 DEF Phase, UnlockedFolders
<1>5. QED
  BY <1>1, <1>2, <1>3, <1>4
     DEF Next, BeginSweep, SweepFails, Tick, vars, Windows!Next

\* Refinement: the service implements UnlockWindows.
THEOREM WindowsImplemented == Spec => ImplementsWindows
<1>1. Init => Windows!Init
  BY DEF Init, Windows!Init, Phase, UnlockedFolders, NoLockState
<1>2. ASSUME TypeOK, TagAgrees, PendingOverdue, [Next]_vars
      PROVE  [Windows!Next]_(Windows!vars)
  BY <1>2, WindowsStep
<1>3. QED
  BY <1>1, <1>2, TypeCorrect, TagsAgree, SweepsOnlyOverdue, PTL
     DEF Spec, ImplementsWindows, Windows!Spec

=============================================================================
