---------------------------- MODULE GuestsProofs ----------------------------
(***************************************************************************)
(* Proofs about Guests: its type invariant, and for any number of          *)
(* concurrent requests, extensions and invitations the bound of the access *)
(* extensions give, what an accepted guest has behind it, and what may     *)
(* bring a revoked guest back.                                             *)
(***************************************************************************)
EXTENDS Guests, FiniteSetTheorems, TLAPS

\* What a request has loaded is what its step relies on: an extension found
\* one more to be allowed, a sweep found an accepted guest.
LoadedInv ==
    \A s \in Session :
      /\ req[s].op = "extend" => req[s].loaded.extended_count < MaxExtensions
      /\ req[s].op \in {"select", "expire"} => req[s].loaded.status = "accepted"

\* The sessions that are about to grant a grace period.
Granting == {s \in Session : Busy(s, "grace")}
GraceInv == graces + Cardinality(Granting) <= MaxGraces

TypeInv == TypeOK /\ LoadedInv /\ GraceInv

-----------------------------------------------------------------------------
\* A row with other columns is a row.
LEMMA GuestColumns ==
    ASSUME NEW g \in GuestUser, NEW status \in Status
    PROVE  [g EXCEPT !.status = status] \in GuestUser
  BY DEF GuestUser

\* The status column after a commit is a status.
LEMMA StatusType ==
    ASSUME TypeOK, NEW s \in Session, NEW new \in Status
    PROVE  SetStatus(s, new) \in Status
  BY DEF TypeOK, SetStatus, Written, Request, GuestUser

\* What the requests load.
LEMMA LoadedTypes ==
    ASSUME TypeOK
    PROVE  /\ StatusOnly \in GuestUser /\ guest \in GuestUser
           /\ Cardinality(Sent) \in 0..MaxInvites
           /\ StatusOnly.status = guest.status
  <1>1. Sent \subseteq 1..MaxInvites /\ IsFiniteSet(1..MaxInvites)
        /\ Cardinality(1..MaxInvites) = MaxInvites
    BY FS_Interval, ParameterAssumption DEF Sent
  <1>2. IsFiniteSet(Sent) /\ Cardinality(Sent) <= MaxInvites
    BY <1>1, FS_Subset
  <1>3. Cardinality(Sent) \in 0..MaxInvites
    BY <1>2, FS_CardinalityType, ParameterAssumption
  <1>4. QED
    BY <1>3, ParameterAssumption DEF TypeOK, StatusOnly, NoGuest, NoTime, GuestUser, Status

LEMMA IdleType == Idle \in Request /\ Idle.op = "idle"
  BY ParameterAssumption
     DEF Idle, Request, NoGuest, NoTime, GuestUser, Status, Op

-----------------------------------------------------------------------------
\* A request that starts with a proper row, and leaves the grace periods.
LEMMA LoadAsType ==
    ASSUME TypeInv, NEW s \in Session, NEW r \in Request, LoadAs(s, r),
           r.op \notin {"grace", "extend", "select", "expire"}
    PROVE  TypeInv'
  <1>1. req' = [req EXCEPT ![s] = r] /\ req[s].op = "idle"
    BY DEF LoadAs, Busy
  <1>2. TypeOK'
    BY <1>1 DEF TypeInv, TypeOK, LoadAs
  <1>3. LoadedInv'
    BY <1>1 DEF TypeInv, TypeOK, LoadedInv
  <1>4. Granting' = Granting
    BY <1>1 DEF TypeInv, TypeOK, Granting, Busy
  <1>5. QED
    BY <1>2, <1>3, <1>4 DEF TypeInv, GraceInv, LoadAs

\* A request that ends and leaves a proper guest row.
LEMMA DoneType ==
    ASSUME TypeInv, NEW s \in Session, Done(s), guest' \in GuestUser,
           groups' \in SUBSET Group, invites' \in [1..MaxInvites -> Invitation],
           UNCHANGED <<redeemed, graces, now>>
    PROVE  TypeInv'
  <1>1. req' = [req EXCEPT ![s] = Idle]
    BY DEF Done
  <1>2. TypeOK'
    BY <1>1, IdleType DEF TypeInv, TypeOK
  <1>3. LoadedInv'
    BY <1>1, IdleType DEF TypeInv, TypeOK, LoadedInv
  <1>4. Granting' \subseteq Granting /\ IsFiniteSet(Granting)
    BY <1>1, IdleType, FS_Subset, ParameterAssumption
       DEF TypeInv, TypeOK, Granting, Busy
  <1>5. Cardinality(Granting') <= Cardinality(Granting)
        /\ Cardinality(Granting') \in Nat /\ Cardinality(Granting) \in Nat
    BY <1>4, FS_Subset, FS_CardinalityType
  <1>6. QED
    BY <1>2, <1>3, <1>5, ParameterAssumption DEF TypeInv, TypeOK, GraceInv

\* The initial state.
LEMMA InitType == Init => TypeInv
  <1> SUFFICES ASSUME Init PROVE TypeInv
    OBVIOUS
  <1>1. TypeOK
    BY IdleType, ParameterAssumption
       DEF Init, TypeOK, NoGuest, NoInvite, NoTime, GuestUser, Invitation, Status
  <1>2. LoadedInv
    BY IdleType DEF Init, LoadedInv
  <1>3. Granting = {}
    BY IdleType DEF Init, Granting, Busy
  <1>4. GraceInv
    BY <1>3, FS_EmptySet, ParameterAssumption DEF Init, GraceInv
  <1>5. QED
    BY <1>1, <1>2, <1>4 DEF TypeInv

\* The requests that begin by loading what their step will use.
LEMMA RequestTypes ==
    ASSUME TypeOK, NEW op \in Op
    PROVE  /\ [Idle EXCEPT !.op = op, !.loaded = StatusOnly] \in Request
           /\ [Idle EXCEPT !.op = op, !.loaded = guest] \in Request
           /\ [Idle EXCEPT !.op = op, !.loaded = StatusOnly, !.held = groups] \in Request
           /\ [Idle EXCEPT !.op = op, !.loaded = StatusOnly, !.invite = Latest] \in Request
           /\ [Idle EXCEPT !.op = op, !.held = groups] \in Request
           /\ [Idle EXCEPT !.op = op, !.loaded = StatusOnly].op = op
           /\ [Idle EXCEPT !.op = op, !.loaded = guest].op = op
           /\ [Idle EXCEPT !.op = op, !.loaded = StatusOnly, !.held = groups].op = op
           /\ [Idle EXCEPT !.op = op, !.loaded = StatusOnly, !.invite = Latest].op = op
           /\ [Idle EXCEPT !.op = op, !.held = groups].op = op
           /\ [Idle EXCEPT !.op = op, !.loaded = StatusOnly].loaded = StatusOnly
           /\ [Idle EXCEPT !.op = op, !.loaded = guest].loaded = guest
  <1>1. /\ StatusOnly \in GuestUser /\ guest \in GuestUser /\ groups \in SUBSET Group
        /\ Latest \in 0..MaxInvites /\ 0 \in 0..MaxInvites
    BY LoadedTypes, ParameterAssumption DEF TypeOK, Latest
  <1>2. NoGuest \in GuestUser
    BY ParameterAssumption DEF NoGuest, NoTime, GuestUser, Status
  <1> HIDE DEF StatusOnly, NoGuest, Latest
  <1>3. QED
    BY <1>1, <1>2 DEF Idle, Request

\* Every request begins with a row of the type, and with what LoadedInv says.
LEMMA BeginTypes ==
    ASSUME TypeInv, NEW s \in Session
    PROVE  /\ BeginInvite(s) \/ BeginGroups(s) \/ BeginCheck(s) => TypeInv'
           /\ BeginRevoke(s) \/ BeginPurge(s) => TypeInv'
           /\ BeginExtend(s) \/ SweepSelects(s) => TypeInv'
  <1>0. TypeOK
    BY DEF TypeInv
  <1>1. ASSUME BeginInvite(s) \/ BeginGroups(s) \/ BeginCheck(s)
                 \/ BeginRevoke(s) \/ BeginPurge(s)
        PROVE  TypeInv'
    <2>1. ASSUME NEW op \in {"invite", "purge"}, LoadStatus(s, op) PROVE TypeInv'
      <3> DEFINE r == [Idle EXCEPT !.op = op, !.loaded = StatusOnly]
      <3>1. op \in Op
        BY DEF Op
      <3>2. r \in Request /\ r.op = op
        BY <1>0, <3>1, RequestTypes
      <3>3. LoadAs(s, r)
        BY <2>1 DEF LoadStatus
      <3> HIDE DEF r
      <3>4. QED
        BY <3>2, <3>3, LoadAsType
    <2>2. ASSUME LoadGroups(s, "revoke") PROVE TypeInv'
      <3> DEFINE r == [Idle EXCEPT !.op = "revoke", !.loaded = StatusOnly, !.held = groups]
      <3>1. r \in Request /\ r.op = "revoke" /\ LoadAs(s, r)
        BY <1>0, <2>2, RequestTypes DEF LoadGroups, Op
      <3> HIDE DEF r
      <3>2. QED
        BY <3>1, LoadAsType
    <2>3. ASSUME LoadInvite(s, "check") PROVE TypeInv'
      <3> DEFINE r == [Idle EXCEPT !.op = "check", !.loaded = StatusOnly, !.invite = Latest]
      <3>1. r \in Request /\ r.op = "check" /\ LoadAs(s, r)
        BY <1>0, <2>3, RequestTypes DEF LoadInvite, Op
      <3> HIDE DEF r
      <3>2. QED
        BY <3>1, LoadAsType
    <2>4. ASSUME BeginGroups(s) PROVE TypeInv'
      <3> DEFINE r == [Idle EXCEPT !.op = "groups", !.held = groups]
      <3>1. r \in Request /\ r.op = "groups" /\ LoadAs(s, r)
        BY <1>0, <2>4, RequestTypes DEF BeginGroups, Op
      <3> HIDE DEF r
      <3>2. QED
        BY <3>1, LoadAsType
    <2>5. QED
      BY <1>1, <2>1, <2>2, <2>3, <2>4
         DEF BeginInvite, BeginCheck, BeginRevoke, BeginPurge
  <1>2. ASSUME NEW r \in Request, LoadAs(s, r), r.op # "grace",
               r.op = "extend" => r.loaded.extended_count < MaxExtensions,
               r.op \in {"select", "expire"} => r.loaded.status = "accepted"
        PROVE  TypeInv'
    <2>1. req' = [req EXCEPT ![s] = r] /\ req[s].op = "idle"
      BY <1>2 DEF LoadAs, Busy
    <2>2. TypeOK'
      BY <1>0, <1>2, <2>1 DEF TypeOK, LoadAs
    <2>3. LoadedInv'
      BY <1>0, <1>2, <2>1 DEF TypeInv, TypeOK, LoadedInv
    <2>4. Granting' = Granting
      BY <1>0, <1>2, <2>1 DEF TypeOK, Granting, Busy
    <2>5. QED
      BY <1>2, <2>2, <2>3, <2>4 DEF TypeInv, GraceInv, LoadAs
  <1>3. ASSUME BeginExtend(s) PROVE TypeInv'
    <2> DEFINE r == [Idle EXCEPT !.op = "extend", !.loaded = guest]
    <2>1. r \in Request /\ r.op = "extend" /\ r.loaded = guest
      BY <1>0, RequestTypes DEF Op
    <2>2. LoadAs(s, r) /\ guest.extended_count < MaxExtensions
      BY <1>3 DEF BeginExtend, LoadRow, CanExtend, Policy
    <2> HIDE DEF r
    <2>3. QED
      BY <1>2, <2>1, <2>2
  <1>4. ASSUME SweepSelects(s) PROVE TypeInv'
    <2> DEFINE r == [Idle EXCEPT !.op = "select", !.loaded = StatusOnly]
    <2>1. r \in Request /\ r.op = "select" /\ r.loaded = StatusOnly
      BY <1>0, RequestTypes DEF Op
    <2>2. LoadAs(s, r) /\ StatusOnly.status = "accepted"
      BY <1>0, <1>4, LoadedTypes DEF SweepSelects, LoadStatus
    <2> HIDE DEF r
    <2>3. QED
      BY <1>2, <2>1, <2>2
  <1>5. QED
    BY <1>1, <1>3, <1>4

\* A grace period begins within its bound.
LEMMA BeginGraceType ==
    ASSUME TypeInv, NEW s \in Session, BeginGrace(s)
    PROVE  TypeInv'
  <1> DEFINE r == [Idle EXCEPT !.op = "grace", !.loaded = guest]
  <1>1. r \in Request /\ r.op = "grace"
    BY RequestTypes DEF TypeInv, Op
  <1>2. LoadAs(s, r) /\ graces + Cardinality(Granting) < MaxGraces
    BY DEF BeginGrace, LoadRow, Granting
  <1> HIDE DEF r
  <1>3. req' = [req EXCEPT ![s] = r] /\ req[s].op = "idle"
    BY <1>2 DEF LoadAs, Busy
  <1>4. TypeOK'
    BY <1>1, <1>2, <1>3 DEF TypeInv, TypeOK, LoadAs
  <1>5. LoadedInv'
    BY <1>1, <1>3 DEF TypeInv, TypeOK, LoadedInv
  <1>6. Granting' = Granting \cup {s} /\ s \notin Granting
    BY <1>1, <1>3 DEF TypeInv, TypeOK, Granting, Busy
  <1>7. IsFiniteSet(Granting)
    BY FS_Subset, ParameterAssumption DEF Granting
  <1>8. Cardinality(Granting') = Cardinality(Granting) + 1 /\ Cardinality(Granting) \in Nat
    BY <1>6, <1>7, FS_AddElement, FS_CardinalityType
  <1>9. graces' = graces /\ graces \in Nat
    BY <1>2, ParameterAssumption DEF LoadAs, TypeInv, TypeOK
  <1>10. QED
    BY <1>2, <1>4, <1>5, <1>8, <1>9, ParameterAssumption DEF TypeInv, GraceInv

\* ... and ends as one.
LEMMA GraceType ==
    ASSUME TypeInv, NEW s \in Session, Grace(s)
    PROVE  TypeInv'
  <1>1. /\ req' = [req EXCEPT ![s] = Idle] /\ req[s].op = "grace"
        /\ graces' = graces + 1
    BY DEF Grace, Done, Busy
  <1>2. Granting' = Granting \ {s} /\ s \in Granting
    BY <1>1, IdleType DEF TypeInv, TypeOK, Granting, Busy
  <1>3. IsFiniteSet(Granting)
    BY FS_Subset, ParameterAssumption DEF Granting
  <1>4. Cardinality(Granting') = Cardinality(Granting) - 1
        /\ Cardinality(Granting) \in Nat /\ Cardinality(Granting') \in Nat
    BY <1>2, <1>3, FS_RemoveElement, FS_CardinalityType
  <1>5. graces' \in 0..MaxGraces /\ GraceInv'
    BY <1>1, <1>4, ParameterAssumption DEF TypeInv, TypeOK, GraceInv
  <1>6. Reactivated(s) \in Status /\ Later(s, GraceDays) \in Nat
    BY ParameterAssumption
       DEF TypeInv, TypeOK, Reactivated, Later, Request, GuestUser, Status, NoTime
  <1>7. guest' \in GuestUser
    BY <1>6 DEF TypeInv, TypeOK, Grace, GuestUser
  <1>8. TypeOK'
    BY <1>1, <1>5, <1>7, IdleType DEF TypeInv, TypeOK, Grace
  <1>9. LoadedInv'
    BY <1>1, IdleType DEF TypeInv, TypeOK, LoadedInv
  <1>10. QED
    BY <1>5, <1>8, <1>9 DEF TypeInv

\* Every step keeps the type.
LEMMA NextType == TypeInv /\ [Next]_vars => TypeInv'
  <1> SUFFICES ASSUME TypeInv, [Next]_vars PROVE TypeInv'
    OBVIOUS
  <1>0. TypeOK
    BY DEF TypeInv
  <1>1. ASSUME NEW s \in Session, NEW status \in Status,
               guest' = [guest EXCEPT !.status = SetStatus(s, status)]
        PROVE  guest' \in GuestUser
    BY <1>0, <1>1, StatusType, GuestColumns DEF TypeOK
  <1>2. ASSUME NEW s \in Session, InviteGuest(s) \/ Resend(s) PROVE TypeInv'
    <2>1. CASE BeginInvite(s)
      BY <2>1, BeginTypes
    <2>2. CASE Invited(s)
      <3>1. guest' \in GuestUser
        BY <1>1, <2>2 DEF Invited, Status
      <3>2. invites' \in [1..MaxInvites -> Invitation]
        <4>1. [status |-> "pending", expires_at |-> now + InvitationLife] \in Invitation
          BY <1>0, ParameterAssumption DEF TypeOK, Invitation
        <4>2. QED
          BY <1>0, <2>2, <4>1 DEF Invited, TypeOK
      <3>3. groups' \in SUBSET Group
        BY <1>0, <2>2, ParameterAssumption DEF Invited, TypeOK, AssignByRole
      <3>4. QED
        BY <2>2, <3>1, <3>2, <3>3, DoneType DEF Invited
    <2>3. QED
      BY <1>2, <2>1, <2>2 DEF InviteGuest, Resend
  <1>3. ASSUME NEW s \in Session, UpdateGuestGroups(s) PROVE TypeInv'
    <2>1. CASE BeginGroups(s)
      BY <2>1, BeginTypes
    <2>2. ASSUME NEW new \in SUBSET Group, UpdateGroups(s, new) PROVE TypeInv'
      BY <1>0, <2>2, DoneType DEF UpdateGroups, TypeOK
    <2>3. QED
      BY <1>3, <2>1, <2>2 DEF UpdateGuestGroups
  <1>4. ASSUME NEW s \in Session, CheckGuestStatus(s) PROVE TypeInv'
    <2>1. CASE BeginCheck(s)
      BY <2>1, BeginTypes
    <2>2. CASE CheckCompleted(s)
      <3>1. guest' \in GuestUser
        BY <1>1, <2>2 DEF CheckCompleted, Status
      <3>2. invites' \in [1..MaxInvites -> Invitation]
        BY <1>0, <2>2 DEF CheckCompleted, TypeOK, Invitation
      <3>3. QED
        BY <1>0, <2>2, <3>1, <3>2, DoneType DEF CheckCompleted, TypeOK
    <2>3. CASE CheckOverdue(s)
      <3>1. guest' \in GuestUser
        BY <1>1, <2>3 DEF CheckOverdue, Status
      <3>2. invites' \in [1..MaxInvites -> Invitation]
        BY <1>0, <2>3 DEF CheckOverdue, TypeOK, Invitation
      <3>3. QED
        BY <1>0, <2>3, <3>1, <3>2, DoneType DEF CheckOverdue, TypeOK
    <2>4. QED
      BY <1>4, <2>1, <2>2, <2>3 DEF CheckGuestStatus
  <1>5. ASSUME NEW s \in Session, RevokeGuest(s) \/ BulkRevoke(s) PROVE TypeInv'
    <2>1. CASE BeginRevoke(s)
      BY <2>1, BeginTypes
    <2>2. CASE Revoked(s)
      <3>1. guest' \in GuestUser
        BY <1>1, <2>2 DEF Revoked, Status
      <3>2. QED
        BY <1>0, <2>2, <3>1, DoneType DEF Revoked, RemoveHeld, TypeOK
    <2>3. QED
      BY <1>5, <2>1, <2>2 DEF RevokeGuest, BulkRevoke, BulkReaches
  <1>6. ASSUME NEW s \in Session, Purge(s) PROVE TypeInv'
    <2>1. CASE BeginPurge(s)
      BY <2>1, BeginTypes
    <2>2. CASE Purged(s)
      <3>1. guest' \in GuestUser
        BY <1>1, <2>2 DEF Purged, Status
      <3>2. QED
        BY <1>0, <2>2, <3>1, DoneType DEF Purged, TypeOK
    <2>3. QED
      BY <1>6, <2>1, <2>2 DEF Purge
  <1>7. ASSUME NEW s \in Session, ExtendGuest(s) PROVE TypeInv'
    <2>1. CASE BeginExtend(s)
      BY <2>1, BeginTypes
    <2>2. ASSUME NEW days \in 1..MaxDays, Extended(s, days) PROVE TypeInv'
      <3>1. req[s].loaded.extended_count < MaxExtensions
        BY <2>2 DEF TypeInv, LoadedInv, Extended, Busy
      <3>2. req[s].loaded \in GuestUser /\ guest.status \in Status /\ now \in Nat
        BY <1>0 DEF TypeOK, Request, GuestUser
      <3>3. Reactivated(s) \in Status /\ Later(s, days) \in Nat
        BY <3>2, ParameterAssumption DEF Reactivated, Later, GuestUser, Status, NoTime
      <3>4. req[s].loaded.extended_count + 1 \in 0..MaxExtensions
        BY <3>1, <3>2, ParameterAssumption DEF GuestUser
      <3>5. guest' \in GuestUser
        BY <2>2, <3>3, <3>4 DEF Extended, GuestUser
      <3>6. QED
        BY <1>0, <2>2, <3>5, DoneType DEF Extended, TypeOK
    <2>3. QED
      BY <1>7, <2>1, <2>2 DEF ExtendGuest, Policy
  <1>8. ASSUME NEW s \in Session, GracePeriod(s) PROVE TypeInv'
    BY <1>8, BeginGraceType, GraceType DEF GracePeriod
  <1>9. ASSUME NEW s \in Session, Sweep(s) PROVE TypeInv'
    <2>1. CASE SweepSelects(s)
      BY <2>1, BeginTypes
    <2>2. CASE SweepReaches(s)
      <3> DEFINE r == [op |-> "expire", loaded |-> req[s].loaded,
                       held |-> groups, invite |-> req[s].invite]
      <3>1. r \in Request /\ r.loaded.status = "accepted" /\ r.op = "expire"
        BY <1>0, <2>2 DEF TypeInv, TypeOK, LoadedInv, SweepReaches, Busy, Request, Op
      <3>2. req' = [req EXCEPT ![s] = r] /\ req[s].op = "select"
        BY <2>2 DEF SweepReaches, Busy
      <3> HIDE DEF r
      <3>3. TypeOK'
        BY <1>0, <2>2, <3>1, <3>2 DEF SweepReaches, TypeOK
      <3>4. LoadedInv'
        BY <1>0, <3>1, <3>2 DEF TypeInv, LoadedInv, TypeOK
      <3>5. Granting' = Granting
        BY <1>0, <3>1, <3>2 DEF TypeOK, Granting, Busy
      <3>6. QED
        BY <2>2, <3>3, <3>4, <3>5 DEF SweepReaches, TypeInv, GraceInv
    <2>3. CASE Expired(s)
      <3>1. guest' \in GuestUser
        BY <1>1, <2>3 DEF Expired, Status
      <3>2. QED
        BY <1>0, <2>3, <3>1, DoneType DEF Expired, RemoveHeld, TypeOK
    <2>4. QED
      BY <1>9, <2>1, <2>2, <2>3 DEF Sweep
  <1>10. ASSUME NEW s \in Session, Fails(s) PROVE TypeInv'
    BY <1>0, <1>10, DoneType DEF Fails, TypeOK
  <1>11. ASSUME UNCHANGED req, UNCHANGED graces, TypeOK' PROVE TypeInv'
    <2>1. Granting' = Granting
      BY <1>11 DEF Granting, Busy
    <2>2. QED
      BY <1>11, <2>1 DEF TypeInv, LoadedInv, GraceInv
  <1>12. ASSUME NEW i \in 1..MaxInvites, Redeem(i) PROVE TypeInv'
    BY <1>0, <1>11, <1>12 DEF Redeem, TypeOK
  <1>13. CASE Tick
    BY <1>0, <1>11, <1>13, ParameterAssumption DEF Tick, TypeOK
  <1>14. CASE UNCHANGED vars
    BY <1>0, <1>11, <1>14 DEF vars, TypeOK
  <1>15. QED
    BY <1>2, <1>3, <1>4, <1>5, <1>6, <1>7, <1>8, <1>9, <1>10, <1>12, <1>13, <1>14
       DEF Next, Operate

\* The row of the guest, its invitations and assignments and the requests keep
\* their types; in particular extended_count never exceeds max_extensions.
THEOREM TypeCorrect == Spec => []TypeOK
  <1>1. TypeInv => TypeOK
    BY DEF TypeInv
  <1>2. QED
    BY <1>1, InitType, NextType, PTL DEF Spec

-----------------------------------------------------------------------------
(* AccessBounded.  An extension writes expiry and count of one loaded row,   *)
(* so whatever it overwrites, the two belong together.                       *)

Covered(g) == g.expires_at <= now + g.extended_count * MaxDays

AccessInv ==
    graces = 0 =>
      /\ Covered(guest)
      /\ \A s \in Session : req[s].op = "extend" => Covered(req[s].loaded)

\* One extension more covers the days it adds.
LEMMA OneMore ==
    ASSUME NEW count \in Nat, NEW days \in 1..MaxDays, NEW e \in Nat, NEW t \in Nat,
           e <= t + count * MaxDays
    PROVE  e + days <= t + (count + 1) * MaxDays
  <1>1. count * MaxDays \in Nat /\ MaxDays \in Nat
    BY ParameterAssumption
  <1>2. (count + 1) * MaxDays = count * MaxDays + MaxDays
    BY ParameterAssumption
  <1>3. QED
    BY <1>1, <1>2

\* Time only adds to what is covered.
LEMMA LaterCovers ==
    ASSUME NEW count \in Nat, NEW e \in Nat, NEW t \in Nat,
           e <= t + count * MaxDays
    PROVE  e <= t + 1 + count * MaxDays
  <1>1. count * MaxDays \in Nat
    BY ParameterAssumption
  <1>2. QED
    BY <1>1

\* Only extensions and grace periods write the two columns, and a request that
\* holds a row to extend has just loaded it or had it before.
LEMMA ColumnsStep ==
    ASSUME TypeOK, [Next]_vars
    PROVE  /\ \/ guest'.expires_at = guest.expires_at
                 /\ guest'.extended_count = guest.extended_count
                 /\ graces' = graces
              \/ \E s \in Session, days \in 1..MaxDays : Extended(s, days)
              \/ \E s \in Session : Grace(s)
           /\ now' = now \/ now' = now + 1
           /\ \A t \in Session :
                req'[t].op = "extend" => req'[t] = req[t] \/ req'[t].loaded = guest
  <1>0. guest \in GuestUser /\ \A s \in Session : req[s] \in Request
    BY DEF TypeOK
  <1> DEFINE SameColumns == /\ guest'.expires_at = guest.expires_at
                            /\ guest'.extended_count = guest.extended_count
                            /\ graces' = graces
             Extending(t) == req'[t].op = "extend" =>
                               req'[t] = req[t] \/ req'[t].loaded = guest
  <1>1. ASSUME NEW status, guest' = [guest EXCEPT !.status = status], graces' = graces
        PROVE  SameColumns
    BY <1>0, <1>1 DEF GuestUser
  <1>2. ASSUME NEW s \in Session, Done(s) PROVE \A t \in Session : Extending(t)
    BY <1>2, IdleType DEF Done, TypeOK
  <1>3. ASSUME NEW s \in Session, NEW r, LoadAs(s, r),
               r.op = "extend" => r.loaded = guest
        PROVE  SameColumns /\ now' = now /\ \A t \in Session : Extending(t)
    BY <1>3 DEF LoadAs, TypeOK
  <1> HIDE DEF SameColumns, Extending
  <1>4. ASSUME NEW s \in Session, NEW op \in Op \ {"extend"},
               LoadStatus(s, op) \/ LoadGroups(s, op) \/ LoadInvite(s, op)
               \/ LoadAs(s, [Idle EXCEPT !.op = op, !.held = groups])
        PROVE  SameColumns /\ now' = now /\ \A t \in Session : Extending(t)
    <2>1. CASE LoadStatus(s, op)
      <3> DEFINE r == [Idle EXCEPT !.op = op, !.loaded = StatusOnly]
      <3>1. r.op = op /\ LoadAs(s, r)
        BY <2>1, RequestTypes DEF LoadStatus
      <3> HIDE DEF r
      <3>2. QED
        BY <1>3, <3>1
    <2>2. CASE LoadGroups(s, op)
      <3> DEFINE r == [Idle EXCEPT !.op = op, !.loaded = StatusOnly, !.held = groups]
      <3>1. r.op = op /\ LoadAs(s, r)
        BY <2>2, RequestTypes DEF LoadGroups
      <3> HIDE DEF r
      <3>2. QED
        BY <1>3, <3>1
    <2>3. CASE LoadInvite(s, op)
      <3> DEFINE r == [Idle EXCEPT !.op = op, !.loaded = StatusOnly, !.invite = Latest]
      <3>1. r.op = op /\ LoadAs(s, r)
        BY <2>3, RequestTypes DEF LoadInvite
      <3> HIDE DEF r
      <3>2. QED
        BY <1>3, <3>1
    <2>4. CASE LoadAs(s, [Idle EXCEPT !.op = op, !.held = groups])
      <3> DEFINE r == [Idle EXCEPT !.op = op, !.held = groups]
      <3>1. r.op = op /\ LoadAs(s, r)
        BY <2>4, RequestTypes
      <3> HIDE DEF r
      <3>2. QED
        BY <1>3, <3>1
    <2>5. QED
      BY <1>4, <2>1, <2>2, <2>3, <2>4
  <1>5. ASSUME NEW s \in Session, NEW op \in Op, LoadRow(s, op)
        PROVE  SameColumns /\ now' = now /\ \A t \in Session : Extending(t)
    <2> DEFINE r == [Idle EXCEPT !.op = op, !.loaded = guest]
    <2>1. r.loaded = guest /\ LoadAs(s, r)
      BY <1>5, RequestTypes DEF LoadRow
    <2> HIDE DEF r
    <2>2. QED
      BY <1>3, <2>1
  <1>6. /\ {"invite", "groups", "check", "revoke", "purge", "select", "grace"}
             \subseteq Op \ {"extend"}
        /\ {"extend", "grace"} \subseteq Op
    BY DEF Op
  <1>7. ASSUME NEW s \in Session,
               \/ BeginInvite(s) \/ BeginGroups(s) \/ BeginCheck(s)
               \/ BeginRevoke(s) \/ BeginPurge(s) \/ SweepSelects(s)
               \/ BeginExtend(s) \/ BeginGrace(s)
        PROVE  SameColumns /\ now' = now /\ \A t \in Session : Extending(t)
    <2>1. \/ LoadStatus(s, "invite") \/ LoadStatus(s, "purge") \/ LoadStatus(s, "select")
          \/ LoadGroups(s, "revoke") \/ LoadInvite(s, "check")
          \/ LoadAs(s, [Idle EXCEPT !.op = "groups", !.held = groups])
          \/ LoadRow(s, "extend") \/ LoadRow(s, "grace")
      BY <1>7 DEF BeginInvite, BeginGroups, BeginCheck, BeginRevoke, BeginPurge,
                  SweepSelects, BeginExtend, BeginGrace
    <2>2. QED
      BY <1>4, <1>5, <1>6, <2>1
  <1>8. ASSUME NEW s \in Session,
               \/ Invited(s) \/ CheckCompleted(s) \/ CheckOverdue(s)
               \/ Revoked(s) \/ Purged(s) \/ Expired(s)
        PROVE  SameColumns /\ now' = now /\ \A t \in Session : Extending(t)
    BY <1>1, <1>2, <1>8
       DEF Invited, CheckCompleted, CheckOverdue, Revoked, Purged, Expired
  <1>9. ASSUME NEW s \in Session, NEW new \in SUBSET Group,
               UpdateGroups(s, new) \/ Fails(s)
        PROVE  SameColumns /\ now' = now /\ \A t \in Session : Extending(t)
    BY <1>2, <1>9 DEF UpdateGroups, Fails, SameColumns
  <1>10. ASSUME NEW s \in Session, SweepReaches(s)
         PROVE  SameColumns /\ now' = now /\ \A t \in Session : Extending(t)
    BY <1>10 DEF SweepReaches, SameColumns, Extending, TypeOK
  <1>11. ASSUME NEW s \in Session, NEW days, Extended(s, days) \/ Grace(s)
         PROVE  now' = now /\ \A t \in Session : Extending(t)
    BY <1>2, <1>11 DEF Extended, Grace
  <1>12. ASSUME Tick \/ (\E i \in 1..MaxInvites : Redeem(i)) \/ UNCHANGED vars
         PROVE  /\ SameColumns /\ \A t \in Session : Extending(t)
                /\ now' = now \/ now' = now + 1
    BY <1>12 DEF Tick, Redeem, vars, SameColumns, Extending
  <1>13. ASSUME NEW s \in Session, Operate(s)
         PROVE  \/ BeginInvite(s) \/ BeginGroups(s) \/ BeginCheck(s)
                   \/ BeginRevoke(s) \/ BeginPurge(s) \/ SweepSelects(s)
                   \/ BeginExtend(s) \/ BeginGrace(s)
                \/ Invited(s) \/ CheckCompleted(s) \/ CheckOverdue(s)
                   \/ Revoked(s) \/ Purged(s) \/ Expired(s)
                \/ Fails(s) \/ \E new \in SUBSET Group : UpdateGroups(s, new)
                \/ SweepReaches(s)
                \/ Grace(s) \/ \E days \in 1..MaxDays : Extended(s, days)
    BY <1>13 DEF Operate, InviteGuest, Resend, UpdateGuestGroups, CheckGuestStatus,
                 RevokeGuest, BulkRevoke, BulkReaches, Purge, ExtendGuest, GracePeriod,
                 Sweep, Policy
  <1>14. ASSUME NEW s \in Session, Operate(s)
         PROVE  /\ \/ SameColumns \/ (\E days \in 1..MaxDays : Extended(s, days))
                   \/ Grace(s)
                /\ now' = now /\ \A t \in Session : Extending(t)
    BY <1>7, <1>8, <1>9, <1>10, <1>11, <1>13, <1>14
  <1>15. QED
    BY <1>12, <1>14 DEF Next, SameColumns, Extending

\* What a guest has is covered by what was counted, as long as no grace period,
\* which is not counted, was granted.
THEOREM AccessIsBounded == Spec => []AccessBounded
  <1>1. Init => AccessInv
    BY IdleType, ParameterAssumption
       DEF Init, AccessInv, Covered, NoGuest, NoTime
  <1>2. TypeInv /\ AccessInv /\ [Next]_vars => AccessInv'
    <2> SUFFICES ASSUME TypeInv, AccessInv, [Next]_vars, graces' = 0
                 PROVE  /\ Covered(guest)'
                        /\ \A s \in Session : req'[s].op = "extend" =>
                                                Covered(req[s].loaded)'
      BY DEF AccessInv
    <2>0. /\ guest \in GuestUser /\ now \in Nat /\ graces \in Nat
          /\ \A s \in Session : req[s].loaded \in GuestUser
      BY ParameterAssumption DEF TypeInv, TypeOK, Request
    <2>1. ASSUME NEW s \in Session, Grace(s) PROVE FALSE
      BY <2>0, <2>1 DEF Grace
    <2>2. graces = 0
      BY <2>1, ColumnsStep DEF TypeInv, Extended
    <2>3. /\ Covered(guest)
          /\ \A s \in Session : req[s].op = "extend" => Covered(req[s].loaded)
      BY <2>2 DEF AccessInv
    <2>4. now' = now \/ now' = now + 1
      BY ColumnsStep DEF TypeInv
    <2>5. ASSUME NEW g \in GuestUser, Covered(g)
          PROVE  g.expires_at <= now' + g.extended_count * MaxDays
      BY <2>0, <2>4, <2>5, LaterCovers DEF Covered, GuestUser
    <2>6. Covered(guest)'
      <3>1. CASE guest'.expires_at = guest.expires_at
                 /\ guest'.extended_count = guest.extended_count
        BY <2>0, <2>3, <2>5, <3>1 DEF Covered
      <3>2. ASSUME NEW s \in Session, NEW days \in 1..MaxDays, Extended(s, days)
            PROVE  Covered(guest)'
        <4> DEFINE old == req[s].loaded
        <4>1. old \in GuestUser /\ Covered(old)
          BY <2>0, <2>3, <3>2 DEF Extended, Busy
        <4>2. /\ guest'.expires_at = Later(s, days)
              /\ guest'.extended_count = old.extended_count + 1
              /\ now' = now
          BY <3>2 DEF Extended
        <4>3. old.extended_count \in Nat /\ old.expires_at \in Nat
          BY <4>1, ParameterAssumption DEF GuestUser
        <4> HIDE DEF old
        <4>4. \E e \in Nat : /\ e <= now + old.extended_count * MaxDays
                             /\ Later(s, days) = e + days
          <5>1. CASE req[s].loaded.expires_at = NoTime
            <6>1. old.extended_count * MaxDays \in Nat
              BY <4>3, ParameterAssumption
            <6>2. now <= now + old.extended_count * MaxDays
              BY <2>0, <6>1
            <6>3. QED
              BY <2>0, <5>1, <6>2 DEF Later
          <5>2. CASE req[s].loaded.expires_at # NoTime
            BY <4>1, <4>3, <5>2 DEF Later, Covered, old
          <5>3. QED
            BY <5>1, <5>2
        <4>5. QED
          BY <2>0, <4>2, <4>3, <4>4, OneMore DEF Covered
      <3>3. QED
        BY <2>1, <3>1, <3>2, ColumnsStep DEF TypeInv
    <2>7. ASSUME NEW s \in Session, req'[s].op = "extend"
          PROVE  Covered(req[s].loaded)'
      <3>1. req'[s] = req[s] \/ req'[s].loaded = guest
        BY <2>7, ColumnsStep DEF TypeInv
      <3>2. req'[s].loaded \in GuestUser /\ Covered(req'[s].loaded)
        BY <2>0, <2>3, <2>7, <3>1
      <3>3. QED
        BY <2>5, <3>2 DEF Covered
    <2>8. QED
      BY <2>6, <2>7
  <1>3. AccessInv => AccessBounded
    BY DEF AccessInv, Covered, AccessBounded
  <1>4. QED
    BY <1>1, <1>2, <1>3, InitType, NextType, PTL DEF Spec

-----------------------------------------------------------------------------
(* What a step may do with the status.                                       *)

\* The steps that may change the status, and to what.
LEMMA StatusStep ==
    ASSUME TypeInv, [Next]_vars
    PROVE  \/ guest'.status = guest.status
              /\ redeemed \subseteq redeemed'
           \/ \E s \in Session :
                /\ req[s].op # "idle" /\ req'[s].op = "idle"
                /\ redeemed' = redeemed
                /\ \/ req[s].op = "invite" /\ guest'.status = "invited"
                   \/ req[s].op = "check" /\ req[s].invite \in redeemed
                      /\ guest'.status = "accepted"
                   \/ req[s].op = "check" /\ guest'.status = "expired"
                   \/ req[s].op = "revoke" /\ guest'.status = "revoked"
                   \/ req[s].op = "purge" /\ guest'.status = "purged"
                   \/ req[s].op = "expire" /\ guest'.status = "expired"
                      /\ req[s].loaded.status = "accepted"
                   \/ req[s].op \in {"extend", "grace"}
                      /\ req[s].loaded.status = "expired"
                      /\ \/ graces' = graces + 1
                         \/ guest'.extended_count = req[s].loaded.extended_count + 1
  <1>0. TypeOK /\ guest \in GuestUser /\ \A s \in Session : req[s] \in Request
    BY DEF TypeInv, TypeOK
  <1>1. ASSUME NEW s \in Session, Done(s), req[s].op # "idle"
        PROVE  req'[s].op = "idle"
    BY <1>0, <1>1, IdleType DEF Done, TypeOK
  <1>2. ASSUME NEW s \in Session, NEW r, LoadAs(s, r)
        PROVE  guest'.status = guest.status /\ redeemed \subseteq redeemed'
    BY <1>2 DEF LoadAs
  <1>3. ASSUME NEW s \in Session, NEW status,
               guest' = [guest EXCEPT !.status = SetStatus(s, status)]
        PROVE  guest'.status \in {guest.status, status}
    BY <1>0, <1>3 DEF GuestUser, SetStatus, Written
  <1>4. ASSUME NEW s \in Session,
               \/ BeginInvite(s) \/ BeginGroups(s) \/ BeginCheck(s)
               \/ BeginRevoke(s) \/ BeginPurge(s) \/ SweepSelects(s)
               \/ BeginExtend(s) \/ BeginGrace(s)
        PROVE  guest'.status = guest.status /\ redeemed \subseteq redeemed'
    BY <1>2, <1>4 DEF BeginInvite, BeginGroups, BeginCheck, BeginRevoke, BeginPurge,
                      SweepSelects, BeginExtend, BeginGrace,
                      LoadStatus, LoadRow, LoadGroups, LoadInvite
  <1>5. ASSUME NEW s \in Session, Invited(s)
        PROVE  /\ guest'.status \in {guest.status, "invited"} /\ redeemed' = redeemed
               /\ req[s].op = "invite" /\ req'[s].op = "idle"
    BY <1>1, <1>3, <1>5 DEF Invited, Busy
  <1>6. ASSUME NEW s \in Session, CheckCompleted(s)
        PROVE  /\ guest'.status \in {guest.status, "accepted"} /\ redeemed' = redeemed
               /\ req[s].op = "check" /\ req'[s].op = "idle" /\ req[s].invite \in redeemed
    BY <1>1, <1>3, <1>6 DEF CheckCompleted, Busy
  <1>7. ASSUME NEW s \in Session, CheckOverdue(s)
        PROVE  /\ guest'.status \in {guest.status, "expired"} /\ redeemed' = redeemed
               /\ req[s].op = "check" /\ req'[s].op = "idle"
    BY <1>1, <1>3, <1>7 DEF CheckOverdue, Busy
  <1>8. ASSUME NEW s \in Session, Revoked(s)
        PROVE  /\ guest'.status \in {guest.status, "revoked"} /\ redeemed' = redeemed
               /\ req[s].op = "revoke" /\ req'[s].op = "idle"
    BY <1>1, <1>3, <1>8 DEF Revoked, Busy
  <1>9. ASSUME NEW s \in Session, Purged(s)
        PROVE  /\ guest'.status \in {guest.status, "purged"} /\ redeemed' = redeemed
               /\ req[s].op = "purge" /\ req'[s].op = "idle"
    BY <1>1, <1>3, <1>9 DEF Purged, Busy
  <1>10. ASSUME NEW s \in Session, Expired(s)
         PROVE  /\ guest'.status \in {guest.status, "expired"} /\ redeemed' = redeemed
                /\ req[s].op = "expire" /\ req'[s].op = "idle"
                /\ req[s].loaded.status = "accepted"
    BY <1>1, <1>3, <1>10 DEF Expired, Busy, TypeInv, LoadedInv
  <1>11. ASSUME NEW s \in Session, NEW days \in 1..MaxDays, Extended(s, days)
         PROVE  /\ redeemed' = redeemed /\ req[s].op = "extend" /\ req'[s].op = "idle"
                /\ guest'.extended_count = req[s].loaded.extended_count + 1
                /\ guest'.status = guest.status \/ req[s].loaded.status = "expired"
    BY <1>1, <1>11 DEF Extended, Busy, Reactivated
  <1>12. ASSUME NEW s \in Session, Grace(s)
         PROVE  /\ redeemed' = redeemed /\ req[s].op = "grace" /\ req'[s].op = "idle"
                /\ graces' = graces + 1
                /\ guest'.status = guest.status \/ req[s].loaded.status = "expired"
    BY <1>0, <1>1, <1>12 DEF Grace, Busy, Reactivated, GuestUser
  <1>13. ASSUME NEW s \in Session,
                \/ Fails(s) \/ SweepReaches(s)
                \/ \E new \in SUBSET Group : UpdateGroups(s, new)
         PROVE  guest'.status = guest.status /\ redeemed \subseteq redeemed'
    BY <1>13 DEF Fails, SweepReaches, UpdateGroups
  <1>14. ASSUME Tick \/ (\E i \in 1..MaxInvites : Redeem(i)) \/ UNCHANGED vars
         PROVE  guest'.status = guest.status /\ redeemed \subseteq redeemed'
    BY <1>14 DEF Tick, Redeem, vars
  <1>15. CASE \E s \in Session : Operate(s)
    <2>1. PICK s \in Session : Operate(s)
      BY <1>15
    <2>2. \/ BeginInvite(s) \/ BeginGroups(s) \/ BeginCheck(s)
             \/ BeginRevoke(s) \/ BeginPurge(s) \/ SweepSelects(s)
             \/ BeginExtend(s) \/ BeginGrace(s)
          \/ Invited(s) \/ CheckCompleted(s) \/ CheckOverdue(s)
             \/ Revoked(s) \/ Purged(s) \/ Expired(s)
          \/ Fails(s) \/ SweepReaches(s) \/ (\E new \in SUBSET Group : UpdateGroups(s, new))
          \/ Grace(s) \/ \E days \in 1..MaxDays : Extended(s, days)
      BY <2>1 DEF Operate, InviteGuest, Resend, UpdateGuestGroups, CheckGuestStatus,
                  RevokeGuest, BulkRevoke, BulkReaches, Purge, ExtendGuest, GracePeriod,
                  Sweep, Policy
    <2>3. QED
      BY <2>2, <1>4, <1>5, <1>6, <1>7, <1>8, <1>9, <1>10, <1>11, <1>12, <1>13
  <1>16. QED
    BY <1>14, <1>15 DEF Next

\* An accepted guest nobody extended or gave grace has redeemed an invitation.
THEOREM AcceptedHasRedeemed == Spec => []AcceptedRedeemed
  <1>1. Init => AcceptedRedeemed
    BY DEF Init, AcceptedRedeemed, NoGuest
  <1>2. TypeInv /\ AcceptedRedeemed /\ [Next]_vars => AcceptedRedeemed'
    <2> SUFFICES ASSUME TypeInv, AcceptedRedeemed, [Next]_vars,
                        guest'.status = "accepted", guest'.extended_count = 0,
                        graces' = 0
                 PROVE  redeemed' # {}
      BY DEF AcceptedRedeemed
    <2>0. /\ guest \in GuestUser /\ graces \in Nat /\ redeemed \in SUBSET (1..MaxInvites)
          /\ \A s \in Session : req[s].loaded.extended_count \in Nat
      BY ParameterAssumption DEF TypeInv, TypeOK, Request, GuestUser
    <2>1. \/ guest'.extended_count = guest.extended_count /\ graces' = graces
          \/ \E s \in Session : guest'.extended_count = req[s].loaded.extended_count + 1
          \/ graces' = graces + 1
      <3>1. ASSUME NEW s \in Session, NEW days \in 1..MaxDays, Extended(s, days)
            PROVE  guest'.extended_count = req[s].loaded.extended_count + 1
        BY <3>1 DEF Extended
      <3>2. ASSUME NEW s \in Session, Grace(s) PROVE graces' = graces + 1
        BY <3>2 DEF Grace
      <3>3. QED
        BY <3>1, <3>2, ColumnsStep DEF TypeInv
    <2>2. guest.extended_count = 0 /\ graces = 0
      BY <2>0, <2>1
    <2>3. CASE guest'.status = guest.status /\ redeemed \subseteq redeemed'
      BY <2>0, <2>2, <2>3 DEF AcceptedRedeemed
    <2>4. CASE ~(guest'.status = guest.status /\ redeemed \subseteq redeemed')
      BY <2>0, <2>4, StatusStep
    <2>5. QED
      BY <2>3, <2>4
  <1>3. QED
    BY <1>1, <1>2, InitType, NextType, PTL DEF Spec

\* What brings a revoked guest back had loaded it before the revocation, or is
\* an invitation, a status check or the purge.
THEOREM RevokedStays == Spec => RevokedLeaves
  <1>1. TypeInv /\ [Next]_vars =>
          [guest.status = "revoked" /\ guest'.status # "revoked"
           => \E s \in Session :
                 /\ ~Busy(s, "idle") /\ req'[s].op = "idle"
                 /\ \/ req[s].op \in {"invite", "check", "purge"}
                    \/ req[s].loaded.status # "revoked"]_vars
    BY StatusStep DEF Busy
  <1>2. QED
    BY <1>1, InitType, NextType, PTL DEF Spec, RevokedLeaves
=============================================================================
