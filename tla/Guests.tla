------------------------------- MODULE Guests -------------------------------
(***************************************************************************)
(* One partner guest: its guest_user row, its invitations and its groups,  *)
(* under the concurrent requests of GuestService and                       *)
(* GuestLifecycleService.                                                  *)
(*                                                                         *)
(* A request is two steps or three: it loads the row in a session of its   *)
(* own, waits for Graph or for other queries, and commits the columns that *)
(* differ from what it loaded.  What it loaded is not read again (the      *)
(* sessions keep their objects across commits), so everything in between   *)
(* may have changed.  A request that raises rolls back and leaves nothing. *)
(* Group memberships in Azure are external; the assignments are ours.      *)
(***************************************************************************)
EXTENDS Naturals, FiniteSets

CONSTANTS
    Session,        \* concurrent requests and sweeps
    Group,          \* groups of a guest
    RoleGroup,      \* the groups _assign_groups_by_role gives the role
    MaxDays,        \* the longest extension of a request or policy
    MaxExtensions,  \* max_extensions of the partner's policy
    GraceDays,      \* grace_days
    InvitationLife, \* the 30 days of an invitation
    MaxInvites,     \* bound: invitations ever sent
    MaxGraces,      \* bound: grace periods
    MaxTime         \* bound: the clock

ASSUME ParameterAssumption ==
    /\ IsFiniteSet(Session) /\ RoleGroup \subseteq Group
    /\ MaxDays \in Nat /\ MaxExtensions \in Nat
    /\ GraceDays \in Nat \ {0} /\ InvitationLife \in Nat
    /\ MaxInvites \in Nat /\ MaxGraces \in Nat /\ MaxTime \in Nat \ {0}

VARIABLES
    guest,    \* the guest_user row: status, expires_at, extended_count
    groups,   \* group assignments with removed_at IS NULL
    invites,  \* guest_invitation rows in the order of sent_at
    redeemed, \* invitations for which Graph answers "completed"
    graces,   \* grace periods granted
    req,      \* what each request is doing and the columns it loaded
    now       \* the clock

vars == <<guest, groups, invites, redeemed, graces, req, now>>

NoTime == 0   \* expires_at IS NULL; every expiry is later
Status == {"none", "pending", "invited", "accepted", "expired", "revoked",
           "purged"}
GuestUser == [status : Status, expires_at : Nat,
              extended_count : 0..MaxExtensions]
Invitation == [status : {"none", "pending", "accepted", "expired"},
               expires_at : Nat]
Op == {"idle", "invite", "groups", "check", "revoke", "purge", "extend",
       "select", "expire", "grace"}
Request == [op : Op, loaded : GuestUser, held : SUBSET Group,
            invite : 0..MaxInvites]

NoGuest == [status |-> "none", expires_at |-> NoTime, extended_count |-> 0]
NoInvite == [status |-> "none", expires_at |-> NoTime]
Idle == [op |-> "idle", loaded |-> NoGuest, held |-> {}, invite |-> 0]

TypeOK ==
    /\ guest \in GuestUser
    /\ groups \in SUBSET Group
    /\ invites \in [1..MaxInvites -> Invitation]
    /\ redeemed \in SUBSET (1..MaxInvites)
    /\ graces \in 0..MaxGraces
    /\ req \in [Session -> Request]
    /\ now \in 1..MaxTime

-----------------------------------------------------------------------------
Init ==
    /\ guest = NoGuest
    /\ groups = {}
    /\ invites = [i \in 1..MaxInvites |-> NoInvite]
    /\ redeemed = {}
    /\ graces = 0
    /\ req = [s \in Session |-> Idle]
    /\ now = 1

Exists == guest.status # "none"

\* get_or_create_policy: the partner's policy, inserted with its defaults by
\* the first request that needs it; no request changes it.
Policy == [max_extensions |-> MaxExtensions, days |-> 1..MaxDays]

Busy(s, op) == req[s].op = op
Sent == {i \in 1..MaxInvites : invites[i].status # "none"}
Latest == Cardinality(Sent)

\* A column is written when its new value differs from the loaded one.
Written(old, new, current) == IF new = old THEN current ELSE new

\* The request loads what it will use: the row, or only its status, and the
\* active assignments or the latest invitation.
LoadAs(s, request) ==
    /\ Busy(s, "idle")
    /\ req' = [req EXCEPT ![s] = request]
    /\ UNCHANGED <<guest, groups, invites, redeemed, graces, now>>

StatusOnly == [NoGuest EXCEPT !.status = guest.status]
LoadStatus(s, op) == LoadAs(s, [Idle EXCEPT !.op = op, !.loaded = StatusOnly])
LoadRow(s, op) == LoadAs(s, [Idle EXCEPT !.op = op, !.loaded = guest])
LoadGroups(s, op) == LoadAs(s, [Idle EXCEPT !.op = op, !.loaded = StatusOnly,
                                            !.held = groups])
LoadInvite(s, op) == LoadAs(s, [Idle EXCEPT !.op = op, !.loaded = StatusOnly,
                                            !.invite = Latest])

Done(s) == req' = [req EXCEPT ![s] = Idle]

\* The status column after a commit of s.
SetStatus(s, new) == Written(req[s].loaded.status, new, guest.status)

-----------------------------------------------------------------------------
\* invite_guest looks the address up; the insert of a new guest waits for
\* another open insert of the address, whose commit makes it fail.
BeginInvite(s) ==
    /\ ~Exists => \A t \in Session : ~Busy(t, "invite")
    /\ Cardinality(Sent) + Cardinality({t \in Session : Busy(t, "invite")})
         < MaxInvites
    /\ LoadStatus(s, "invite")

\* The router's resend_invitation refuses an accepted guest and invites again.
Resend(s) == Exists /\ guest.status # "accepted" /\ BeginInvite(s)

AssignByRole == groups' = groups \cup RoleGroup

\* Graph created the invitation: status, invitation, groups, notification.
Invited(s) ==
    LET i == Cardinality(Sent) + 1 IN
    /\ Busy(s, "invite")
    /\ guest' = [guest EXCEPT !.status = SetStatus(s, "invited")]
    /\ invites' = [invites EXCEPT
                     ![i] = [status |-> "pending",
                             expires_at |-> now + InvitationLife]]
    /\ AssignByRole
    /\ Done(s)
    /\ UNCHANGED <<redeemed, graces, now>>

\* update_guest_groups, whatever the status of the guest.
BeginGroups(s) ==
    /\ Exists
    /\ LoadAs(s, [Idle EXCEPT !.op = "groups", !.held = groups])
UpdateGroups(s, new) ==
    LET held == req[s].held IN
    /\ Busy(s, "groups")
    /\ groups' = (groups \ (held \ new)) \cup (new \ held)
    /\ Done(s)
    /\ UNCHANGED <<guest, invites, redeemed, graces, now>>

-----------------------------------------------------------------------------
\* check_invitation_status asks Graph about the latest invitation only.
BeginCheck(s) ==
    /\ Sent # {}
    /\ invites[Latest].status = "pending"
    /\ LoadInvite(s, "check")

\* Graph says "completed": accepted, whatever became of the guest meanwhile.
CheckCompleted(s) ==
    LET i == req[s].invite IN
    /\ Busy(s, "check")
    /\ i \in redeemed
    /\ invites' = [invites EXCEPT ![i].status = "accepted"]
    /\ guest' = [guest EXCEPT !.status = SetStatus(s, "accepted")]
    /\ Done(s)
    /\ UNCHANGED <<groups, redeemed, graces, now>>

\* Mutant of CheckOverdue: an overdue invitation passes for a completed one.
CheckOverdueAccepts(s) ==
    LET i == req[s].invite IN
    /\ Busy(s, "check")
    /\ invites[i].expires_at < now
    /\ invites' = [invites EXCEPT ![i].status = "accepted"]
    /\ guest' = [guest EXCEPT !.status = SetStatus(s, "accepted")]
    /\ Done(s)
    /\ UNCHANGED <<groups, redeemed, graces, now>>

\* Graph did not say so, or the call failed, and the invitation is overdue.
CheckOverdue(s) ==
    LET i == req[s].invite IN
    /\ Busy(s, "check")
    /\ invites[i].expires_at < now
    /\ invites' = [invites EXCEPT ![i].status = "expired"]
    /\ guest' = [guest EXCEPT !.status = SetStatus(s, "expired")]
    /\ Done(s)
    /\ UNCHANGED <<groups, redeemed, graces, now>>

-----------------------------------------------------------------------------
\* revoke_guest; the router answers a repeated revocation without calling it.
BeginRevoke(s) ==
    /\ Exists
    /\ guest.status # "revoked"
    /\ LoadGroups(s, "revoke")

\* _remove_from_all_groups removes the assignments that were loaded.
RemoveHeld(s) == groups' = groups \ req[s].held

Revoked(s) ==
    /\ Busy(s, "revoke")
    /\ RemoveHeld(s)
    /\ guest' = [guest EXCEPT !.status = SetStatus(s, "revoked")]
    /\ Done(s)
    /\ UNCHANGED <<invites, redeemed, graces, now>>

\* bulk_revoke_guests comes to this guest: revoke_guest, in a try of its own.
BulkReaches(s) == BeginRevoke(s)

\* purge_revoked_guest: the user is deleted in Azure, then the row marked.
BeginPurge(s) == guest.status = "revoked" /\ LoadStatus(s, "purge")
Purged(s) ==
    /\ Busy(s, "purge")
    /\ guest' = [guest EXCEPT !.status = SetStatus(s, "purged")]
    /\ Done(s)
    /\ UNCHANGED <<groups, invites, redeemed, graces, now>>

-----------------------------------------------------------------------------
\* can_extend_guest, and the same checks in extend_guest_access.
CanExtend ==
    /\ Exists
    /\ guest.status \notin {"revoked", "purged"}
    /\ guest.extended_count < Policy.max_extensions

BeginExtend(s) == CanExtend /\ LoadRow(s, "extend")

\* Both services add to the expiry they loaded, or to now.
Later(s, days) ==
    (IF req[s].loaded.expires_at = NoTime THEN now
                                          ELSE req[s].loaded.expires_at) + days

\* An expired guest is accepted again.
Reactivated(s) ==
    IF req[s].loaded.status = "expired" THEN "accepted" ELSE guest.status

\* Mutants of Extended: the count is added to what the row has by now, or
\* the extension is not counted.
ExtendedFresh(s, days) ==
    /\ Busy(s, "extend")
    /\ guest' = [status         |-> Reactivated(s),
                 expires_at     |-> Later(s, days),
                 extended_count |-> guest.extended_count + 1]
    /\ Done(s)
    /\ UNCHANGED <<groups, invites, redeemed, graces, now>>
ExtendedUncounted(s, days) ==
    /\ Busy(s, "extend")
    /\ guest' = [status         |-> Reactivated(s),
                 expires_at     |-> Later(s, days),
                 extended_count |-> guest.extended_count]
    /\ Done(s)
    /\ UNCHANGED <<groups, invites, redeemed, graces, now>>

\* extend_guest_access writes expiry and count of one loaded row.
Extended(s, days) ==
    /\ Busy(s, "extend")
    /\ guest' = [status         |-> Reactivated(s),
                 expires_at     |-> Later(s, days),
                 extended_count |-> req[s].loaded.extended_count + 1]
    /\ Done(s)
    /\ UNCHANGED <<groups, invites, redeemed, graces, now>>

BeginGrace(s) ==
    /\ guest.status \in {"accepted", "expired"}
    /\ graces + Cardinality({t \in Session : Busy(t, "grace")}) < MaxGraces
    /\ LoadRow(s, "grace")

\* apply_grace_period: as often as it is called, and not counted.
Grace(s) ==
    /\ Busy(s, "grace")
    /\ guest' = [guest EXCEPT !.status = Reactivated(s),
                              !.expires_at = Later(s, GraceDays)]
    /\ graces' = graces + 1
    /\ Done(s)
    /\ UNCHANGED <<groups, invites, redeemed, now>>

-----------------------------------------------------------------------------
\* Mutant of SweepSelects: the query forgets the status.
SweepSelectsAny(s) ==
    /\ guest.expires_at # NoTime /\ guest.expires_at <= now
    /\ LoadStatus(s, "select")

\* process_automatic_expiry selects the overdue guests ...
SweepSelects(s) ==
    /\ guest.status = "accepted"
    /\ guest.expires_at # NoTime /\ guest.expires_at <= now
    /\ LoadStatus(s, "select")

\* ... and reaches this one later: expire_guest gets the object the sweep has
\* already loaded, and selects its groups.
SweepReaches(s) ==
    /\ Busy(s, "select")
    /\ req' = [req EXCEPT ![s] = [op |-> "expire", loaded |-> @.loaded,
                                  held |-> groups, invite |-> @.invite]]
    /\ UNCHANGED <<guest, groups, invites, redeemed, graces, now>>

Expired(s) ==
    /\ Busy(s, "expire")
    /\ RemoveHeld(s)
    /\ guest' = [guest EXCEPT !.status = SetStatus(s, "expired")]
    /\ Done(s)
    /\ UNCHANGED <<invites, redeemed, graces, now>>

\* Graph, the database or the process fails: the session is rolled back.
Fails(s) ==
    /\ ~Busy(s, "idle")
    /\ Done(s)
    /\ UNCHANGED <<guest, groups, invites, redeemed, graces, now>>

\* The guest follows the link of an invitation that is still valid.
Redeem(i) ==
    /\ invites[i].status # "none"
    /\ invites[i].expires_at >= now
    /\ redeemed' = redeemed \cup {i}
    /\ UNCHANGED <<guest, groups, invites, graces, req, now>>

Tick ==
    /\ now < MaxTime
    /\ now' = now + 1
    /\ UNCHANGED <<guest, groups, invites, redeemed, graces, req>>

-----------------------------------------------------------------------------
\* The endpoints, each with the steps of its service, and the sweep.
InviteGuest(s) == BeginInvite(s) \/ Invited(s)
UpdateGuestGroups(s) ==
    BeginGroups(s) \/ \E new \in SUBSET Group : UpdateGroups(s, new)
CheckGuestStatus(s) == BeginCheck(s) \/ CheckCompleted(s) \/ CheckOverdue(s)
RevokeGuest(s) == BeginRevoke(s) \/ Revoked(s)
BulkRevoke(s) == BulkReaches(s) \/ Revoked(s)
Purge(s) == BeginPurge(s) \/ Purged(s)
ExtendGuest(s) ==
    BeginExtend(s) \/ \E days \in Policy.days : Extended(s, days)
GracePeriod(s) == BeginGrace(s) \/ Grace(s)
Sweep(s) == SweepSelects(s) \/ SweepReaches(s) \/ Expired(s)

Operate(s) ==
    \/ InviteGuest(s) \/ Resend(s) \/ UpdateGuestGroups(s)
    \/ CheckGuestStatus(s) \/ RevokeGuest(s) \/ BulkRevoke(s) \/ Purge(s)
    \/ ExtendGuest(s) \/ GracePeriod(s) \/ Sweep(s) \/ Fails(s)

Next ==
    \/ \E s \in Session : Operate(s)
    \/ \E i \in 1..MaxInvites : Redeem(i)
    \/ Tick

Spec == Init /\ [][Next]_vars

-----------------------------------------------------------------------------
\* Properties.

\* However extensions overwrite each other, the expiry never runs ahead of
\* the count, so no guest gets more access than max_extensions allows.  (As
\* long as no grace period, which is not counted, was granted.)
AccessBounded ==
    graces = 0 => guest.expires_at <= now + guest.extended_count * MaxDays

\* A guest nobody extended or gave grace is accepted only when an invitation
\* was redeemed, also when status checks race re-invitations and expiry.
AcceptedRedeemed ==
    /\ guest.status = "accepted"
    /\ guest.extended_count = 0 /\ graces = 0
    => redeemed # {}

\* A revoked guest comes back only by a new invitation, by a status check that
\* finds one redeemed, by its purge, or by a request that loaded it before the
\* revocation committed: no extension, grace period or sweep that meets a
\* revoked guest revives it.
RevokedLeaves ==
    [][guest.status = "revoked" /\ guest'.status # "revoked"
       => \E s \in Session :
             /\ ~Busy(s, "idle") /\ req'[s].op = "idle"
             /\ \/ req[s].op \in {"invite", "check", "purge"}
                \/ req[s].loaded.status # "revoked"]_vars
=============================================================================
