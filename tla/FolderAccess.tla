---------------------------- MODULE FolderAccess ----------------------------
(***************************************************************************)
(* The permission matrix: what a role may do on the folders of one path    *)
(* (permission_engine.py, inheritance_service.py), and the scan that       *)
(* compares the assignments of a folder with SharePoint                    *)
(* (reconciliation_service.py).                                            *)
(*                                                                         *)
(* Only ancestors count for what a folder inherits, so one path stands for *)
(* the tree.  The services work on synchronous sessions: each operation is *)
(* one step, but for the scan, which reads the assignments before it waits *)
(* for Graph.  Nothing under src/ writes rules, exceptions, memberships or *)
(* new assignments but tests and the synchronisation from outside, and     *)
(* nothing but tests hands the engine's result to apply_inheritance.       *)
(***************************************************************************)
EXTENDS Naturals, FiniteSets

CONSTANTS
    Depth,         \* length of the path: folder f lies in folder f - 1
    TypeOf,        \* classify_folder_type of each folder
    Sensitive,     \* folders whose own name has a sensitive pattern
    CegNamed,      \* folders whose own name starts with CEG_
    Role,
    Neu, Finance, PartnerAdmin,   \* roles of those names
    Level,         \* permission levels in use, of 1 (read) .. 4 (manage)
    Rule,          \* permission_rule: role, folder type, level
    Group,         \* principals Graph calls groups or users
    Link,          \* a principal it calls neither: a sharing link, an application
    GroupsOf,      \* group_role_mapping: the groups of each role
    User,
    MemberOf,      \* membership: the groups of each user
    Exception,     \* permission_exception rows: folder, role, level
    Scanned,       \* root_path of the scan
    MaxRows,       \* bound: assignments of the path
    MaxPermissions \* bound: permissions of the scanned folder in SharePoint

Folder == 1..Depth
FolderType == {"standard", "financial", "neu_only", "final",
               "partner_specific"}
ReadLevel == 1

\* The order in which classify_folder_type tries its patterns.
Tried == <<"financial", "neu_only", "final", "partner_specific", "standard">>

ASSUME AccessAssumption ==
    /\ Depth \in Nat \ {0} /\ Scanned \in Folder
    /\ Sensitive \subseteq Folder /\ CegNamed \subseteq Folder
    /\ TypeOf \in [Folder -> FolderType]
    /\ Neu \cup Finance \cup PartnerAdmin \subseteq Role
    /\ Level \subseteq 1..4 /\ ReadLevel \in Level
    /\ Rule \subseteq [role : Role, type : FolderType, level : Level]
    /\ IsFiniteSet(Group) /\ Link \notin Group
    /\ GroupsOf \in [Role -> SUBSET Group] /\ MemberOf \in [User -> SUBSET Group]
    /\ Exception \subseteq [folder : Folder, role : Role, level : Level]
    /\ MaxRows \in Nat /\ MaxPermissions \in Nat
\* What a pattern finds in the path of a folder it finds in the paths below.
ASSUME PathAssumption ==
    \A f \in Folder \ {1} : \E i \in 1..5 : \E j \in i..5 :
        TypeOf[f] = Tried[i] /\ TypeOf[f - 1] = Tried[j]

VARIABLES
    rows,       \* permission_assignment, unique per folder and role
    exceptions, \* exceptions that have not expired
    actual,     \* SharePoint: the permissions on the scanned folder
    scan,       \* compare_permissions: the desired levels it has read
    report      \* its drifts, until they are worked off

accessVars == <<rows, exceptions, actual, scan, report>>

NoLevel == 0   \* no level
AssignmentRow == [level : Level, broken : BOOLEAN, source : {"manual", "cascaded"}]
NoRow == [level |-> NoLevel, broken |-> FALSE, source |-> "manual"]
\* NoLevel: the mapping knows none of the permission's roles ("owner"); of a
\* link it does not look at them.
FolderPermission == [who : Group, level : Level \cup {NoLevel}]
              \cup {[who |-> Link, level |-> NoLevel]}
Levels == [Role -> Level \cup {NoLevel}]
Drift == [role : Role, desired : Level, found : Level \cup {NoLevel},
          action : {"grant", "update"}]
Report == [drifts : SUBSET Drift, revokes : 0..Cardinality(Group)]
NoReport == [drifts |-> {}, revokes |-> 0]
Scan == [pc : {"idle", "waiting"}, desired : Levels]
NotScanning == [pc |-> "idle", desired |-> [r \in Role |-> NoLevel]]

AccessTypeOK ==
    /\ rows \in [Folder -> [Role -> AssignmentRow \cup {NoRow}]]
    /\ exceptions \subseteq Exception
    /\ actual \subseteq FolderPermission
    /\ scan \in Scan
    /\ report \in Report

Assigned(f) == {r \in Role : rows[f][r].level # NoLevel}
Rows == {p \in Folder \X Role : p[2] \in Assigned(p[1])}

AccessInit ==
    /\ rows \in [Folder -> [Role -> [level : Level, broken : {FALSE},
                                     source : {"manual", "cascaded"}]
                                    \cup {NoRow}]]
    /\ Cardinality(Rows) <= MaxRows
    /\ exceptions = Exception
    /\ actual = {}
    /\ scan = NotScanning
    /\ report = NoReport

-----------------------------------------------------------------------------
\* PermissionEngine.

\* get_user_roles
RolesOf(u) == {r \in Role : GroupsOf[r] \cap MemberOf[u] # {}}

\* apply_segregation_rules: nothing at all, or only read.
Excluded(f, r) ==
    \/ TypeOf[f] = "financial" /\ r \notin Finance
    \/ TypeOf[f] = "neu_only" /\ r \notin Neu
    \/ TypeOf[f] = "partner_specific" /\ r \notin Neu \cup PartnerAdmin
ReadOnly(f) == TypeOf[f] = "final"

\* get_base_permissions
Base(f, r) == {l \in Level : [role |-> r, type |-> TypeOf[f], level |-> l] \in Rule}

\* check_exceptions: the first that has not expired, in no order.
Excepted(f, r) == {e \in exceptions : e.folder = f /\ e.role = r}

\* calculate_effective_permissions for one role: an exception decides, then
\* segregation, then the rules.
Calculated(f, r) ==
    CASE Excepted(f, r) # {} -> {(CHOOSE e \in Excepted(f, r) : TRUE).level}
      [] Excepted(f, r) = {} /\ Excluded(f, r) -> {}
      [] Excepted(f, r) = {} /\ ~Excluded(f, r) /\ ReadOnly(f) -> {ReadLevel}
      [] OTHER -> Base(f, r)

-----------------------------------------------------------------------------
\* InheritanceService.

Own(f, r) == {rows[f][r].level} \ {NoLevel}
IsCut(f) == \E r \in Assigned(f) : rows[f][r].broken

\* Mutant of PassesOn: a cut is not noticed.
PassesOnAll(f) == TRUE

\* A folder hands down what it inherits itself unless one of its rows is cut.
PassesOn(f) == ~IsCut(f)

\* get_inherited_permissions
Inherited[f \in Folder] ==
    [r \in Role |->
        IF f = 1 THEN {}
        ELSE Own(f - 1, r) \cup (IF PassesOn(f - 1) THEN Inherited[f - 1][r]
                                                    ELSE {})]

\* should_break_inheritance: a pattern anywhere in the path, or CEG_ at its end.
Breaks(f) == (\E g \in 1..f : g \in Sensitive) \/ (f > 1 /\ f \in CegNamed)

\* apply_inheritance of what was calculated for a user: it adds what the folder
\* inherits for every role, also for those the user does not have.
Access(u, f, r) ==
    (IF r \in RolesOf(u) THEN Calculated(f, r) ELSE {})
    \cup (IF Breaks(f) THEN {} ELSE Inherited[f][r])

\* resolve_permission_conflicts: the highest level of the hierarchy.
Resolved(u, f, r) ==
    IF Access(u, f, r) = {} THEN NoLevel
    ELSE CHOOSE l \in Access(u, f, r) : \A m \in Access(u, f, r) : m <= l

\* get_inheritance_chain: the folders an audit lists for f.
Chain[f \in 0..Depth] ==
    IF f = 0 THEN {}
    ELSE {f} \cup (IF IsCut(f) THEN {} ELSE Chain[f - 1])

Cut(row) == IF row = NoRow THEN row ELSE [row EXCEPT !.broken = TRUE]

\* Mutant of Joined: the row is emptied, not deleted.
JoinedEmpty(row) ==
    IF row.source = "cascaded" THEN [row EXCEPT !.level = NoLevel]
                               ELSE [row EXCEPT !.broken = FALSE]

\* Rows that came from above are deleted, the others joined again.
Joined(row) == IF row.source = "cascaded" THEN NoRow
                                          ELSE [row EXCEPT !.broken = FALSE]

BreakInheritance(f) ==
    /\ Assigned(f) # {}
    /\ rows' = [rows EXCEPT ![f] = [r \in Role |-> Cut(rows[f][r])]]
    /\ UNCHANGED <<exceptions, actual, scan, report>>

\* restore_inheritance; the cascade from the parent that follows finds no
\* children (_get_child_folders is a stub) and writes nothing.
RestoreInheritance(f) ==
    /\ Assigned(f) # {}
    /\ rows' = [rows EXCEPT ![f] = [r \in Role |-> Joined(rows[f][r])]]
    /\ UNCHANGED <<exceptions, actual, scan, report>>

ExceptionExpires(e) ==
    /\ exceptions' = exceptions \ {e}
    /\ UNCHANGED <<rows, actual, scan, report>>

-----------------------------------------------------------------------------
\* ReconciliationService.

\* get_desired_permissions
Desired == [r \in Role |-> rows[Scanned][r].level]

\* compare_permissions reads the desired levels, then asks Graph.
BeginScan ==
    /\ scan.pc = "idle" /\ report = NoReport
    /\ scan' = [pc |-> "waiting", desired |-> Desired]
    /\ UNCHANGED <<rows, exceptions, actual, report>>

\* Permissions get_actual_permissions takes note of: of a group or a user, with
\* a role the mapping knows.
Readable(permissions) == {p \in permissions : p.who \in Group /\ p.level # NoLevel}

\* The level it keeps for a principal: that of its last permission in the list.
Kept(page, g) ==
    LET levels == {p.level : p \in {q \in Readable(page) : q.who = g}} IN
    IF levels = {} THEN {NoLevel} ELSE levels

\* The role's level in SharePoint: that of some group of the role that has
\* one, the first in the order of the mapping.
Found(found, r) ==
    LET groups == {g \in GroupsOf[r] : found[g] # NoLevel} IN
    IF groups = {} THEN {NoLevel} ELSE {found[g] : g \in groups}

\* Mutant of Action: a role that has some level needs none.
ActionMissing(desired, level) == IF level = NoLevel THEN "grant" ELSE "none"

\* What a role's drift asks for.
Action(desired, level) ==
    IF level = desired THEN "none" ELSE IF level = NoLevel THEN "grant" ELSE "update"

\* The drifts of the roles that have an assignment.
Drifts(level) ==
    {[role |-> r, desired |-> scan.desired[r], found |-> level[r],
      action |-> Action(scan.desired[r], level[r])] :
        r \in {s \in Role : /\ scan.desired[s] # NoLevel
                            /\ Action(scan.desired[s], level[s]) # "none"}}

\* Groups that no role with an assignment accounts for.  The code's entry
\* names the role NEU_Admin for each of them, whoever it is.
Unaccounted(found) ==
    {g \in Group : /\ found[g] # NoLevel
                   /\ \A r \in Role : g \in GroupsOf[r]
                                      => scan.desired[r] = NoLevel}

Compares(page) ==
    /\ scan.pc = "waiting"
    /\ scan' = NotScanning
    /\ UNCHANGED <<rows, exceptions, actual>>
    /\ \E found \in [Group -> Level \cup {NoLevel}], level \in Levels :
          /\ \A g \in Group : found[g] \in Kept(page, g)
          /\ \A r \in Role : level[r] \in Found(found, r)
          /\ report' = [drifts |-> Drifts(level),
                        revokes |-> Cardinality(Unaccounted(found))]

\* get_actual_permissions, which reads the first page of the list and does not
\* follow its nextLink.  A call that raises, a folder that is not there and a
\* missing client all answer "nobody".
GraphAnswers == \E page \in SUBSET actual : Compares(page)
GraphFails == Compares({})

\* create_remediation_tasks and apply_remediation of each task: logged as
\* "success", with _grant, _update and _revoke_permission empty.
Remediate ==
    /\ report # NoReport
    /\ report' = NoReport
    /\ UNCHANGED <<rows, exceptions, actual, scan>>

\* Somebody changes the folder in SharePoint.
SharePointGrants(p) ==
    /\ Cardinality(actual) < MaxPermissions
    /\ actual' = actual \cup {p}
    /\ UNCHANGED <<rows, exceptions, scan, report>>
SharePointRevokes(p) ==
    /\ actual' = actual \ {p}
    /\ UNCHANGED <<rows, exceptions, scan, report>>

AccessNext ==
    \/ \E f \in Folder : BreakInheritance(f) \/ RestoreInheritance(f)
    \/ \E e \in exceptions : ExceptionExpires(e)
    \/ BeginScan \/ GraphAnswers \/ GraphFails \/ Remediate
    \/ \E p \in FolderPermission : SharePointGrants(p)
    \/ \E p \in actual : SharePointRevokes(p)

AccessSpec == AccessInit /\ [][AccessNext]_accessVars

-----------------------------------------------------------------------------
\* Properties.

\* Whatever a user has on a folder, in any role, is calculated for a role of
\* the user or is a row of a folder above with no cut folder in between; if the
\* folder itself is not cut, its audit chain lists where the level stands.
\* However often folders are cut and restored, nothing crosses a cut.
NothingCrossesACut ==
    \A u \in User, f \in Folder, r \in Role : \A l \in Access(u, f, r) :
        \/ r \in RolesOf(u) /\ l \in Calculated(f, r)
        \/ \E g \in 1..(f - 1) :
              /\ l \in Own(g, r)
              /\ \A h \in (g + 1)..(f - 1) : ~IsCut(h)
              /\ IsCut(f) \/ g \in Chain[f]

\* "Break inheritance for a specific folder": what stands on a cut folder was
\* calculated for it.  The code asks the parent whether it is cut, not the
\* folder.
CutKeepsOut ==
    \A u \in User, f \in Folder, r \in Role :
        IsCut(f) => Access(u, f, r) \subseteq Calculated(f, r)

\* "Special folders have hardcoded restrictions": a role that is kept from a
\* type of folder has nothing there unless an exception says so.  Inherited
\* levels are added after the restriction.
SegregationHolds ==
    \A u \in User, f \in Folder, r \in Role :
        Excepted(f, r) = {} /\ Excluded(f, r) => Resolved(u, f, r) = NoLevel

Clean == report'.drifts = {} /\ report'.revokes = 0

\* Every assigned role has its level through a permission of one of its groups,
\* and whoever has a permission belongs to an assigned role.
Covered(permissions) ==
    /\ \A r \in Role : Desired[r] # NoLevel =>
          \E p \in permissions : p.who \in GroupsOf[r] /\ p.level = Desired[r]
    /\ \A p \in permissions :
          \E r \in Role : p.who \in GroupsOf[r] /\ Desired[r] # NoLevel

Unambiguous(permissions) ==
    \A r \in Role : \A p \in permissions :
        Desired[r] # NoLevel /\ p.who \in GroupsOf[r] => p.level = Desired[r]

\* A scan that found the assignments as they still are reports no drift only if
\* what it reads of the first page covers them, and it does report none then
\* unless the groups of a role have another level besides.  It does not read
\* all permissions.
CleanMeansCovered ==
    [][scan.desired = Desired =>
          \A page \in SUBSET actual : Compares(page) =>
              /\ Clean => Covered(Readable(page))
              /\ Covered(Readable(page)) /\ Unambiguous(Readable(page)) => Clean]_accessVars

\* "Reconciliation service compares desired vs actual SharePoint permissions":
\* with no drift, everybody on the folder is of a role that is assigned just
\* that.
CleanMeansInSync ==
    [][GraphAnswers /\ scan.desired = Desired /\ Clean
       => \A p \in actual : \E r \in Role :
             p.who \in GroupsOf[r] /\ p.level = Desired[r]]_accessVars
=============================================================================
