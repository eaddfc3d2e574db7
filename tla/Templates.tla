------------------------------ MODULE Templates ------------------------------
(***************************************************************************)
(* Folder templates and their published versions.  A request loads a       *)
(* template, for a publication or a rollback then the latest version, and  *)
(* commits the columns that differ from what it loaded.  One API process   *)
(* runs these handlers one after the other (one Session); several          *)
(* processes interleave them.                                              *)
(*                                                                         *)
(* delete_template keeps the row and clears is_active, by which nothing    *)
(* but the listing selects.                                                *)
(***************************************************************************)
EXTENDS Naturals, FiniteSets

CONSTANTS
    Session,       \* concurrent requests
    Name,          \* template names
    Content,       \* folder structures
    Valid,         \* those _validate_template_fields accepts
    MaxTemplates,  \* bound: folder_template rows
    MaxVersions    \* bound: folder_template_version rows

ASSUME TemplatesAssumption ==
    /\ Valid \subseteq Content
    /\ MaxTemplates \in Nat /\ MaxVersions \in Nat

VARIABLES
    templates,  \* folder_template rows by id
    versions,   \* folder_template_version rows in the order of created_at
    req,        \* what each request is doing and what it loaded
    raced       \* requests that wrote a template between another's read and write:
                \* none, publications and rollbacks, or also an update

templatesVars == <<templates, versions, req, raced>>

Id == 1..MaxTemplates
Version == 1..MaxVersions
NoVersion == 0
VersionType == {"major", "minor", "patch"}
Number == Nat \X Nat \X Nat
First == <<1, 0, 0>>

NoTemplate == [status |-> "none"]
NoSnapshot == [template |-> 0]
FolderTemplate ==
    LET Row(status, current, parent) ==
          [status : {status}, name : Name, version : Nat \ {0},
           version_number : Number, content : Content, is_current : current,
           is_active : BOOLEAN, parent_version : parent]
    IN  Row("draft", {FALSE}, {NoVersion}) \cup Row("published", BOOLEAN, Version)
Snapshot == [template : Id, version : Number, content : Content,
             parent : 0..MaxVersions]
Operation == {"update", "copy", "delete", "publish", "roll back"}
Idle == [op |-> "idle"]
TemplateRequest ==
    [op : Operation, template : Id,
     loaded : FolderTemplate, target : 0..MaxVersions]
    \cup
    [op : {"publish", "roll back"}, template : Id, loaded : FolderTemplate,
     target : 0..MaxVersions, latest : 0..MaxVersions]

TemplatesTypeOK ==
    /\ templates \in [Id -> FolderTemplate \cup {NoTemplate}]
    /\ versions \in [Version -> Snapshot \cup {NoSnapshot}]
    /\ req \in [Session -> TemplateRequest \cup {Idle}]
    /\ raced \in [Id -> {"none", "release", "edit"}]

TemplatesInit ==
    /\ templates = [t \in Id |-> NoTemplate]
    /\ versions = [v \in Version |-> NoSnapshot]
    /\ req = [s \in Session |-> Idle]
    /\ raced = [t \in Id |-> "none"]

Existing == {t \in Id : templates[t].status # "none"}
Taken == {v \in Version : versions[v].template # 0}
VersionsOf(t) == {v \in Taken : versions[v].template = t}
Published(t) == templates[t].status = "published"
Last(vs) == CHOOSE v \in vs : \A w \in vs : w <= v

Busy(s, op) == req[s].op = op
On(s, t) == ~Busy(s, "idle") /\ req[s].template = t

\* The requests that will write t, and what a further one makes of its history.
Deactivating == {"copy", "delete"}
Writing(t) == {req[s].op : s \in {r \in Session : On(r, t)}} \ Deactivating
Race(before, op, others) ==
    IF others = {} \/ op \in Deactivating THEN before
    ELSE IF "update" \in others \cup {op} THEN "edit"
    ELSE IF before = "edit" THEN before ELSE "release"

Load(s, t, op, target) ==
    /\ Busy(s, "idle")
    /\ t \in Existing
    /\ req' = [req EXCEPT ![s] = [op |-> op, template |-> t, target |-> target,
                                  loaded |-> templates[t]]]
    /\ raced' = [raced EXCEPT ![t] = Race(@, op, Writing(t))]
    /\ UNCHANGED <<templates, versions>>

Done(s) == req' = [req EXCEPT ![s] = Idle]

\* A column is written when its new value differs from the loaded one.
Written(old, new, current) == IF new = old THEN current ELSE new

\* uq_template_name_version
Unique(t, name, number) ==
    \A u \in Existing \ {t} :
      <<templates[u].name, templates[u].version_number>> # <<name, number>>

NewRow(name, version, number, content, current) ==
    [status |-> "draft", name |-> name, version |-> version,
     version_number |-> number, content |-> content,
     is_current |-> current, is_active |-> TRUE, parent_version |-> NoVersion]

\* Mutant of DraftRow: a copy becomes the current template when it is made.
DraftRowCurrent(name, version, number, content) ==
    NewRow(name, version, number, content, version > 1)

DraftRow(name, version, number, content) ==
    NewRow(name, version, number, content, FALSE)

Draft(rows, name, version, number, content) ==
    LET t == Cardinality(Existing) + 1 IN
    /\ t \in Id
    /\ Unique(t, name, number)
    /\ templates' = [rows EXCEPT ![t] = DraftRow(name, version, number, content)]

-----------------------------------------------------------------------------
CreateTemplate(name, content) ==
    /\ Draft(templates, name, 1, First, content)
    /\ UNCHANGED <<versions, req, raced>>

\* Mutant of BeginUpdate: a published template can be modified.
BeginUpdatePublished(s, t) == Load(s, t, "update", NoVersion)

\* update_template: "Cannot modify published template".
BeginUpdate(s, t) == ~Published(t) /\ Load(s, t, "update", NoVersion)

Updated(s, name, content, active) ==
    LET t == req[s].template
        loaded == req[s].loaded
        renamed == Written(loaded.name, name, templates[t].name)
    IN
    /\ Busy(s, "update")
    /\ Unique(t, renamed, templates[t].version_number)
    /\ templates' = [templates EXCEPT
         ![t].name = renamed,
         ![t].content = Written(loaded.content, content, @),
         ![t].is_active = Written(loaded.is_active, active, @)]
    /\ Done(s)
    /\ UNCHANGED <<versions, raced>>

\* delete_template: "Cannot delete template with .. existing versions".  The
\* audit entry commits, so the row is read again before is_active is cleared.
BeginDelete(s, t) == VersionsOf(t) = {} /\ Load(s, t, "delete", NoVersion)
Deleted(s) ==
    /\ Busy(s, "delete")
    /\ templates' = [templates EXCEPT ![req[s].template].is_active = FALSE]
    /\ Done(s)
    /\ UNCHANGED <<versions, raced>>

\* create_version copies a template, whatever its status, as a new draft.
BeginCopy(s, t) == Load(s, t, "copy", NoVersion)
Deactivated(s) ==
    [templates EXCEPT ![req[s].template].is_active =
                        Written(req[s].loaded.is_active, FALSE, @)]
Copied(s) ==
    LET source == req[s].loaded IN
    /\ Busy(s, "copy")
    /\ Draft(Deactivated(s), source.name, source.version + 1,
             <<source.version + 1, 0, 0>>, source.content)
    /\ Done(s)
    /\ UNCHANGED <<versions, raced>>

-----------------------------------------------------------------------------
BeginPublish(s, t) ==
    /\ t \in Existing
    /\ ~Published(t)
    /\ templates[t].content \in Valid
    /\ Load(s, t, "publish", NoVersion)

\* rollback_to_version needs a version that is not the current one.
BeginRollback(s, t, target) ==
    /\ target \in VersionsOf(t)
    /\ versions[target].version # templates[t].version_number
    /\ Load(s, t, "roll back", target)

\* The latest version is read after the template.
ReadLatest(s) ==
    LET t == req[s].template IN
    /\ Busy(s, "publish") \/ Busy(s, "roll back")
    /\ "latest" \notin DOMAIN req[s]
    /\ req' = [req EXCEPT ![s] =
         [op |-> @.op, template |-> t, target |-> @.target, loaded |-> @.loaded,
          latest |-> IF VersionsOf(t) = {} THEN NoVersion
                                           ELSE Last(VersionsOf(t))]]
    /\ UNCHANGED <<templates, versions, raced>>

\* _increment_version
Increment(number, type) ==
    CASE type = "major" -> <<number[1] + 1, 0, 0>>
      [] type = "minor" -> <<number[1], number[2] + 1, 0>>
      [] type = "patch" -> <<number[1], number[2], number[3] + 1>>

NextNumber(latest, type) ==
    IF latest = NoVersion THEN First ELSE Increment(versions[latest].version, type)

\* Mutant of NotCurrent: only this template's flag is set.
NotCurrentOthers(t, name) == {}

\* The other templates of the name are marked as not current.
NotCurrent(t, name) == {u \in Existing \ {t} : templates[u].name = name}

\* The new version is inserted (uq_template_version) and becomes the template's.
\* Content is written by a rollback only.
Commit(s, number, snapshot, content) ==
    LET t == req[s].template
        loaded == req[s].loaded
        row == templates[t]
        v == Cardinality(Taken) + 1
        written == Written(loaded.version_number, number, row.version_number)
    IN
    /\ "latest" \in DOMAIN req[s]
    /\ v \in Version
    /\ \A w \in VersionsOf(t) : versions[w].version # number
    /\ Unique(t, row.name, written)
    /\ versions' = [versions EXCEPT ![v] =
         [template |-> t, version |-> number, content |-> snapshot,
          parent |-> req[s].latest]]
    /\ templates' = [u \in Id |->
         IF u = t
         THEN [row EXCEPT !.status = Written(loaded.status, "published", @),
                          !.version_number = written, !.parent_version = v,
                          !.is_current = Written(loaded.is_current, TRUE, @),
                          !.content = Written(loaded.content, content, @)]
         ELSE IF u \in NotCurrent(t, loaded.name)
              THEN [templates[u] EXCEPT !.is_current = FALSE]
              ELSE templates[u]]
    /\ Done(s)
    /\ UNCHANGED raced

PublishTemplate(s, type) ==
    /\ Busy(s, "publish")
    /\ "latest" \in DOMAIN req[s]
    /\ Commit(s, NextNumber(req[s].latest, type), req[s].loaded.content,
              req[s].loaded.content)

RollBack(s) ==
    /\ Busy(s, "roll back")
    /\ "latest" \in DOMAIN req[s]
    /\ LET old == versions[req[s].target].content
       IN  Commit(s, Increment(versions[req[s].latest].version, "patch"), old, old)

\* The database refuses a number that is taken, or fails.
Fails(s) ==
    /\ ~Busy(s, "idle")
    /\ Done(s)
    /\ UNCHANGED <<templates, versions, raced>>

-----------------------------------------------------------------------------
\* The endpoints, each with the steps of its service.
UpdateTemplate(s) ==
    \/ \E t \in Id : BeginUpdate(s, t)
    \/ \E name \in Name, content \in Content, active \in BOOLEAN :
          Updated(s, name, content, active)
CreateTemplateVersion(s) == (\E t \in Id : BeginCopy(s, t)) \/ Copied(s)
DeleteTemplate(s) == (\E t \in Id : BeginDelete(s, t)) \/ Deleted(s)
Publish(s) ==
    \/ \E t \in Id : BeginPublish(s, t)
    \/ \E type \in VersionType : PublishTemplate(s, type)
RollbackTemplate(s) ==
    \/ \E t \in Id, target \in Version : BeginRollback(s, t, target)
    \/ RollBack(s)

TemplatesNext ==
    \/ \E name \in Name, content \in Content : CreateTemplate(name, content)
    \/ \E s \in Session :
          \/ UpdateTemplate(s) \/ CreateTemplateVersion(s) \/ DeleteTemplate(s)
          \/ Publish(s) \/ RollbackTemplate(s) \/ ReadLatest(s) \/ Fails(s)

TemplatesSpec == TemplatesInit /\ [][TemplatesNext]_templatesVars

-----------------------------------------------------------------------------
\* Properties.

\* The content and number of a published template are those of the version it
\* names, unless requests on it overlapped: no sequence of updates, copies,
\* publications and rollbacks changes what was published.
PublishedIsSnapshot ==
    \A t \in Existing :
      Published(t) /\ raced[t] = "none" =>
        LET v == versions[templates[t].parent_version]
        IN  /\ v.template = t
            /\ v.version = templates[t].version_number
            /\ v.content = templates[t].content

\* However publications and rollbacks overlap, at most one template of a name
\* is current; only a rename that overlaps the publication of the same template
\* escapes NotCurrent.
OneCurrent ==
    \A t, u \in Existing :
      /\ templates[t].is_current /\ templates[u].is_current
      /\ templates[t].name = templates[u].name
      /\ raced[t] # "edit" /\ raced[u] # "edit"
      => t = u

\* "Create a new draft version instead.": the draft that create_version makes of
\* a published template can be published.  It cannot under that template's name:
\* its first version is 1.0.0 again (TemplatesDraft.cfg).
DraftPublishable ==
    \A t, u \in Existing :
      /\ Published(u) /\ templates[u].name = templates[t].name
      /\ ~Published(t) /\ VersionsOf(t) = {}
      => templates[u].version_number # First
=============================================================================
