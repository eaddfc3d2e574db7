------------------------------- MODULE LockRules -------------------------------
(***************************************************************************)
(* The time-based lock rules of one order.  A rule is a row of lock_rule:  *)
(* a window of days around a T date of its own; its window type and        *)
(* permission are left to LockPipeline.                                    *)
(*                                                                         *)
(* LockRuleService creates rules one by one, three at a time (the standard *)
(* windows) or from a template, and updates and deletes them; its check    *)
(* compares offsets and leaves the T dates out.  The evaluator picks the   *)
(* rule in force on a day, of several the one with the smallest start      *)
(* offset, and a worker writes its id into the folder's row, whose foreign *)
(* key then protects the rule.                                             *)
(*                                                                         *)
(* The endpoints are plain functions that run in a pool of threads, each   *)
(* with its own session: every query and every commit is a step, and the   *)
(* check for overlapping windows is one step, the write it allows another. *)
(***************************************************************************)
EXTENDS Integers, FiniteSets, Sequences

CONSTANTS
    Request,    \* concurrent requests
    Rule,       \* bound: ids of rules ever created
    None,       \* no rule
    Offset,     \* bound: offsets in days from T
    TValue,     \* bound: T dates, as days
    MaxUpdates, \* bound: update requests
    Standard    \* the windows of a template and of the standard request

Window == [first : Offset, last : Offset]

ASSUME ParameterAssumption ==
    /\ None \notin Rule /\ None \notin Offset /\ None \notin BOOLEAN
    /\ None \notin TValue /\ TValue \subseteq Int /\ Offset \subseteq Int
    /\ MaxUpdates \in Nat
    /\ Standard \in Seq(Window) \ {<<>>}

VARIABLES
    rule,       \* the lock_rule rows
    request,    \* what each request is doing
    note,       \* the rule of the queued transition
    folder,     \* locked_by_rule_id of the folder's row
    updates,    \* update requests so far
    unchecked   \* some window was written without a check that still held

vars == <<rule, request, note, folder, updates, unchecked>>

Unused == [state |-> "unused"]
Deleted == [state |-> "deleted"]
Row == [state : {"row"}, t_value : TValue, first : Offset, last : Offset,
        active : BOOLEAN]

Idle == [op |-> "idle"]
Creation == [op : {"create", "template"}, step : {"check", "insert", "undo"},
             t_value : TValue, left : Seq(Window) \ {<<>>}, made : SUBSET Rule,
             stale : BOOLEAN]
Columns == [t_value : TValue \cup {None}, first : Offset \cup {None},
            last : Offset \cup {None}, active : BOOLEAN \cup {None}]
Change == [op : {"update"}, id : Rule, set : Columns, checked : BOOLEAN,
           stale : BOOLEAN]

TypeOK ==
    /\ rule \in [Rule -> {Unused, Deleted} \cup Row]
    /\ request \in [Request -> {Idle} \cup Creation \cup Change]
    /\ note \in Rule \cup {None}
    /\ folder \in Rule \cup {None}
    /\ updates \in 0..MaxUpdates
    /\ unchecked \in BOOLEAN

-----------------------------------------------------------------------------
Live(i) == rule[i].state = "row"
Active == {i \in Rule : Live(i) /\ rule[i].active}
Overlap(v, w) == v.first <= w.last /\ v.last >= w.first

\* Mutant of Overlaps: the last day of a window is taken for a free one.
OverlapsInside(w, others) ==
    \E i \in others \cap Active : w.first < rule[i].last /\ w.last > rule[i].first

\* validate_non_overlapping_windows compares offsets only: t_value is an
\* argument it does not look at.
Overlaps(w, others) == \E i \in others \cap Active : Overlap(w, rule[i])

\* evaluate_current_time_against_rules on day d: the active rules whose
\* window holds the day, its last day included; of them one whose start_offset
\* is smallest.
Day == {t + o : t \in TValue, o \in Offset}
InForce(d) == {i \in Active : /\ rule[i].t_value + rule[i].first <= d
                             /\ d <= rule[i].t_value + rule[i].last}
Chosen(d) == {i \in InForce(d) : \A j \in InForce(d) :
                                     rule[i].first <= rule[j].first}

Init ==
    /\ rule = [i \in Rule |-> Unused]
    /\ request = [r \in Request |-> Idle]
    /\ note = None
    /\ folder = None
    /\ updates = 0
    /\ unchecked = FALSE

\* A write of a window makes the checks of the other requests stale.
Outdate(f, r) ==
    [q \in Request |-> IF q # r /\ f[q].op # "idle"
                       THEN [f[q] EXCEPT !.stale = TRUE] ELSE f[q]]

RulesUnchanged == UNCHANGED <<rule, unchecked>>
LockUnchanged == UNCHANGED <<note, folder>>
OthersUnchanged == LockUnchanged /\ UNCHANGED updates

-----------------------------------------------------------------------------
\* A request that creates rules with one T date.
Begun(op, t, windows) ==
    [op |-> op, step |-> "check", t_value |-> t, left |-> windows,
     made |-> {}, stale |-> FALSE]

\* PUT /locks/rules/{em_id}.
BeginCreate(r, t, w) ==
    /\ request[r] = Idle
    /\ request' = [request EXCEPT ![r] = Begun("create", t, <<w>>)]
    /\ RulesUnchanged /\ OthersUnchanged

\* POST /locks/rules/{em_id}/standard: create_standard_lock_windows.
BeginStandard(r, t) ==
    /\ request[r] = Idle
    /\ request' = [request EXCEPT ![r] = Begun("create", t, Standard)]
    /\ RulesUnchanged /\ OthersUnchanged

\* create_rules_from_template, up to its loop.
BeginTemplate(r, t) ==
    /\ request[r] = Idle
    /\ request' = [request EXCEPT ![r] = Begun("template", t, Standard)]
    /\ RulesUnchanged /\ OthersUnchanged

\* The next step of a creation.
Creating(r, step, left, made) ==
    [op |-> request[r].op, step |-> step, t_value |-> request[r].t_value,
     left |-> left, made |-> made, stale |-> FALSE]

\* create_lock_rule asks for the active rules.  A conflict ends the request;
\* the rules it made before stay, unless it is a template's.
CheckWindow(r) ==
    /\ request[r].op \in {"create", "template"} /\ request[r].step = "check"
    /\ LET q == request[r]
           next == IF ~Overlaps(Head(q.left), Rule)
                   THEN Creating(r, "insert", q.left, q.made)
                   ELSE IF q.op = "template" THEN Creating(r, "undo", q.left, q.made)
                   ELSE Idle
       IN request' = [request EXCEPT ![r] = next]
    /\ RulesUnchanged /\ OthersUnchanged

NewRow(t, w) == [state |-> "row", t_value |-> t, first |-> w.first,
                 last |-> w.last, active |-> TRUE]

\* Mutant of InsertRule: one more turn of the loop after the last window.
InsertRuleOnceMore(r, i) ==
    /\ request[r].op \in {"create", "template"} /\ request[r].step = "insert"
    /\ rule[i] = Unused
    /\ LET q == request[r]
       IN /\ rule' = [rule EXCEPT ![i] = NewRow(q.t_value, Head(q.left))]
          /\ request' = [Outdate(request, r) EXCEPT
                            ![r] = Creating(r, "check", Tail(q.left), q.made \cup {i})]
          /\ unchecked' = (unchecked \/ q.stale)
    /\ OthersUnchanged

\* ... and commits the new row.
InsertRule(r, i) ==
    /\ request[r].op \in {"create", "template"} /\ request[r].step = "insert"
    /\ rule[i] = Unused
    /\ LET q == request[r]
           next == IF Tail(q.left) = <<>> THEN Idle
                   ELSE Creating(r, "check", Tail(q.left), q.made \cup {i})
       IN /\ rule' = [rule EXCEPT ![i] = NewRow(q.t_value, Head(q.left))]
          /\ request' = [Outdate(request, r) EXCEPT ![r] = next]
          /\ unchecked' = (unchecked \/ q.stale)
    /\ OthersUnchanged

\* The except clause of create_rules_from_template deletes what it made, in
\* one transaction.
Undo(r) ==
    /\ request[r].op = "template" /\ request[r].step = "undo"
    /\ folder \notin request[r].made
    /\ rule' = [i \in Rule |-> IF i \in request[r].made THEN Deleted ELSE rule[i]]
    /\ request' = [request EXCEPT ![r] = Idle]
    /\ UNCHANGED unchecked /\ OthersUnchanged

\* The delete raises: the folder's row refers to one of the rules, or one of
\* them is gone and has to be refreshed.  Nothing of the transaction stays.
UndoFails(r) ==
    /\ request[r].op = "template" /\ request[r].step = "undo"
    /\ folder \in request[r].made \/ \E i \in request[r].made : ~Live(i)
    /\ request' = [request EXCEPT ![r] = Idle]
    /\ RulesUnchanged /\ OthersUnchanged

-----------------------------------------------------------------------------
\* SQLAlchemy writes the columns that differ from what was loaded.
Changed(loaded, new) ==
    LET Diff(old, value) == IF value # old THEN value ELSE None
    IN [t_value |-> Diff(loaded.t_value, new.t_value),
        first |-> Diff(loaded.first, new.first), last |-> Diff(loaded.last, new.last),
        active |-> Diff(loaded.active, new.active)]
Written(now, set) ==
    LET Put(old, value) == IF value # None THEN value ELSE old
    IN [state |-> now.state, t_value |-> Put(now.t_value, set.t_value),
        first |-> Put(now.first, set.first), last |-> Put(now.last, set.last),
        active |-> Put(now.active, set.active)]

\* PATCH /locks/rules/{rule_id}: update_lock_rule loads the row and, only if
\* an offset is among the changes, checks the new offsets: a new T date moves
\* the window unchecked.
BeginUpdate(r, i, new, offsets) ==
    /\ request[r] = Idle
    /\ Live(i)
    /\ new # rule[i]
    /\ IF offsets THEN ~Overlaps(new, Rule \ {i})
       ELSE new.first = rule[i].first /\ new.last = rule[i].last
    /\ request' = [request EXCEPT ![r] =
          [op |-> "update", id |-> i, set |-> Changed(rule[i], new),
           checked |-> offsets, stale |-> FALSE]]
    /\ updates < MaxUpdates /\ updates' = updates + 1
    /\ RulesUnchanged /\ LockUnchanged

\* The check is about the offsets of active rules.  The write changes those
\* unchecked if the check was stale, or if there was none and the rule becomes
\* active.
SameOffsets(v, w) == v.first = w.first /\ v.last = w.last /\ v.active = w.active

CommitUpdate(r) ==
    /\ request[r].op = "update"
    /\ Live(request[r].id)
    /\ LET i == request[r].id
           row == Written(rule[i], request[r].set)
           moves == ~SameOffsets(row, rule[i])
           valid == request[r].checked /\ ~request[r].stale
       IN /\ rule' = [rule EXCEPT ![i] = row]
          /\ unchecked' = (unchecked \/ (moves /\ row.active /\ ~valid))
          /\ request' = [(IF moves THEN Outdate(request, r) ELSE request)
                            EXCEPT ![r] = Idle]
    /\ OthersUnchanged

\* The row was deleted meanwhile: the UPDATE matches nothing and raises.
UpdateFails(r) ==
    /\ request[r].op = "update"
    /\ ~Live(request[r].id)
    /\ request' = [request EXCEPT ![r] = Idle]
    /\ RulesUnchanged /\ OthersUnchanged

\* DELETE /locks/rules/{rule_id}; the foreign key of the folder's row refuses
\* the rule that was applied last.
DeleteRule(i) ==
    /\ Live(i)
    /\ folder # i
    /\ rule' = [rule EXCEPT ![i] = Deleted]
    /\ UNCHANGED <<request, unchecked>> /\ OthersUnchanged

\* The process dies inside a request.
Dies(r) ==
    /\ request[r] # Idle
    /\ request' = [request EXCEPT ![r] = Idle]
    /\ RulesUnchanged /\ OthersUnchanged

-----------------------------------------------------------------------------
\* determine_required_transitions queues a transition to the rule in force if
\* its setting is not the folder's, as it may be when the folder's row was
\* written for another rule.
Evaluate(i, d) ==
    /\ note = None
    /\ i \in Chosen(d)
    /\ folder # i
    /\ note' = i
    /\ UNCHANGED <<rule, request, folder, updates, unchecked>>

\* apply_transition writes the rule that was evaluated; the foreign keys of
\* the row and of its log refuse it when the rule is gone.
Apply ==
    /\ note # None
    /\ folder' = IF Live(note) THEN note ELSE folder
    /\ note' = None
    /\ UNCHANGED <<rule, request, updates, unchecked>>

CreateLockRule(r) == CheckWindow(r) \/ \E i \in Rule : InsertRule(r, i)
ConfigureLockRules(r) ==
    (\E t \in TValue, w \in Window : BeginCreate(r, t, w)) \/ CreateLockRule(r)
CreateStandardLockWindows(r) ==
    (\E t \in TValue : BeginStandard(r, t)) \/ CreateLockRule(r)
CreateRulesFromTemplate(r) ==
    \/ \E t \in TValue : BeginTemplate(r, t)
    \/ CreateLockRule(r) \/ Undo(r) \/ UndoFails(r)
UpdateLockRule(r) ==
    \/ \E i \in Rule, new \in Row, offsets \in BOOLEAN :
          BeginUpdate(r, i, new, offsets)
    \/ CommitUpdate(r) \/ UpdateFails(r)
DeleteLockRule == \E i \in Rule : DeleteRule(i)

Next ==
    \/ \E r \in Request :
          \/ ConfigureLockRules(r) \/ CreateStandardLockWindows(r)
          \/ CreateRulesFromTemplate(r) \/ UpdateLockRule(r) \/ Dies(r)
    \/ DeleteLockRule
    \/ \E i \in Rule, d \in Day : Evaluate(i, d)
    \/ Apply

Spec == Init /\ [][Next]_vars

-----------------------------------------------------------------------------
\* Of the rules with one T date at most one is in force on any day, also when
\* rules are moved to another T date, unless a request wrote a window whose
\* check another request had outdated, or re-activated a rule without giving an
\* offset.
OneRuleInForce ==
    ~unchecked =>
      \A d \in Day, t \in TValue :
        Cardinality({i \in InForce(d) : rule[i].t_value = t}) <= 1

\* "Validate that lock windows don't overlap for the same order/EM": at most
\* one rule of the order is in force on any day.
OneRuleOfOrder == ~unchecked => \A d \in Day : Cardinality(InForce(d)) <= 1
=============================================================================
