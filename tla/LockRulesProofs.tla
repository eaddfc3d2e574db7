---------------------------- MODULE LockRulesProofs ----------------------------
(***************************************************************************)
(* Proofs about LockRules, for any rules, requests, T dates, offsets and   *)
(* standard windows: its type invariant, and that of the rules with one T  *)
(* date at most one is in force on a day as long as every window was       *)
(* written under a check that still held.                                  *)
(***************************************************************************)
EXTENDS LockRules, FiniteSetTheorems, TLAPS

Rules == [Rule -> {Unused, Deleted} \cup Row]
Requests == [Request -> {Idle} \cup Creation \cup Change]
Making == {"create", "template"}

\* Live and Active for any rules f.
IsRow(f, i) == f[i].state = "row"
ActiveIn(f) == {i \in Rule : IsRow(f, i) /\ f[i].active}

\* The active rules of f are apart, and so is the window that request x has
\* checked and not yet written.
Apart(f) == \A i, j \in ActiveIn(f) : i # j => ~Overlap(f[i], f[j])
InsertApart(x, f) ==
    x.op \in Making /\ x.step = "insert" /\ ~x.stale
      => \A j \in ActiveIn(f) : ~Overlap(Head(x.left), f[j])
UpdateApart(x, f) ==
    x.op = "update" /\ x.checked /\ ~x.stale /\ IsRow(f, x.id)
      => \A j \in ActiveIn(f) \ {x.id} : ~Overlap(Written(f[x.id], x.set), f[j])

\* The check compares the offsets of active rules, whatever their T dates are.
SameWindow(v, w) == v = w \/ (v \in Row /\ w \in Row /\ SameOffsets(v, w))
Kept(x, f) == InsertApart(x, f) /\ UpdateApart(x, f)
ApartInv == ~unchecked => Apart(rule) /\ \A r \in Request : Kept(request[r], rule)

-----------------------------------------------------------------------------
\* What a request at work has.
LEMMA RequestKinds ==
    ASSUME NEW x \in {Idle} \cup Creation \cup Change
    PROVE  /\ x.op \in Making => x \in Creation
           /\ x.op = "update" => x \in Change
           /\ x.op = "idle" => x = Idle
           /\ x.op \in {"idle", "update"} \cup Making
  BY DEF Creation, Change, Idle, Making

\* A stale request is what it was otherwise.
LEMMA Staled ==
    ASSUME NEW x \in Creation \cup Change
    PROVE  /\ [x EXCEPT !.stale = TRUE] \in Creation \cup Change
           /\ [x EXCEPT !.stale = TRUE].op = x.op
           /\ [x EXCEPT !.stale = TRUE].stale
  BY DEF Creation, Change

\* Outdate makes every other request stale.
LEMMA OthersStale ==
    ASSUME NEW f \in Requests, NEW r \in Request
    PROVE  /\ Outdate(f, r) \in Requests
           /\ \A q \in Request \ {r} :
                Outdate(f, r)[q].op # "idle" => Outdate(f, r)[q].stale
  <1>1. ASSUME NEW q \in Request, f[q].op # "idle"
        PROVE  f[q] \in Creation \cup Change
    BY <1>1 DEF Requests, Idle
  <1>2. ASSUME NEW q \in Request, f[q].op # "idle"
        PROVE  /\ [f[q] EXCEPT !.stale = TRUE] \in Creation \cup Change
               /\ [f[q] EXCEPT !.stale = TRUE].stale
    BY <1>1, <1>2, Staled
  <1>3. QED
    BY <1>2 DEF Outdate, Requests

\* The row an update writes.
LEMMA WrittenRow ==
    ASSUME NEW row \in Row, NEW set \in Columns
    PROVE  Written(row, set) \in Row
  BY DEF Written, Row, Columns

\* What an update carries, written on the row it was made from.
LEMMA ChangedColumns ==
    ASSUME NEW row \in Row, NEW new \in Row
    PROVE  /\ Changed(row, new) \in Columns
           /\ Written(row, Changed(row, new)).first = new.first
           /\ Written(row, Changed(row, new)).last = new.last
  BY ParameterAssumption DEF Changed, Written, Row, Columns

\* A creation's next step.
LEMMA CreatingType ==
    ASSUME NEW r \in Request, request[r] \in Creation, NEW step \in {"check", "insert", "undo"},
           NEW left \in Seq(Window) \ {<<>>}, NEW made \in SUBSET Rule
    PROVE  Creating(r, step, left, made) \in Creation
  BY DEF Creating, Creation, Making

-----------------------------------------------------------------------------
\* The initial states have the type.
LEMMA InitType == Init => TypeOK
  <1>1. 0 \in 0..MaxUpdates
    BY ParameterAssumption
  <1>2. QED
    BY <1>1 DEF Init, TypeOK

\* The steps of a creation keep the type.
LEMMA CreationType ==
    ASSUME TypeOK, NEW r \in Request,
           \/ \E t \in TValue, w \in Window : BeginCreate(r, t, w)
           \/ \E t \in TValue : BeginStandard(r, t) \/ BeginTemplate(r, t)
           \/ CheckWindow(r)
           \/ \E i \in Rule : InsertRule(r, i)
           \/ Undo(r) \/ UndoFails(r)
    PROVE  TypeOK'
  <1> USE DEF RulesUnchanged, LockUnchanged, OthersUnchanged
  <1>0. request \in Requests /\ rule \in Rules
    BY DEF TypeOK, Requests, Rules
  <1>1. ASSUME NEW x \in {Idle} \cup Creation \cup Change, request' = [request EXCEPT ![r] = x],
               rule' \in Rules, unchecked' \in BOOLEAN, OthersUnchanged
        PROVE  TypeOK'
    BY <1>0, <1>1 DEF TypeOK, Requests, Rules
  <1>2. ASSUME NEW op \in Making, NEW t \in TValue, NEW left \in Seq(Window) \ {<<>>},
               request' = [request EXCEPT ![r] = Begun(op, t, left)],
               RulesUnchanged, OthersUnchanged
        PROVE  TypeOK'
    <2>1. Begun(op, t, left) \in Creation
      BY <1>2 DEF Begun, Creation, Making
    <2>2. QED
      BY <1>0, <1>1, <1>2, <2>1 DEF TypeOK
  <1>3. ASSUME NEW t \in TValue, NEW w \in Window, BeginCreate(r, t, w) PROVE TypeOK'
    <2>1. <<w>> \in Seq(Window) \ {<<>>}
      OBVIOUS
    <2>2. QED
      BY <1>2, <1>3, <2>1 DEF BeginCreate, Making
  <1>4. ASSUME NEW t \in TValue, BeginStandard(r, t) \/ BeginTemplate(r, t) PROVE TypeOK'
    BY <1>2, <1>4, ParameterAssumption DEF BeginStandard, BeginTemplate, Making
  <1>5. request[r].op \in Making => request[r] \in Creation
    BY <1>0, RequestKinds DEF Requests
  <1>6. CASE CheckWindow(r)
    <2>1. request[r] \in Creation /\ request[r].op \in Making
      BY <1>5, <1>6 DEF CheckWindow, Making
    <2>2. request[r].left \in Seq(Window) \ {<<>>} /\ request[r].made \in SUBSET Rule
      BY <2>1 DEF Creation
    <2>3. /\ Creating(r, "insert", request[r].left, request[r].made) \in Creation
          /\ Creating(r, "undo", request[r].left, request[r].made) \in Creation
      BY <2>1, <2>2, CreatingType
    <2>4. QED
      BY <1>0, <1>1, <1>6, <2>3 DEF CheckWindow, TypeOK
  <1>7. ASSUME NEW i \in Rule, InsertRule(r, i) PROVE TypeOK'
    <2>1. request[r] \in Creation /\ request[r].op \in Making
      BY <1>5, <1>7 DEF InsertRule, Making
    <2>2. request[r].left \in Seq(Window) \ {<<>>} /\ request[r].made \cup {i} \in SUBSET Rule
          /\ request[r].stale \in BOOLEAN /\ request[r].t_value \in TValue
      BY <2>1 DEF Creation
    <2>3. Head(request[r].left) \in Window /\ Tail(request[r].left) \in Seq(Window)
      BY <2>2
    <2>4. NewRow(request[r].t_value, Head(request[r].left)) \in Row
      BY <2>2, <2>3 DEF NewRow, Row, Window
    <2>5. rule' \in Rules
      BY <1>0, <1>7, <2>4 DEF InsertRule, Rules
    <2>6. PICK x \in {Idle} \cup Creation : request' = [Outdate(request, r) EXCEPT ![r] = x]
      <3>1. Tail(request[r].left) # <<>>
              => Creating(r, "check", Tail(request[r].left), request[r].made \cup {i}) \in Creation
        BY <2>1, <2>2, <2>3, CreatingType
      <3>2. QED
        BY <1>7, <3>1 DEF InsertRule
    <2>7. request' \in Requests
      BY <1>0, <2>6, OthersStale DEF Requests
    <2>8. unchecked' \in BOOLEAN
      BY <1>7, <2>2 DEF InsertRule, TypeOK
    <2>9. QED
      BY <1>7, <2>5, <2>7, <2>8 DEF InsertRule, TypeOK, Rules, Requests
  <1>8. CASE Undo(r)
    <2>1. rule' \in Rules
      BY <1>0, <1>8 DEF Undo, Rules
    <2>2. QED
      BY <1>1, <1>8, <2>1 DEF Undo, TypeOK
  <1>9. CASE UndoFails(r)
    BY <1>0, <1>1, <1>9 DEF UndoFails, TypeOK
  <1>10. QED
    BY <1>3, <1>4, <1>6, <1>7, <1>8, <1>9

\* The steps of an update keep the type.
LEMMA UpdateType ==
    ASSUME TypeOK, NEW r \in Request, UpdateLockRule(r)
    PROVE  TypeOK'
  <1> USE DEF RulesUnchanged, LockUnchanged, OthersUnchanged
  <1>0. request \in Requests /\ rule \in Rules
    BY DEF TypeOK, Requests, Rules
  <1>1. ASSUME NEW i \in Rule, NEW new \in Row, NEW offsets \in BOOLEAN,
               BeginUpdate(r, i, new, offsets)
        PROVE  TypeOK'
    <2>1. rule[i] \in Row
      BY <1>0, <1>1 DEF BeginUpdate, Live, Rules, Unused, Deleted
    <2>2. Changed(rule[i], new) \in Columns
      BY <2>1, ChangedColumns
    <2>3. [op |-> "update", id |-> i, set |-> Changed(rule[i], new),
           checked |-> offsets, stale |-> FALSE] \in Change
      BY <2>2 DEF Change
    <2>4. request' \in Requests
      BY <1>0, <1>1, <2>3 DEF BeginUpdate, Requests
    <2>5. updates' \in 0..MaxUpdates
      BY <1>1, ParameterAssumption DEF BeginUpdate, TypeOK
    <2>6. QED
      BY <1>1, <2>4, <2>5 DEF BeginUpdate, TypeOK, Requests
  <1>2. CASE CommitUpdate(r)
    <2>1. request[r] \in Change
      BY <1>0, <1>2, RequestKinds DEF CommitUpdate, Requests
    <2>2. request[r].id \in Rule /\ request[r].set \in Columns
      BY <2>1 DEF Change
    <2>3. rule[request[r].id] \in Row
      BY <1>0, <1>2, <2>2 DEF CommitUpdate, Live, Rules, Unused, Deleted
    <2>4. Written(rule[request[r].id], request[r].set) \in Row
      BY <2>2, <2>3, WrittenRow
    <2>5. rule' \in Rules
      BY <1>0, <1>2, <2>2, <2>4 DEF CommitUpdate, Rules
    <2>6. request' \in Requests
      BY <1>0, <1>2, OthersStale DEF CommitUpdate, Requests
    <2>7. unchecked' \in BOOLEAN
      BY <1>2 DEF CommitUpdate, TypeOK
    <2>8. QED
      BY <1>2, <2>5, <2>6, <2>7 DEF CommitUpdate, TypeOK, Rules, Requests
  <1>3. CASE UpdateFails(r)
    BY <1>3 DEF UpdateFails, TypeOK
  <1>4. QED
    BY <1>1, <1>2, <1>3 DEF UpdateLockRule

\* Every step keeps the type.
LEMMA NextType == TypeOK /\ [Next]_vars => TypeOK'
  <1> SUFFICES ASSUME TypeOK, [Next]_vars PROVE TypeOK'
    OBVIOUS
  <1> USE DEF RulesUnchanged, LockUnchanged, OthersUnchanged
  <1>1. ASSUME NEW r \in Request, Dies(r) PROVE TypeOK'
    BY <1>1 DEF Dies, TypeOK
  <1>2. ASSUME NEW i \in Rule, DeleteRule(i) PROVE TypeOK'
    BY <1>2 DEF DeleteRule, TypeOK
  <1>3. ASSUME NEW i \in Rule, NEW d \in Day, Evaluate(i, d) PROVE TypeOK'
    BY <1>3 DEF Evaluate, TypeOK
  <1>4. CASE Apply
    BY <1>4 DEF Apply, TypeOK
  <1>5. CASE UNCHANGED vars
    BY <1>5 DEF vars, TypeOK
  <1>6. ASSUME NEW r \in Request,
               ConfigureLockRules(r) \/ CreateStandardLockWindows(r) \/ CreateRulesFromTemplate(r)
        PROVE  TypeOK'
    BY <1>6, CreationType
    DEF ConfigureLockRules, CreateStandardLockWindows, CreateRulesFromTemplate, CreateLockRule
  <1>7. QED
    BY <1>1, <1>2, <1>3, <1>4, <1>5, <1>6, UpdateType DEF Next, DeleteLockRule

\* The rows, the requests and the references to a rule keep their types.
THEOREM TypeCorrect == Spec => []TypeOK
  BY InitType, NextType, PTL DEF Spec

-----------------------------------------------------------------------------
\* Overlapping does not depend on the order of two windows.
LEMMA OverlapSymmetric ==
    ASSUME NEW v, v.first \in Offset, v.last \in Offset,
           NEW w, w.first \in Offset, w.last \in Offset
    PROVE  Overlap(v, w) <=> Overlap(w, v)
  BY ParameterAssumption DEF Overlap

\* A request that writes no window next has nothing to keep apart.
LEMMA IdleKept == \A f : Kept(Idle, f)
  BY DEF Kept, InsertApart, UpdateApart, Idle, Making

\* Nor has a creation at another step than the insert.
LEMMA OtherStepKept == \A x, f : x.op \in Making /\ x.step # "insert" => Kept(x, f)
  BY DEF Kept, InsertApart, UpdateApart, Making

\* Windows overlap by their offsets.
LEMMA SameOverlap ==
    ASSUME NEW f \in Rules, NEW g \in Rules, NEW i \in Rule,
           IsRow(g, i), SameWindow(g[i], f[i])
    PROVE  /\ IsRow(f, i) /\ g[i].active = f[i].active
           /\ \A v : Overlap(v, g[i]) <=> Overlap(v, f[i])
           /\ \A w : Overlap(g[i], w) <=> Overlap(f[i], w)
           /\ \A w : \A set \in Columns :
                Overlap(Written(g[i], set), w) <=> Overlap(Written(f[i], set), w)
  BY DEF SameWindow, SameOffsets, Overlap, Written, Columns, Row, IsRow

\* What is apart stays apart when rules are taken away or get another T date.
LEMMA FewerApart ==
    ASSUME NEW f \in Rules, NEW g \in Rules,
           \A j \in Rule : \/ g[j] = f[j] \/ g[j] = Deleted
                          \/ SameWindow(g[j], f[j])
    PROVE  /\ Apart(f) => Apart(g)
           /\ \A x \in {Idle} \cup Creation \cup Change : Kept(x, f) => Kept(x, g)
  <1>1. \A j \in Rule : IsRow(g, j) => SameWindow(g[j], f[j])
    BY DEF IsRow, Deleted, SameWindow
  <1>2. \A j \in Rule : IsRow(g, j) => IsRow(f, j) /\ g[j].active = f[j].active
    BY <1>1, SameOverlap
  <1>3. ActiveIn(g) \subseteq ActiveIn(f)
    BY <1>2 DEF ActiveIn
  <1>4. \A i, j \in ActiveIn(g) : Overlap(g[i], g[j]) => Overlap(f[i], f[j])
    <2> SUFFICES ASSUME NEW i \in ActiveIn(g), NEW j \in ActiveIn(g), Overlap(g[i], g[j])
                 PROVE  Overlap(f[i], f[j])
      OBVIOUS
    <2>1. Overlap(f[i], g[j])
      BY <1>1, SameOverlap DEF ActiveIn
    <2>2. QED
      BY <1>1, <2>1, SameOverlap DEF ActiveIn
  <1>5. Apart(f) => Apart(g)
    BY <1>3, <1>4 DEF Apart
  <1>6. ASSUME NEW x \in {Idle} \cup Creation \cup Change, Kept(x, f) PROVE Kept(x, g)
    <2>1. \A v : \A j \in ActiveIn(g) : Overlap(v, g[j]) => Overlap(v, f[j])
      BY <1>1, SameOverlap DEF ActiveIn
    <2>2. InsertApart(x, g)
      BY <1>3, <1>6, <2>1 DEF Kept, InsertApart
    <2>3. x.op = "update" => x.id \in Rule /\ x.set \in Columns
      BY RequestKinds DEF Change
    <2>4. ASSUME x.op = "update", x.checked, ~x.stale, IsRow(g, x.id),
                 NEW j \in ActiveIn(g) \ {x.id},
                 Overlap(Written(g[x.id], x.set), g[j])
          PROVE  FALSE
      <3>1. Overlap(Written(f[x.id], x.set), g[j])
        BY <1>1, <2>3, <2>4, SameOverlap
      <3>2. Overlap(Written(f[x.id], x.set), f[j])
        BY <2>1, <2>4, <3>1
      <3>3. j \in ActiveIn(f) \ {x.id} /\ IsRow(f, x.id)
        BY <1>2, <1>3, <2>3, <2>4
      <3>4. QED
        BY <1>6, <2>4, <3>2, <3>3 DEF Kept, UpdateApart
    <2>5. UpdateApart(x, g)
      BY <2>4 DEF UpdateApart
    <2>6. QED
      BY <2>2, <2>5 DEF Kept
  <1>7. QED
    BY <1>5, <1>6

\* A step of request r that at most takes rules away or moves their T dates, and
\* leaves r with nothing to write or a window it has checked, keeps everything
\* apart.
LEMMA ApartKept ==
    ASSUME TypeOK, TypeOK', ApartInv, unchecked' = unchecked,
           \A j \in Rule : \/ rule'[j] = rule[j] \/ rule'[j] = Deleted
                          \/ SameWindow(rule'[j], rule[j]),
           NEW r \in Request, \A q \in Request \ {r} : request'[q] = request[q],
           ~unchecked => Kept(request'[r], rule')
    PROVE  ApartInv'
  <1>1. rule \in Rules /\ rule' \in Rules /\ request \in Requests
    BY DEF TypeOK, Rules, Requests
  <1>2. SUFFICES ASSUME ~unchecked PROVE Apart(rule') /\ \A q \in Request : Kept(request'[q], rule')
    BY DEF ApartInv
  <1>3. Apart(rule) /\ \A q \in Request : Kept(request[q], rule)
    BY <1>2 DEF ApartInv
  <1>4. ASSUME NEW q \in Request, q # r PROVE Kept(request'[q], rule')
    <2>1. request'[q] = request[q] /\ request[q] \in {Idle} \cup Creation \cup Change
      BY <1>1, <1>4 DEF Requests
    <2>2. QED
      BY <1>1, <1>3, <2>1, FewerApart
  <1>5. Apart(rule')
    BY <1>1, <1>3, FewerApart
  <1>6. QED
    BY <1>2, <1>4, <1>5

\* A window is written over rule i and every other request is outdated: what
\* is apart is what was, and the new window if it was apart from the others.
LEMMA ApartWritten ==
    ASSUME TypeOK, ApartInv, NEW r \in Request, NEW i \in Rule, NEW row \in Row,
           rule' = [rule EXCEPT ![i] = row],
           \A q \in Request \ {r} : request'[q].op # "idle" => request'[q].stale,
           Kept(request'[r], rule'),
           ~unchecked' => ~unchecked,
           ~unchecked' => ~row.active \/ \A j \in ActiveIn(rule) \ {i} : ~Overlap(row, rule[j])
    PROVE  ApartInv'
  <1>1. SUFFICES ASSUME ~unchecked' PROVE Apart(rule') /\ \A q \in Request : Kept(request'[q], rule')
    BY DEF ApartInv
  <1>2. Apart(rule)
    BY <1>1 DEF ApartInv
  <1>3. /\ rule'[i] = row /\ \A j \in Rule \ {i} : rule'[j] = rule[j]
        /\ \A j \in ActiveIn(rule') \ {i} : j \in ActiveIn(rule) /\ rule'[j] = rule[j]
    BY DEF TypeOK, ActiveIn, IsRow
  <1>4. \A j \in ActiveIn(rule) : rule[j].first \in Offset /\ rule[j].last \in Offset
    BY DEF TypeOK, ActiveIn, IsRow, Unused, Deleted, Row
  <1>5. row.first \in Offset /\ row.last \in Offset
    BY DEF Row
  <1>6. ASSUME NEW j \in ActiveIn(rule') \ {i}, i \in ActiveIn(rule')
        PROVE  ~Overlap(rule'[i], rule'[j]) /\ ~Overlap(rule'[j], rule'[i])
    <2>1. j \in ActiveIn(rule) \ {i} /\ rule'[j] = rule[j] /\ rule'[i] = row
      BY <1>3, <1>6
    <2>2. row.active
      BY <1>6, <2>1 DEF ActiveIn
    <2>3. ~Overlap(row, rule[j])
      BY <1>1, <2>1, <2>2
    <2>4. ~Overlap(rule[j], row)
      BY <1>4, <1>5, <2>1, <2>3, OverlapSymmetric
    <2>5. QED
      BY <2>1, <2>3, <2>4
  <1>7. ASSUME NEW j \in ActiveIn(rule') \ {i}, NEW k \in ActiveIn(rule') \ {i}, j # k
        PROVE  ~Overlap(rule'[j], rule'[k])
    BY <1>2, <1>3, <1>7 DEF Apart
  <1>8. Apart(rule')
    BY <1>6, <1>7 DEF Apart
  <1>9. ASSUME NEW q \in Request, q # r PROVE Kept(request'[q], rule')
    BY <1>9 DEF Kept, InsertApart, UpdateApart, Making
  <1>10. QED
    BY <1>8, <1>9

-----------------------------------------------------------------------------
\* The steps of a creation keep the windows apart.
LEMMA CreationApart ==
    ASSUME TypeOK, TypeOK', ApartInv, NEW r \in Request,
           \/ \E t \in TValue, w \in Window : BeginCreate(r, t, w)
           \/ \E t \in TValue : BeginStandard(r, t) \/ BeginTemplate(r, t)
           \/ CheckWindow(r)
           \/ \E i \in Rule : InsertRule(r, i)
           \/ Undo(r) \/ UndoFails(r)
    PROVE  ApartInv'
  <1> USE DEF RulesUnchanged, LockUnchanged, OthersUnchanged
  <1>0. request \in Requests /\ rule \in Rules
    BY DEF TypeOK, Requests, Rules
  <1>1. ASSUME \/ \E t \in TValue, w \in Window : BeginCreate(r, t, w)
               \/ \E t \in TValue : BeginStandard(r, t) \/ BeginTemplate(r, t)
        PROVE  ApartInv'
    <2>1. /\ request'[r].op \in Making /\ request'[r].step # "insert"
          /\ \A q \in Request \ {r} : request'[q] = request[q]
          /\ rule' = rule /\ unchecked' = unchecked
      BY <1>0, <1>1 DEF BeginCreate, BeginStandard, BeginTemplate, Begun, Requests, Making
    <2>2. QED
      BY <2>1, ApartKept, OtherStepKept
  <1>2. CASE CheckWindow(r)
    <2>1. request[r] \in Creation /\ request[r].op \in Making
      BY <1>0, <1>2, RequestKinds DEF CheckWindow, Requests, Making
    <2>2. /\ \A q \in Request \ {r} : request'[q] = request[q]
          /\ rule' = rule /\ unchecked' = unchecked
      BY <1>0, <1>2 DEF CheckWindow, Requests
    <2>3. CASE Overlaps(Head(request[r].left), Rule)
      <3>1. \/ request'[r] = Idle
            \/ request'[r] = Creating(r, "undo", request[r].left, request[r].made)
        BY <1>0, <1>2, <2>3 DEF CheckWindow, Requests
      <3>2. CASE request'[r] = Idle
        BY <2>2, <3>2, IdleKept, ApartKept
      <3>3. CASE request'[r] = Creating(r, "undo", request[r].left, request[r].made)
        <4>1. request'[r].op \in Making /\ request'[r].step # "insert"
          BY <2>1, <3>3 DEF Creating
        <4>2. QED
          BY <2>2, <4>1, OtherStepKept, ApartKept
      <3>4. QED
        BY <3>1, <3>2, <3>3
    <2>4. CASE ~Overlaps(Head(request[r].left), Rule)
      <3>1. request'[r] = Creating(r, "insert", request[r].left, request[r].made)
        BY <1>0, <1>2, <2>4 DEF CheckWindow, Requests
      <3>2. request'[r].left = request[r].left /\ request'[r].op \in Making
        BY <2>1, <3>1 DEF Creating
      <3>3. \A j \in Active : ~Overlap(Head(request[r].left), rule[j])
        BY <2>4 DEF Overlaps, Active
      <3>4. Kept(request'[r], rule')
        BY <2>2, <3>2, <3>3 DEF Kept, InsertApart, UpdateApart, Making, ActiveIn, IsRow, Active, Live
      <3>5. QED
        BY <2>2, <3>4, ApartKept
    <2>5. QED
      BY <2>3, <2>4
  <1>3. ASSUME NEW i \in Rule, InsertRule(r, i) PROVE ApartInv'
    <2>1. request[r] \in Creation /\ request[r].op \in Making /\ request[r].step = "insert"
      BY <1>0, <1>3, RequestKinds DEF InsertRule, Requests, Making
    <2>2. request[r].left \in Seq(Window) \ {<<>>} /\ request[r].stale \in BOOLEAN
          /\ request[r].t_value \in TValue
      BY <2>1 DEF Creation
    <2> DEFINE row == NewRow(request[r].t_value, Head(request[r].left))
    <2>3. Head(request[r].left) \in Window
      BY <2>2
    <2>4. row \in Row /\ row.first = Head(request[r].left).first
          /\ row.last = Head(request[r].left).last
      BY <2>2, <2>3 DEF NewRow, Row, Window
    <2>5. rule' = [rule EXCEPT ![i] = row]
      BY <1>3 DEF InsertRule
    <2>6. PICK x : /\ request' = [Outdate(request, r) EXCEPT ![r] = x]
                   /\ x = Idle \/ x = Creating(r, "check", Tail(request[r].left),
                                              request[r].made \cup {i})
      BY <1>3 DEF InsertRule
    <2>7. /\ request'[r] = x
          /\ \A q \in Request \ {r} : request'[q].op # "idle" => request'[q].stale
      BY <1>0, <2>6, OthersStale DEF Requests
    <2>8. Kept(request'[r], rule')
      <3>1. CASE x = Idle
        BY <2>7, <3>1, IdleKept
      <3>2. CASE x = Creating(r, "check", Tail(request[r].left), request[r].made \cup {i})
        <4>1. x.op \in Making /\ x.step # "insert"
          BY <2>1, <3>2 DEF Creating
        <4>2. QED
          BY <2>7, <4>1, OtherStepKept
      <3>3. QED
        BY <2>6, <3>1, <3>2
    <2>9. ~unchecked' => ~unchecked /\ ~request[r].stale
      BY <1>3 DEF InsertRule
    <2>10. ASSUME ~unchecked', NEW j \in ActiveIn(rule) PROVE ~Overlap(row, rule[j])
      <3>1. ~Overlap(Head(request[r].left), rule[j])
        BY <2>1, <2>9, <2>10 DEF ApartInv, Kept, InsertApart
      <3>2. QED
        BY <2>4, <3>1 DEF Overlap
    <2> HIDE DEF row
    <2>11. QED
      BY <2>4, <2>5, <2>7, <2>8, <2>9, <2>10, ApartWritten
  <1>4. CASE Undo(r) \/ UndoFails(r)
    <2>1. /\ request'[r] = Idle /\ \A q \in Request \ {r} : request'[q] = request[q]
          /\ unchecked' = unchecked
          /\ \A j \in Rule : rule'[j] = rule[j] \/ rule'[j] = Deleted
      BY <1>0, <1>4 DEF Undo, UndoFails, Requests
    <2>2. QED
      BY <2>1, ApartKept, IdleKept
  <1>5. QED
    BY <1>1, <1>2, <1>3, <1>4

\* The steps of an update keep the windows apart.
LEMMA UpdateKeepsApart ==
    ASSUME TypeOK, TypeOK', ApartInv, NEW r \in Request, UpdateLockRule(r)
    PROVE  ApartInv'
  <1> USE DEF RulesUnchanged, LockUnchanged, OthersUnchanged
  <1>0. request \in Requests /\ rule \in Rules
    BY DEF TypeOK, Requests, Rules
  <1>1. ASSUME NEW i \in Rule, NEW new \in Row, NEW offsets \in BOOLEAN,
               BeginUpdate(r, i, new, offsets)
        PROVE  ApartInv'
    <2> DEFINE x == [op |-> "update", id |-> i, set |-> Changed(rule[i], new),
                     checked |-> offsets, stale |-> FALSE]
    <2>1. rule[i] \in Row
      BY <1>0, <1>1 DEF BeginUpdate, Live, Rules, Unused, Deleted
    <2>2. /\ request'[r] = x /\ \A q \in Request \ {r} : request'[q] = request[q]
          /\ rule' = rule /\ unchecked' = unchecked
      BY <1>0, <1>1 DEF BeginUpdate, Requests
    <2>3. InsertApart(request'[r], rule')
      BY <2>2 DEF InsertApart, Making
    <2>4. ASSUME offsets, NEW j \in ActiveIn(rule) \ {i}
          PROVE  ~Overlap(Written(rule[i], Changed(rule[i], new)), rule[j])
      <3>1. ~Overlap(new, rule[j])
        BY <1>1, <2>4 DEF BeginUpdate, Overlaps, Active, Live, ActiveIn, IsRow
      <3>2. QED
        BY <2>1, <3>1, ChangedColumns DEF Overlap
    <2>5. UpdateApart(request'[r], rule')
      BY <2>2, <2>4 DEF UpdateApart
    <2>6. Kept(request'[r], rule')
      BY <2>3, <2>5 DEF Kept
    <2> HIDE DEF x
    <2>7. QED
      BY <2>2, <2>6, ApartKept
  <1>2. CASE CommitUpdate(r)
    <2>1. request[r] \in Change /\ request[r].op = "update"
      BY <1>0, <1>2, RequestKinds DEF CommitUpdate, Requests
    <2> DEFINE i == request[r].id
               row == Written(rule[i], request[r].set)
    <2>2. i \in Rule /\ request[r].set \in Columns /\ request[r].checked \in BOOLEAN
          /\ request[r].stale \in BOOLEAN
      BY <2>1 DEF Change
    <2>3. Live(i) /\ rule[i] \in Row
      BY <1>0, <1>2, <2>2 DEF CommitUpdate, Live, Rules, Unused, Deleted
    <2>4. row \in Row
      BY <2>2, <2>3, WrittenRow
    <2>5. rule' = [rule EXCEPT ![i] = row]
      BY <1>2 DEF CommitUpdate
    <2>6. request'[r] = Idle
      BY <1>0, <1>2, OthersStale DEF CommitUpdate, Requests
    <2>7. Kept(request'[r], rule')
      BY <2>6, IdleKept
    <2>8. CASE SameOffsets(row, rule[i])
      <3>1. /\ \A q \in Request \ {r} : request'[q] = request[q]
            /\ unchecked' = unchecked
        BY <1>0, <1>2, <2>8 DEF CommitUpdate, Requests, TypeOK
      <3>2. \A j \in Rule : SameWindow(rule'[j], rule[j])
        BY <1>0, <2>2, <2>3, <2>4, <2>5, <2>8 DEF Rules, SameWindow
      <3>3. QED
        BY <2>7, <3>1, <3>2, ApartKept
    <2>9. CASE ~SameOffsets(row, rule[i])
      <3>1. \A q \in Request \ {r} : request'[q].op # "idle" => request'[q].stale
        BY <1>0, <1>2, <2>9, OthersStale DEF CommitUpdate, Requests
      <3>2. unchecked' = (unchecked \/ (row.active /\ ~(request[r].checked /\ ~request[r].stale)))
        BY <1>2, <2>9 DEF CommitUpdate
      <3>3. ASSUME ~unchecked', row.active, NEW j \in ActiveIn(rule) \ {i}
            PROVE  ~Overlap(row, rule[j])
        BY <2>1, <2>3, <3>2, <3>3 DEF ApartInv, Kept, UpdateApart, IsRow, Live
      <3>4. ~unchecked' => ~unchecked
        BY <3>2
      <3> HIDE DEF row, i
      <3>5. QED
        BY <2>2, <2>4, <2>5, <2>7, <3>1, <3>3, <3>4, ApartWritten
    <2>10. QED
      BY <2>8, <2>9
  <1>3. CASE UpdateFails(r)
    <2>1. /\ request'[r] = Idle /\ \A q \in Request \ {r} : request'[q] = request[q]
          /\ rule' = rule /\ unchecked' = unchecked
      BY <1>0, <1>3 DEF UpdateFails, Requests
    <2>2. QED
      BY <2>1, ApartKept, IdleKept
  <1>4. QED
    BY <1>1, <1>2, <1>3 DEF UpdateLockRule

\* Nothing is active at first.
LEMMA InitApart == Init => ApartInv
  <1> SUFFICES ASSUME Init PROVE ApartInv
    OBVIOUS
  <1>1. ActiveIn(rule) = {}
    BY DEF Init, ActiveIn, IsRow, Unused
  <1>2. \A r \in Request : Kept(request[r], rule)
    BY IdleKept DEF Init
  <1>3. QED
    BY <1>1, <1>2 DEF ApartInv, Apart

\* Every step keeps the windows apart.
LEMMA NextApart == TypeOK /\ TypeOK' /\ ApartInv /\ [Next]_vars => ApartInv'
  <1> SUFFICES ASSUME TypeOK, TypeOK', ApartInv, [Next]_vars PROVE ApartInv'
    OBVIOUS
  <1> USE DEF RulesUnchanged, LockUnchanged, OthersUnchanged
  <1>0. request \in Requests /\ rule \in Rules
    BY DEF TypeOK, Requests, Rules
  <1>1. ASSUME NEW r \in Request, Dies(r) PROVE ApartInv'
    <2>1. request'[r] = Idle /\ \A q \in Request \ {r} : request'[q] = request[q]
      BY <1>0, <1>1 DEF Dies, Requests
    <2>2. QED
      BY <1>1, <2>1, ApartKept, IdleKept DEF Dies
  <1>2. ASSUME NEW i \in Rule, DeleteRule(i) PROVE ApartInv'
    <2>1. /\ \A j \in Rule : rule'[j] = rule[j] \/ rule'[j] = Deleted
          /\ request' = request /\ unchecked' = unchecked
      BY <1>0, <1>2 DEF DeleteRule, Rules
    <2>2. rule \in Rules /\ rule' \in Rules
      BY DEF TypeOK, Rules
    <2>3. \A q \in Request : request[q] \in {Idle} \cup Creation \cup Change
      BY <1>0 DEF Requests
    <2>4. QED
      BY <2>1, <2>2, <2>3, FewerApart DEF ApartInv
  <1>3. ASSUME UNCHANGED <<rule, request, unchecked>> PROVE ApartInv'
    BY <1>3 DEF ApartInv
  <1>4. (\E i \in Rule, d \in Day : Evaluate(i, d)) \/ Apply \/ UNCHANGED vars => ApartInv'
    BY <1>3 DEF Evaluate, Apply, vars
  <1>5. ASSUME NEW r \in Request,
               ConfigureLockRules(r) \/ CreateStandardLockWindows(r) \/ CreateRulesFromTemplate(r)
        PROVE  ApartInv'
    BY <1>5, CreationApart
    DEF ConfigureLockRules, CreateStandardLockWindows, CreateRulesFromTemplate, CreateLockRule
  <1>6. QED
    BY <1>1, <1>2, <1>4, <1>5, UpdateKeepsApart DEF Next, DeleteLockRule

\* Of the rules with one T date at most one is in force on any day, unless a
\* window was written without a check that still held.
THEOREM OneRule == Spec => []OneRuleInForce
  <1>1. ASSUME TypeOK, ApartInv PROVE OneRuleInForce
    <2> DEFINE Rivals(d, t) == {i \in InForce(d) : rule[i].t_value = t}
    <2> SUFFICES ASSUME ~unchecked, NEW d \in Day, NEW t \in TValue
                 PROVE  Cardinality(Rivals(d, t)) <= 1
      BY DEF OneRuleInForce
    <2>1. ASSUME NEW i \in Rivals(d, t), NEW j \in Rivals(d, t) PROVE i = j
      <3>1. /\ i \in Active /\ j \in Active
            /\ t + rule[i].first <= d /\ d <= t + rule[i].last
            /\ t + rule[j].first <= d /\ d <= t + rule[j].last
        BY DEF InForce
      <3>2. rule[i] \in Row /\ rule[j] \in Row
        BY <1>1, <3>1 DEF TypeOK, Active, Live, Unused, Deleted
      <3>3. Overlap(rule[i], rule[j])
        <4>1. /\ rule[i].first \in Int /\ rule[i].last \in Int
              /\ rule[j].first \in Int /\ rule[j].last \in Int /\ t \in Int
          BY <3>2, ParameterAssumption DEF Row
        <4>2. d \in Int
          BY ParameterAssumption DEF Day
        <4>3. QED
          BY <3>1, <4>1, <4>2 DEF Overlap
      <3>4. QED
        BY <1>1, <3>1, <3>3 DEF ApartInv, Apart, ActiveIn, IsRow, Active, Live
    <2> HIDE DEF Rivals
    <2>2. CASE Rivals(d, t) = {}
      BY <2>2, FS_EmptySet
    <2>3. ASSUME NEW i \in Rivals(d, t) PROVE Cardinality(Rivals(d, t)) <= 1
      <3>1. Rivals(d, t) = {i}
        BY <2>1
      <3>2. Cardinality({i}) = 1
        BY FS_Singleton
      <3>3. QED
        BY <3>1, <3>2
    <2>4. QED
      BY <2>2, <2>3
  <1>2. QED
    BY <1>1, InitType, NextType, InitApart, NextApart, PTL DEF Spec
=============================================================================
