------------------------------ MODULE RbacProofs ------------------------------
(***************************************************************************)
(* Theorems about the batches of permission changes (Permissions) and      *)
(* about what a role gets on a path of folders (FolderAccess).             *)
(*                                                                         *)
(* Permissions: the type invariant, and what an undisturbed operation      *)
(* leaves to others on the folder.          FolderAccess: the type         *)
(* invariant; that what the recursion of the inheritance grants crosses no *)
(* cut and is found by an audit, by induction over the path; and what a    *)
(* clean scan means.                                                       *)
(***************************************************************************)
EXTENDS Permissions, FolderAccess, TLAPS, FiniteSetTheorems, WellFoundedInduction

(* Permissions. *)

Ops == [Batch -> [Assignment -> Op]]

\* Of the permissions another principal had on the page an operation has read,
\* one is gone or still to be revoked.
Leaves(sp, x, a) ==
    \A g \in x.page :
      /\ g.principal # PrincipalOf[a]
      /\ \E h \in Of(g.principal, x.page) : h \notin sp \/ h.id \in x.todo.revoke

RevokeInv ==
    \A b \in Batch, a \in Assignment :
      op[b][a].pc = "apply" => Leaves(sharePoint, op[b][a], a)

-----------------------------------------------------------------------------
\* What an operation at work has.
LEMMA RunningOp ==
    ASSUME NEW x \in Op, x.pc \in {"begin", "apply"}
    PROVE  x \in Running
  BY DEF Op, Off

\* One operation is written.
LEMMA OpWritten ==
    ASSUME NEW f \in Ops, NEW b \in Batch, NEW a \in Assignment, NEW x \in Op,
           NEW g, g = [f EXCEPT ![b][a] = x]
    PROVE  /\ g \in Ops /\ g[b][a] = x
           /\ \A c \in Batch, d \in Assignment : <<c, d>> # <<b, a>> => g[c][d] = f[c][d]
  BY DEF Ops

\* The others learn that the folder has changed.
LEMMA OthersDisturbed ==
    ASSUME NEW f \in Ops, NEW b \in Batch, NEW a \in Assignment
    PROVE  /\ Disturbed(f, b, a) \in Ops
           /\ Disturbed(f, b, a)[b][a] = f[b][a]
           /\ \A c \in Batch, d \in Assignment :
                /\ Disturbed(f, b, a)[c][d].pc = f[c][d].pc
                /\ <<c, d>> # <<b, a>> /\ f[c][d].pc = "apply" =>
                     Disturbed(f, b, a)[c][d].page = {}
  <1>1. ASSUME NEW c \in Batch, NEW d \in Assignment, f[c][d].pc = "apply"
        PROVE  /\ [f[c][d] EXCEPT !.page = {}] \in Op
               /\ [f[c][d] EXCEPT !.page = {}].pc = "apply"
               /\ [f[c][d] EXCEPT !.page = {}].page = {}
    <2>1. f[c][d] \in Running
      BY <1>1, RunningOp DEF Ops
    <2>2. QED
      BY <1>1, <2>1 DEF Running, Op
  <1>2. QED
    BY <1>1 DEF Disturbed, Ops

\* The new operations of a batch.
LEMMA LaunchedOps ==
    ASSUME op \in Ops, NEW b \in Batch, op' = [op EXCEPT ![b] = Launched(b)]
    PROVE  /\ op' \in Ops
           /\ \A c \in Batch, d \in Assignment :
                op'[c][d].pc = "apply" => op'[c][d] = op[c][d]
  BY DEF Launched, Ops, Op, Off

\* What an operation that begins has.
LEMMA BeginningOp ==
    ASSUME NEW n \in 1..MaxAttempts, NEW h \in 0..LastHour
    PROVE  [pc |-> "begin", attempt |-> n, hour |-> h, todo |-> NoTodo, page |-> {}] \in Op
  BY DEF Op, Running, NoTodo, Todo

\* The changes an operation sets out to make, and what it reads of others.
LEMMA ChangesType ==
    ASSUME NEW a \in Assignment, NEW page \in SUBSET Held, NEW last \in ByPrincipal(page),
           NEW sp, NEW x, x.page = page \ Of(PrincipalOf[a], page), x.todo = Changes(a, last)
    PROVE  Changes(a, last) \in Todo /\ x.page \subseteq Held /\ Leaves(sp, x, a)
  <1>1. last \subseteq page /\ last \subseteq Held
    BY DEF ByPrincipal
  <1>2. Changes(a, last) \in Todo
    BY <1>1 DEF Changes, Of, Todo, Held
  <1>3. ASSUME NEW g \in x.page
        PROVE  /\ g.principal # PrincipalOf[a]
               /\ \E h \in Of(g.principal, x.page) : h.id \in x.todo.revoke
    <2>1. g \in page /\ g.principal # PrincipalOf[a]
      BY <1>3 DEF Of
    <2>2. Cardinality(Of(g.principal, last)) = 1
      BY <2>1 DEF ByPrincipal
    <2>3. Of(g.principal, last) # {}
      BY <2>2, FS_EmptySet
    <2>4. PICK h \in last : h.principal = g.principal
      BY <2>3 DEF Of
    <2>5. h \in Of(g.principal, x.page)
      BY <1>1, <2>1, <2>4 DEF Of
    <2>6. h.id \in Changes(a, last).revoke
      BY <2>1, <2>4 DEF Changes, Of, Wanted
    <2>7. QED
      BY <2>1, <2>5, <2>6
  <1>4. QED
    BY <1>2, <1>3 DEF Leaves

-----------------------------------------------------------------------------
\* The steps of an operation on the folder.
FolderStep(b, a) ==
    \/ Read(b, a) \/ Give(b, a) \/ \E i \in Id : Revoke(b, a, i)

\* A step on the folder keeps the type, and what is still to be revoked.
LEMMA FolderStepKeeps ==
    ASSUME TypeOK, RevokeInv, NEW b \in Batch, NEW a \in Assignment, FolderStep(b, a)
    PROVE  TypeOK' /\ RevokeInv'
  <1>0. op \in Ops /\ sharePoint \subseteq Held
        /\ PrincipalOf[a] \in Principal /\ RoleOf[a] \in Permission
    BY ParameterAssumption DEF TypeOK, Ops
  <1>1. ASSUME sharePoint' \subseteq Held,
               NEW f \in Ops, (f = op /\ sharePoint' = sharePoint) \/ f = Disturbed(op, b, a),
               NEW x \in Running, x.pc = "apply", op' = [f EXCEPT ![b][a] = x],
               Leaves(sharePoint', x, a),
               UNCHANGED <<sync, hour, completed, session, queue, processing, task, batch>>
        PROVE  TypeOK' /\ RevokeInv'
    <2>1. /\ op' \in Ops /\ op'[b][a] = x
          /\ \A c \in Batch, d \in Assignment : <<c, d>> # <<b, a>> => op'[c][d] = f[c][d]
      <3>1. x \in Op
        BY DEF Op
      <3>2. QED
        BY <1>1, <3>1 DEF Ops
    <2>2. TypeOK'
      BY <1>1, <2>1 DEF TypeOK, Ops
    <2>3. ASSUME NEW c \in Batch, NEW d \in Assignment, <<c, d>> # <<b, a>>,
                 op'[c][d].pc = "apply"
          PROVE  Leaves(sharePoint', op'[c][d], d)
      <3>1. op'[c][d] = f[c][d]
        BY <2>1, <2>3
      <3>2. CASE f = Disturbed(op, b, a)
        <4>1. op[c][d].pc = "apply"
          BY <1>0, <2>3, <3>1, <3>2, OthersDisturbed
        <4>2. op'[c][d].page = {}
          BY <1>0, <2>3, <3>1, <3>2, <4>1, OthersDisturbed
        <4>3. QED
          BY <4>2 DEF Leaves
      <3>3. CASE f = op /\ sharePoint' = sharePoint
        BY <2>3, <3>1, <3>3 DEF RevokeInv
      <3>4. QED
        BY <1>1, <3>2, <3>3
    <2>4. RevokeInv'
      BY <1>1, <2>1, <2>3 DEF RevokeInv
    <2>5. QED
      BY <2>2, <2>4
  <1>2. Disturbed(op, b, a) \in Ops /\ Disturbed(op, b, a)[b][a] = op[b][a]
    BY <1>0, OthersDisturbed
  <1>3. CASE Read(b, a)
    <2>1. PICK sp \in Broken(a) : \E page \in Pages(sp) : \E last \in ByPrincipal(page) :
            /\ sharePoint' = sp
            /\ op' = [(IF sp = sharePoint THEN op ELSE Disturbed(op, b, a))
                        EXCEPT ![b][a] =
                          [pc |-> "apply", attempt |-> @.attempt, hour |-> @.hour,
                           todo |-> Changes(a, last),
                           page |-> page \ Of(PrincipalOf[a], page)]]
      BY <1>3 DEF Read
    <2> PICK page \in Pages(sp) : \E last \in ByPrincipal(page) :
            /\ sharePoint' = sp
            /\ op' = [(IF sp = sharePoint THEN op ELSE Disturbed(op, b, a))
                        EXCEPT ![b][a] =
                          [pc |-> "apply", attempt |-> @.attempt, hour |-> @.hour,
                           todo |-> Changes(a, last),
                           page |-> page \ Of(PrincipalOf[a], page)]]
      BY <2>1
    <2>2. PICK last \in ByPrincipal(page) :
            /\ sharePoint' = sp
            /\ op' = [(IF sp = sharePoint THEN op ELSE Disturbed(op, b, a))
                        EXCEPT ![b][a] =
                          [pc |-> "apply", attempt |-> @.attempt, hour |-> @.hour,
                           todo |-> Changes(a, last),
                           page |-> page \ Of(PrincipalOf[a], page)]]
      OBVIOUS
    <2> DEFINE f == IF sp = sharePoint THEN op ELSE Disturbed(op, b, a)
               x == [pc |-> "apply", attempt |-> op[b][a].attempt, hour |-> op[b][a].hour,
                     todo |-> Changes(a, last), page |-> page \ Of(PrincipalOf[a], page)]
    <2>3. sp \subseteq Held /\ page \in SUBSET Held
      BY <1>0 DEF Broken, Pages
    <2>4. op[b][a] \in Running
      BY <1>0, <1>3, RunningOp DEF Read, Ops
    <2>5. x.pc = "apply" /\ x.todo = Changes(a, last) /\ x.page = page \ Of(PrincipalOf[a], page)
      OBVIOUS
    <2>6. f \in Ops /\ ((f = op /\ sharePoint' = sharePoint) \/ f = Disturbed(op, b, a))
          /\ f[b][a] = op[b][a]
      BY <1>0, <1>2, <2>2
    <2>7. op' = [f EXCEPT ![b][a] = x]
      BY <2>2, <2>6
    <2>8. UNCHANGED <<sync, hour, completed, session, queue, processing, task, batch>>
      BY <1>3 DEF Read, QueueUnchanged
    <2>9. Changes(a, last) \in Todo /\ page \ Of(PrincipalOf[a], page) \in SUBSET Held
      <3> HIDE DEF x
      <3>1. QED
        BY <2>3, <2>5, ChangesType
    <2>10. x \in Running
      BY <2>4, <2>9 DEF Running
    <2> HIDE DEF f, x
    <2>11. Leaves(sharePoint', x, a)
      BY <2>3, <2>5, ChangesType
    <2>12. QED
      BY <1>1, <2>2, <2>3, <2>5, <2>6, <2>7, <2>8, <2>10, <2>11
  <1>4. CASE Give(b, a)
    <2> DEFINE x == [op[b][a] EXCEPT !.todo.kind = "none"]
    <2>1. op[b][a] \in Running /\ op[b][a].pc = "apply"
      BY <1>0, <1>4, RunningOp DEF Give, Ops
    <2>2. x \in Running /\ x.pc = "apply" /\ x.page = op[b][a].page
          /\ x.todo.revoke = op[b][a].todo.revoke
      BY <2>1 DEF Running, Todo
    <2>3. PICK i \in Id : sharePoint' = With(i, PrincipalOf[a], RoleOf[a])
      BY <1>4 DEF Give
    <2>4. /\ sharePoint' \subseteq Held
          /\ \A h \in sharePoint' : h \in sharePoint \/ h.principal = PrincipalOf[a]
      BY <1>0, <2>3 DEF With, Without, Held
    <2>5. op' = [Disturbed(op, b, a) EXCEPT ![b][a] = x]
      BY <1>2, <1>4 DEF Give
    <2>6. UNCHANGED <<sync, hour, completed, session, queue, processing, task, batch>>
      BY <1>4 DEF Give, QueueUnchanged
    <2> HIDE DEF x
    <2>7. Leaves(sharePoint', x, a)
      <3>1. Leaves(sharePoint, op[b][a], a)
        BY <2>1 DEF RevokeInv
      <3>2. QED
        BY <2>2, <2>4, <3>1 DEF Leaves, Of
    <2>8. QED
      BY <1>1, <1>2, <2>2, <2>4, <2>5, <2>6, <2>7
  <1>5. ASSUME NEW i \in Id, Revoke(b, a, i) PROVE TypeOK' /\ RevokeInv'
    <2> DEFINE x == [op[b][a] EXCEPT !.todo.revoke = @ \ {i}]
    <2>1. op[b][a] \in Running /\ op[b][a].pc = "apply"
      BY <1>0, <1>5, RunningOp DEF Revoke, Ops
    <2>2. x \in Running /\ x.pc = "apply" /\ x.page = op[b][a].page
          /\ x.todo.revoke = op[b][a].todo.revoke \ {i}
      BY <2>1 DEF Running, Todo
    <2>3. /\ sharePoint' \subseteq Held
          /\ \A h \in sharePoint' : h \in sharePoint /\ h.id # i
      BY <1>0, <1>5 DEF Revoke, Without
    <2>4. op' = [Disturbed(op, b, a) EXCEPT ![b][a] = x]
      BY <1>2, <1>5 DEF Revoke
    <2>5. UNCHANGED <<sync, hour, completed, session, queue, processing, task, batch>>
      BY <1>5 DEF Revoke, QueueUnchanged
    <2> HIDE DEF x
    <2>6. Leaves(sharePoint', x, a)
      <3>1. Leaves(sharePoint, op[b][a], a)
        BY <2>1 DEF RevokeInv
      <3>2. QED
        BY <2>2, <2>3, <3>1 DEF Leaves, Of
    <2>7. QED
      BY <1>1, <1>2, <2>2, <2>3, <2>4, <2>5, <2>6
  <1>6. QED
    BY <1>3, <1>4, <1>5 DEF FolderStep

-----------------------------------------------------------------------------
\* A step that leaves the folder alone and gives no operation changes to work
\* on keeps what is still to be revoked.
LEMMA RevokeKept ==
    ASSUME RevokeInv, sharePoint' = sharePoint,
           \A b \in Batch, a \in Assignment :
             op'[b][a].pc = "apply" => op'[b][a] = op[b][a]
    PROVE  RevokeInv'
  BY DEF RevokeInv

\* Handing over a batch, taking it from the queue and ending it.
LEMMA BatchStepKeeps ==
    ASSUME TypeOK, RevokeInv, NEW b \in Batch,
           \/ QueueChanges(b)
           \/ \E kind \in Kind : RunAtOnce(b, kind)
           \/ EndBatch(b)
    PROVE  TypeOK' /\ RevokeInv'
  <1> USE DEF FolderUnchanged, QueueUnchanged
  <1>0. op \in Ops
    BY DEF TypeOK, Ops
  <1>1. CASE QueueChanges(b)
    <2>1. batch' \in [Batch -> [kind : Kind, status : {"none", "pending", "processing"} \cup Ended]]
      BY <1>1 DEF QueueChanges, TypeOK, Kind
    <2>2. queue' \in Seq(Batch)
      BY <1>1 DEF QueueChanges, TypeOK
    <2>3. task' \in [Processor -> {"idle", "created", "loop"} \cup Batch]
      BY <1>1 DEF QueueChanges, TypeOK
    <2>4. TypeOK'
      BY <1>1, <2>1, <2>2, <2>3 DEF QueueChanges, TypeOK
    <2>5. QED
      BY <1>1, <2>4, RevokeKept DEF QueueChanges
  <1>2. ASSUME NEW kind \in Kind, RunAtOnce(b, kind) PROVE TypeOK' /\ RevokeInv'
    <2>1. batch' \in [Batch -> [kind : Kind, status : {"none", "pending", "processing"} \cup Ended]]
      BY <1>2 DEF RunAtOnce, TypeOK
    <2>2. /\ op' \in Ops
          /\ \A c \in Batch, d \in Assignment : op'[c][d].pc = "apply" => op'[c][d] = op[c][d]
      BY <1>0, <1>2, LaunchedOps DEF RunAtOnce
    <2>3. TypeOK'
      BY <1>2, <2>1, <2>2 DEF RunAtOnce, TypeOK, Ops
    <2>4. QED
      BY <1>2, <2>2, <2>3, RevokeKept DEF RunAtOnce
  <1>3. CASE EndBatch(b)
    <2>1. batch' \in [Batch -> [kind : Kind, status : {"none", "pending", "processing"} \cup Ended]]
      <3>1. PICK status \in Ended : batch' = [batch EXCEPT ![b].status = status]
        BY <1>3 DEF EndBatch, Ended
      <3>2. QED
        BY <3>1 DEF TypeOK
    <2>2. task' \in [Processor -> {"idle", "created", "loop"} \cup Batch]
      BY <1>3 DEF EndBatch, TypeOK
    <2>3. TypeOK'
      BY <1>3, <2>1, <2>2 DEF EndBatch, TypeOK
    <2>4. QED
      BY <1>3, <2>3, RevokeKept DEF EndBatch
  <1>4. QED
    BY <1>1, <1>2, <1>3

\* The loop of the queue.
LEMMA QueueStepKeeps ==
    ASSUME TypeOK, RevokeInv, NEW p \in Processor, ProcessQueue(p)
    PROVE  TypeOK' /\ RevokeInv'
  <1> USE DEF FolderUnchanged
  <1>0. op \in Ops
    BY DEF TypeOK, Ops
  <1>1. CASE TakeBatch(p)
    <2>1. Head(queue) \in Batch /\ queue' \in Seq(Batch)
      BY <1>1 DEF TakeBatch, TypeOK
    <2>2. batch' \in [Batch -> [kind : Kind, status : {"none", "pending", "processing"} \cup Ended]]
      BY <1>1, <2>1 DEF TakeBatch, TypeOK
    <2>3. task' \in [Processor -> {"idle", "created", "loop"} \cup Batch]
      BY <1>1, <2>1 DEF TakeBatch, TypeOK
    <2>4. /\ op' \in Ops
          /\ \A c \in Batch, d \in Assignment : op'[c][d].pc = "apply" => op'[c][d] = op[c][d]
      BY <1>0, <1>1, <2>1, LaunchedOps DEF TakeBatch
    <2>5. TypeOK'
      BY <1>1, <2>1, <2>2, <2>3, <2>4 DEF TakeBatch, TypeOK, Ops
    <2>6. QED
      BY <1>1, <2>4, <2>5, RevokeKept DEF TakeBatch
  <1>2. CASE TaskEnds(p)
    <2>1. TypeOK'
      BY <1>2 DEF TaskEnds, TypeOK
    <2>2. QED
      BY <1>2, <2>1, RevokeKept DEF TaskEnds
  <1>3. QED
    BY <1>1, <1>2 DEF ProcessQueue

\* The steps of an operation beside its work on the folder.
OperationStep(b, a) ==
    Admit(b, a) \/ Skip(b, a) \/ Finish(b, a) \/ AttemptFails(b, a)

\* One operation is admitted, skipped, finished or fails: what it has then is
\* no change of the folder.
LEMMA OperationStepKeeps ==
    ASSUME TypeOK, RevokeInv, NEW b \in Batch, NEW a \in Assignment, OperationStep(b, a)
    PROVE  TypeOK' /\ RevokeInv'
  <1> USE DEF FolderUnchanged, QueueUnchanged
  <1>0. op \in Ops /\ hour \in 0..LastHour
    BY DEF TypeOK, Ops
  <1>1. ASSUME NEW x \in Op, x.pc # "apply", op' = [op EXCEPT ![b][a] = x],
               sync' \in [Assignment -> {"pending", "synced", "failed"}],
               completed' \subseteq 0..LastHour,
               UNCHANGED <<sharePoint, hour, session, queue, processing, task, batch>>
        PROVE  TypeOK' /\ RevokeInv'
    <2>1. /\ op' \in Ops
          /\ \A c \in Batch, d \in Assignment : op'[c][d].pc = "apply" => op'[c][d] = op[c][d]
      BY <1>0, <1>1 DEF Ops
    <2>2. TypeOK'
      BY <1>1, <2>1 DEF TypeOK, Ops
    <2>3. QED
      BY <1>1, <2>1, <2>2, RevokeKept
  <1>2. /\ [pc |-> "done"] \in Op /\ [pc |-> "failed"] \in Op
        /\ \A status \in {"synced", "failed"} :
             /\ FolderMarked(status) \in [Assignment -> {"pending", "synced", "failed"}]
             /\ Marked(a, status) \in [Assignment -> {"pending", "synced", "failed"}]
    BY DEF Op, FolderMarked, Marked, TypeOK
  <1>3. CASE Admit(b, a)
    <2>1. 1 \in 1..MaxAttempts
      BY ParameterAssumption
    <2> DEFINE x == [pc |-> "begin", attempt |-> 1, hour |-> hour, todo |-> NoTodo, page |-> {}]
    <2>2. x \in Op /\ x.pc # "apply"
      BY <1>0, <2>1, BeginningOp
    <2>3. op' = [op EXCEPT ![b][a] = x]
      BY <1>3 DEF Admit
    <2> HIDE DEF x
    <2>4. QED
      BY <1>1, <1>3, <2>2, <2>3 DEF Admit, TypeOK
  <1>4. CASE Skip(b, a)
    <2>1. sync' \in [Assignment -> {"pending", "synced", "failed"}]
      BY <1>2, <1>4 DEF Skip, TypeOK
    <2>2. QED
      BY <1>1, <1>2, <1>4, <2>1 DEF Skip, TypeOK
  <1>5. CASE Finish(b, a)
    <2>1. op[b][a] \in Running
      BY <1>0, <1>5, RunningOp DEF Finish, Ops
    <2>2. op[b][a].hour \in 0..LastHour
      BY <2>1 DEF Running
    <2>3. completed' \subseteq 0..LastHour
      BY <1>5, <2>2 DEF Finish, MarkedComplete, TypeOK
    <2>4. QED
      BY <1>1, <1>2, <1>5, <2>3 DEF Finish
  <1>6. CASE AttemptFails(b, a)
    <2>1. op[b][a] \in Running
      BY <1>0, <1>6, RunningOp DEF AttemptFails, IsRunning, Ops
    <2>2. sync' \in [Assignment -> {"pending", "synced", "failed"}]
      BY <1>2, <1>6 DEF AttemptFails, TypeOK
    <2>3. UNCHANGED <<sharePoint, hour, completed, session, queue, processing, task, batch>>
      BY <1>6 DEF AttemptFails
    <2>4. CASE Again(b, a)
      <3> DEFINE x == [pc |-> "begin", attempt |-> op[b][a].attempt + 1, hour |-> hour,
                       todo |-> NoTodo, page |-> {}]
      <3>1. op[b][a].attempt \in 1..MaxAttempts /\ op[b][a].attempt < MaxAttempts
        BY <2>1, <2>4 DEF Running, Again
      <3>2. op[b][a].attempt + 1 \in 1..MaxAttempts
        BY <3>1, ParameterAssumption
      <3>3. x \in Op /\ x.pc # "apply"
        BY <1>0, <3>2, BeginningOp
      <3>4. op' = [op EXCEPT ![b][a] = x]
        BY <1>6, <2>4 DEF AttemptFails
      <3> HIDE DEF x
      <3>5. QED
        BY <1>1, <2>2, <2>3, <3>3, <3>4 DEF TypeOK
    <2>5. CASE ~Again(b, a)
      <3>1. op' = [op EXCEPT ![b][a] = [pc |-> "failed"]]
        BY <1>6, <2>5 DEF AttemptFails
      <3>2. QED
        BY <1>1, <1>2, <2>2, <2>3, <3>1 DEF TypeOK
    <2>6. QED
      BY <2>4, <2>5
  <1>7. QED
    BY <1>3, <1>4, <1>5, <1>6 DEF OperationStep

-----------------------------------------------------------------------------
\* The initial states have the type, and no operation works yet.
LEMMA InitKeeps == Init => TypeOK /\ RevokeInv
  <1> SUFFICES ASSUME Init PROVE TypeOK /\ RevokeInv
    OBVIOUS
  <1>1. op \in Ops /\ \A b \in Batch, a \in Assignment : op[b][a].pc = "off"
    BY DEF Init, Ops, Op, Off
  <1>2. batch \in [Batch -> [kind : Kind, status : {"none", "pending", "processing"} \cup Ended]]
    BY DEF Init, Kind
  <1>3. sharePoint \subseteq Held /\ 0 \in 0..LastHour
    BY ParameterAssumption DEF Init, Held
  <1>4. queue \in Seq(Batch)
    BY DEF Init
  <1>5. TypeOK
    BY <1>1, <1>2, <1>3, <1>4 DEF Init, TypeOK, Ops
  <1>6. QED
    BY <1>1, <1>5 DEF RevokeInv

\* Every step keeps both.
LEMMA NextKeeps == TypeOK /\ RevokeInv /\ [Next]_vars => TypeOK' /\ RevokeInv'
  <1> SUFFICES ASSUME TypeOK, RevokeInv, [Next]_vars PROVE TypeOK' /\ RevokeInv'
    OBVIOUS
  <1>1. ASSUME NEW b \in Batch,
               QueueChanges(b) \/ (\E kind \in Kind : RunAtOnce(b, kind)) \/ EndBatch(b)
        PROVE  TypeOK' /\ RevokeInv'
    BY <1>1, BatchStepKeeps
  <1>2. ASSUME NEW b \in Batch, NEW a \in Assignment, OperationStep(b, a)
        PROVE  TypeOK' /\ RevokeInv'
    BY <1>2, OperationStepKeeps
  <1>3. ASSUME NEW b \in Batch, NEW a \in Assignment, FolderStep(b, a)
        PROVE  TypeOK' /\ RevokeInv'
    BY <1>3, FolderStepKeeps
  <1>4. ASSUME NEW p \in Processor, ProcessQueue(p) PROVE TypeOK' /\ RevokeInv'
    BY <1>4, QueueStepKeeps
  <1>5. CASE SessionBreaks
    <2>1. TypeOK'
      BY <1>5 DEF SessionBreaks, QueueUnchanged, TypeOK
    <2>2. QED
      BY <1>5, <2>1, RevokeKept DEF SessionBreaks
  <1>6. CASE NextHour
    <2>1. hour' \in 0..LastHour
      BY <1>6, ParameterAssumption DEF NextHour, TypeOK
    <2>2. TypeOK'
      BY <1>6, <2>1 DEF NextHour, QueueUnchanged, TypeOK
    <2>3. QED
      BY <1>6, <2>2, RevokeKept DEF NextHour
  <1>7. CASE UNCHANGED vars
    <2>1. TypeOK'
      BY <1>7 DEF vars, TypeOK
    <2>2. QED
      BY <1>7, <2>1, RevokeKept DEF vars
  <1>8. ASSUME NEW b \in Batch, ProcessBatch(b) PROVE TypeOK' /\ RevokeInv'
    BY <1>1, <1>2, <1>3, <1>8
    DEF ProcessBatch, ProcessOperation, ApplyPermissions, OperationStep, FolderStep
  <1>9. QED
    BY <1>1, <1>4, <1>5, <1>6, <1>7, <1>8 DEF Next

\* The variables keep their types: no batch runs an operation more often than
\* max_retries allows, whatever sequence of batches, tasks and failures.
THEOREM TypeCorrect == Spec => []TypeOK
  <1>1. Spec => [](TypeOK /\ RevokeInv)
    BY InitKeeps, NextKeeps, PTL DEF Spec
  <1>2. QED
    BY <1>1, PTL

-----------------------------------------------------------------------------
\* An operation that works on the folder completes by Finish alone.
LEMMA OnlyFinishCompletes ==
    ASSUME TypeOK, [Next]_vars, NEW b \in Batch, NEW a \in Assignment,
           op[b][a].pc = "apply", op'[b][a].pc = "done"
    PROVE  Finish(b, a)
  <1>0. op \in Ops
    BY DEF TypeOK, Ops
  <1>1. ASSUME NEW c \in Batch, op' = [op EXCEPT ![c] = Launched(c)] PROVE FALSE
    BY <1>0, <1>1 DEF Launched, Ops, Off
  <1>2. ASSUME NEW c \in Batch, NEW d \in Assignment, NEW x,
               NEW f \in Ops, f = op \/ f = Disturbed(op, c, d),
               x.pc # "done", op' = [f EXCEPT ![c][d] = x]
        PROVE  FALSE
    <2>1. f[b][a].pc = "apply"
      BY <1>0, <1>2, OthersDisturbed
    <2>2. op'[b][a] = x \/ op'[b][a] = f[b][a]
      BY <1>2 DEF Ops
    <2>3. QED
      BY <1>2, <2>1, <2>2
  <1>3. ASSUME NEW c \in Batch, NEW d \in Assignment, op[c][d].pc = "begin",
               op' = [op EXCEPT ![c][d] = [pc |-> "done"]]
        PROVE  FALSE
    BY <1>0, <1>3 DEF Ops
  <1>4. ASSUME UNCHANGED op PROVE FALSE
    BY <1>4
  <1>5. ASSUME NEW c \in Batch,
               QueueChanges(c) \/ (\E kind \in Kind : RunAtOnce(c, kind)) \/ EndBatch(c)
        PROVE  FALSE
    BY <1>1, <1>4, <1>5 DEF QueueChanges, RunAtOnce, EndBatch
  <1>6. ASSUME NEW c \in Batch, NEW d \in Assignment, ProcessOperation(c, d) \/ Admit(c, d)
        PROVE  Finish(b, a)
    <2>0. Disturbed(op, c, d) \in Ops /\ Disturbed(op, c, d)[c][d] = op[c][d]
      BY <1>0, OthersDisturbed
    <2>1. CASE Admit(c, d)
      BY <1>0, <1>2, <2>1 DEF Admit
    <2>2. CASE Skip(c, d)
      BY <1>3, <2>2 DEF Skip
    <2>3. CASE Read(c, d)
      <3> PICK sp \in Broken(d) : \E page \in Pages(sp) : \E last \in ByPrincipal(page) :
              op' = [(IF sp = sharePoint THEN op ELSE Disturbed(op, c, d))
                       EXCEPT ![c][d] =
                         [pc |-> "apply", attempt |-> @.attempt, hour |-> @.hour,
                          todo |-> Changes(d, last),
                          page |-> page \ Of(PrincipalOf[d], page)]]
        BY <2>3 DEF Read
      <3> PICK page \in Pages(sp) : \E last \in ByPrincipal(page) :
              op' = [(IF sp = sharePoint THEN op ELSE Disturbed(op, c, d))
                       EXCEPT ![c][d] =
                         [pc |-> "apply", attempt |-> @.attempt, hour |-> @.hour,
                          todo |-> Changes(d, last),
                          page |-> page \ Of(PrincipalOf[d], page)]]
        OBVIOUS
      <3>1. PICK last \in ByPrincipal(page) :
              op' = [(IF sp = sharePoint THEN op ELSE Disturbed(op, c, d))
                       EXCEPT ![c][d] =
                         [pc |-> "apply", attempt |-> @.attempt, hour |-> @.hour,
                          todo |-> Changes(d, last),
                          page |-> page \ Of(PrincipalOf[d], page)]]
        OBVIOUS
      <3> DEFINE x == [pc |-> "apply", attempt |-> op[c][d].attempt, hour |-> op[c][d].hour,
                       todo |-> Changes(d, last), page |-> page \ Of(PrincipalOf[d], page)]
                 f == IF sp = sharePoint THEN op ELSE Disturbed(op, c, d)
      <3>2. op' = [f EXCEPT ![c][d] = x] /\ x.pc # "done" /\ f \in Ops
            /\ (f = op \/ f = Disturbed(op, c, d))
        BY <1>0, <2>0, <3>1
      <3> HIDE DEF x, f
      <3>3. QED
        BY <1>2, <3>2
    <2>4. CASE Give(c, d)
      <3> DEFINE x == [op[c][d] EXCEPT !.todo.kind = "none"]
      <3>1. x.pc # "done"
        <4>1. op[c][d] \in Running /\ op[c][d].pc = "apply"
          BY <1>0, <2>4, RunningOp DEF Give, Ops
        <4>2. QED
          BY <4>1 DEF Running, Todo
      <3>2. op' = [Disturbed(op, c, d) EXCEPT ![c][d] = x]
        BY <2>0, <2>4 DEF Give
      <3> HIDE DEF x
      <3>3. QED
        BY <1>2, <2>0, <3>1, <3>2
    <2>5. ASSUME NEW i \in Id, Revoke(c, d, i) PROVE FALSE
      <3> DEFINE x == [op[c][d] EXCEPT !.todo.revoke = @ \ {i}]
      <3>1. x.pc # "done"
        <4>1. op[c][d] \in Running /\ op[c][d].pc = "apply"
          BY <1>0, <2>5, RunningOp DEF Revoke, Ops
        <4>2. QED
          BY <4>1 DEF Running, Todo
      <3>2. op' = [Disturbed(op, c, d) EXCEPT ![c][d] = x]
        BY <2>0, <2>5 DEF Revoke
      <3> HIDE DEF x
      <3>3. QED
        BY <1>2, <2>0, <3>1, <3>2
    <2>6. CASE Finish(c, d)
      <3>1. CASE c = b /\ d = a
        BY <2>6, <3>1
      <3>2. CASE ~(c = b /\ d = a)
        BY <1>0, <2>6, <3>2 DEF Finish, Ops
      <3>3. QED
        BY <3>1, <3>2
    <2>7. CASE AttemptFails(c, d)
      <3>1. \/ op' = [op EXCEPT ![c][d] =
                     [pc |-> "begin", attempt |-> op[c][d].attempt + 1, hour |-> hour,
                      todo |-> NoTodo, page |-> {}]]
            \/ op' = [op EXCEPT ![c][d] = [pc |-> "failed"]]
        BY <2>7 DEF AttemptFails
      <3>2. QED
        BY <1>0, <1>2, <3>1
    <2>8. QED
      BY <1>6, <2>1, <2>2, <2>3, <2>4, <2>5, <2>6, <2>7
      DEF ProcessOperation, ApplyPermissions
  <1>7. ASSUME NEW p \in Processor, ProcessQueue(p) PROVE FALSE
    <2>1. CASE TakeBatch(p)
      <3>1. Head(queue) \in Batch
        BY <2>1 DEF TakeBatch, TypeOK
      <3>2. QED
        BY <1>1, <2>1, <3>1 DEF TakeBatch
    <2>2. CASE TaskEnds(p)
      BY <1>4, <2>2 DEF TaskEnds
    <2>3. QED
      BY <1>7, <2>1, <2>2 DEF ProcessQueue
  <1>8. ~SessionBreaks /\ ~NextHour /\ ~UNCHANGED vars
    BY <1>4 DEF SessionBreaks, NextHour, vars
  <1>9. QED
    BY <1>5, <1>6, <1>7, <1>8 DEF Next, ProcessBatch

\* An operation that completes has taken a permission from every other principal
\* of the page it read, unless somebody else has changed the folder meanwhile.
THEOREM UndisturbedRevokes == Spec => NoLeftovers
  <1>1. ASSUME TypeOK, RevokeInv, [Next]_vars, NEW b \in Batch, NEW a \in Assignment,
               op[b][a].pc = "apply", op'[b][a].pc = "done", NEW g \in op[b][a].page
        PROVE  ~Of(g.principal, op[b][a].page) \subseteq sharePoint
    <2>1. op[b][a].todo.revoke = {}
      BY <1>1, OnlyFinishCompletes DEF Finish
    <2>2. Leaves(sharePoint, op[b][a], a)
      BY <1>1 DEF RevokeInv
    <2>3. QED
      BY <1>1, <2>1, <2>2 DEF Leaves
  <1>2. TypeOK /\ RevokeInv /\ [Next]_vars =>
          [\A b \in Batch, a \in Assignment :
             op[b][a].pc = "apply" /\ op'[b][a].pc = "done" =>
               \A g \in op[b][a].page : ~Of(g.principal, op[b][a].page) \subseteq sharePoint]_vars
    BY <1>1
  <1>3. QED
    BY <1>2, InitKeeps, NextKeeps, PTL DEF Spec, NoLeftovers

-----------------------------------------------------------------------------
(* FolderAccess. *)

\* A set of numbers that is not empty has a least member.
LEMMA LeastMember ==
    ASSUME NEW T, T \subseteq Nat, T # {}
    PROVE  \E n \in T : \A m \in T : n <= m
<1>1. IsWellFoundedOn(OpToRel(<, Nat), Nat)
  BY NatLessThanWellFounded
<1>2. \E x \in T : \A y \in T : <<y, x>> \notin OpToRel(<, Nat)
  BY <1>1, WFMin
<1>3. PICK x \in T : \A y \in T : <<y, x>> \notin OpToRel(<, Nat)
  BY <1>2
<1>4. \A y \in T : ~(y < x)
  BY <1>3 DEF OpToRel
<1>5. QED
  BY <1>4

\* Induction on a set of numbers.
LEMMA SetInduction ==
    ASSUME NEW S, 0 \in S, \A n \in Nat : n \in S => n + 1 \in S
    PROVE  Nat \subseteq S
<1> SUFFICES ASSUME Nat \ S # {} PROVE FALSE
  OBVIOUS
<1>1. PICK n \in Nat \ S : \A m \in Nat \ S : n <= m
  BY LeastMember
<1>2. n # 0 /\ n - 1 \in Nat /\ n - 1 \notin Nat \ S
  BY <1>1
<1>3. QED
  BY <1>1, <1>2

\* F is v0 at 0 and goes from each number up to N to the next by step.
Computes(F, N, v0, step) == F[0] = v0 /\ \A n \in 1..N : F[n] = step[n][F[n - 1]]

\* A function may be defined by recursion over the folders of a path.
LEMMA Recursion ==
    ASSUME NEW N \in Nat, NEW V, NEW v0 \in V, NEW step \in [1..N -> [V -> V]]
    PROVE  \E F \in [0..N -> V] : Computes(F, N, v0, step)
<1> DEFINE Up(n, F) == F[0] = v0 /\ \A m \in 1..n : F[m] = step[m][F[m - 1]]
           S == {n \in Nat : n <= N => \E F \in [0..n -> V] : Up(n, F)}
<1>1. 0 \in S
  <2>1. [m \in 0..0 |-> v0] \in [0..0 -> V] /\ Up(0, [m \in 0..0 |-> v0])
    OBVIOUS
  <2>2. QED
    BY <2>1
<1>2. ASSUME NEW n \in Nat, n \in S PROVE n + 1 \in S
  <2>1. SUFFICES ASSUME n + 1 <= N PROVE \E F \in [0..(n + 1) -> V] : Up(n + 1, F)
    OBVIOUS
  <2>2. PICK F \in [0..n -> V] : Up(n, F)
    BY <1>2, <2>1
  <2> DEFINE G == [m \in 0..(n + 1) |-> IF m = n + 1 THEN step[n + 1][F[n]] ELSE F[m]]
  <2>3. step[n + 1][F[n]] \in V
    BY <2>1
  <2>4. G \in [0..(n + 1) -> V]
    BY <2>3
  <2>5. G[0] = v0
    BY <2>2
  <2>6. ASSUME NEW m \in 1..(n + 1) PROVE G[m] = step[m][G[m - 1]]
    <3>1. CASE m = n + 1
      <4>1. G[m] = step[n + 1][F[n]] /\ G[m - 1] = F[n]
        BY <3>1
      <4>2. QED
        BY <3>1, <4>1
    <3>2. CASE m # n + 1
      <4>1. m \in 1..n /\ m - 1 \in 0..n
        BY <3>2
      <4>2. G[m] = F[m] /\ G[m - 1] = F[m - 1]
        BY <3>2, <4>1
      <4>3. QED
        BY <2>2, <4>1, <4>2
    <3>3. QED
      BY <3>1, <3>2
  <2>7. QED
    BY <2>4, <2>5, <2>6
<1>3. N \in S
  <2> HIDE DEF S
  <2>1. QED
    BY <1>1, <1>2, SetInduction
<1>4. QED
  BY <1>3 DEF Computes

\* The chain of a folder is the folder and, unless it is cut, its parent's.
LEMMA ChainIs ==
    /\ Chain[0] = {}
    /\ \A f \in Folder : Chain[f] = {f} \cup (IF IsCut(f) THEN {} ELSE Chain[f - 1])
<1> DEFINE V == SUBSET Nat
           step == [f \in 1..Depth |-> [v \in V |-> {f} \cup (IF IsCut(f) THEN {} ELSE v)]]
<1>0. Depth \in Nat
  BY AccessAssumption
<1>1. step \in [1..Depth -> [V -> V]] /\ {} \in V
  <2>1. ASSUME NEW f \in 1..Depth, NEW v \in V
        PROVE  {f} \cup (IF IsCut(f) THEN {} ELSE v) \in V
    OBVIOUS
  <2>2. QED
    BY <2>1
<1>2. PICK F \in [0..Depth -> V] : Computes(F, Depth, {}, step)
  <2> HIDE DEF V, step
  <2>1. QED
    BY <1>0, <1>1, Recursion
<1> DEFINE Is(g) == g = [f \in 0..Depth |->
                           IF f = 0 THEN {} ELSE {f} \cup (IF IsCut(f) THEN {} ELSE g[f - 1])]
<1>3. Is(F)
  <2>1. ASSUME NEW f \in 0..Depth
        PROVE  F[f] = IF f = 0 THEN {} ELSE {f} \cup (IF IsCut(f) THEN {} ELSE F[f - 1])
    <3>1. CASE f # 0
      <4>1. f \in 1..Depth /\ f - 1 \in 0..Depth
        BY <1>0, <3>1
      <4>2. F[f - 1] \in V
        BY <4>1
      <4>3. QED
        BY <1>2, <3>1, <4>1, <4>2 DEF Computes
    <3>2. QED
      BY <1>2, <3>1 DEF Computes
  <2>2. QED
    BY <2>1
<1>4. Is(Chain)
  <2>1. Chain = CHOOSE g : Is(g)
    BY DEF Chain
  <2> HIDE DEF Is
  <2>2. QED
    BY <1>3, <2>1
<1>5. QED
  BY <1>0, <1>4 DEF Folder

\* What a row assigns is a level.
LEMMA OwnLevel ==
    ASSUME AccessTypeOK, NEW f \in Folder, NEW r \in Role
    PROVE  Own(f, r) \subseteq Level
<1>1. rows[f][r] \in AssignmentRow \cup {NoRow}
  BY DEF AccessTypeOK
<1>2. rows[f][r].level \in Level \cup {NoLevel}
  BY <1>1 DEF AssignmentRow, NoRow
<1>3. QED
  BY <1>2 DEF Own

\* What a folder inherits is what its parent assigns and, unless the parent is
\* cut, what the parent inherits.
LEMMA InheritedIs ==
    ASSUME AccessTypeOK, NEW f \in Folder, NEW r \in Role
    PROVE  Inherited[f][r] =
             IF f = 1 THEN {}
             ELSE Own(f - 1, r) \cup (IF PassesOn(f - 1) THEN Inherited[f - 1][r]
                                                        ELSE {})
<1> DEFINE V == [Role -> SUBSET Level]
           v0 == [q \in Role |-> {}]
           At(g, v) == [q \in Role |->
              IF g = 1 THEN {}
              ELSE Own(g - 1, q) \cup (IF PassesOn(g - 1) THEN v[q] ELSE {})]
           step == [g \in 1..Depth |-> [v \in V |-> At(g, v)]]
           Is(i) == i = [g \in Folder |->
              [q \in Role |->
                 IF g = 1 THEN {}
                 ELSE Own(g - 1, q) \cup (IF PassesOn(g - 1) THEN i[g - 1][q] ELSE {})]]
<1>0. Depth \in Nat
  BY AccessAssumption
<1>1. step \in [1..Depth -> [V -> V]] /\ v0 \in V
  <2>1. ASSUME NEW g \in 1..Depth, NEW v \in V PROVE At(g, v) \in V
    <3>1. ASSUME g # 1, NEW q \in Role PROVE Own(g - 1, q) \subseteq Level
      <4>1. g - 1 \in Folder
        BY <1>0, <3>1 DEF Folder
      <4>2. QED
        BY <3>1, <4>1, OwnLevel
    <3> HIDE DEF V
    <3>2. ASSUME NEW q \in Role PROVE v[q] \subseteq Level
      BY DEF V
    <3>3. QED
      BY <3>1, <3>2 DEF V
  <2>2. QED
    BY <2>1
<1>2. PICK F \in [0..Depth -> V] : Computes(F, Depth, v0, step)
  <2> HIDE DEF V, v0, step
  <2>1. QED
    BY <1>0, <1>1, Recursion
<1> DEFINE G == [g \in Folder |-> F[g]]
<1>3. Is(G)
  <2>1. ASSUME NEW g \in Folder
        PROVE  F[g] = [q \in Role |->
                 IF g = 1 THEN {}
                 ELSE Own(g - 1, q) \cup (IF PassesOn(g - 1) THEN G[g - 1][q] ELSE {})]
    <3>1. g \in 1..Depth /\ g - 1 \in 0..Depth /\ (g # 1 => g - 1 \in Folder)
      BY <1>0 DEF Folder
    <3>2. F[g] = At(g, F[g - 1])
      <4>1. F[g - 1] \in V
        BY <3>1
      <4>2. F[g] = step[g][F[g - 1]]
        BY <1>2, <3>1 DEF Computes
      <4> HIDE DEF V, At
      <4>3. QED
        BY <3>1, <4>1, <4>2
    <3>3. g # 1 => G[g - 1] = F[g - 1]
      BY <3>1
    <3> HIDE DEF G
    <3>4. QED
      BY <3>2, <3>3
  <2>2. QED
    BY <2>1
<1>4. Is(Inherited)
  <2>1. Inherited = CHOOSE i : Is(i)
    BY DEF Inherited
  <2> HIDE DEF Is
  <2>2. QED
    BY <1>3, <2>1
<1>5. Inherited[f] = [q \in Role |->
         IF f = 1 THEN {}
         ELSE Own(f - 1, q) \cup (IF PassesOn(f - 1) THEN Inherited[f - 1][q] ELSE {})]
  BY <1>4
<1>6. QED
  BY <1>5

\* A level a folder inherits stands on a folder above, with no cut in between,
\* and the audit of the parent lists that folder.
Source(n, r, l, g) ==
    /\ l \in Own(g, r)
    /\ \A h \in (g + 1)..n : ~IsCut(h)
    /\ g \in Chain[n]

LEMMA InheritedHasSource ==
    ASSUME AccessTypeOK, NEW r \in Role, NEW f \in Folder, NEW l \in Inherited[f][r]
    PROVE  \E g \in 1..(f - 1) : Source(f - 1, r, l, g)
<1> DEFINE S == {n \in Nat : n + 1 \in Folder => \A m \in Inherited[n + 1][r] :
                                \E g \in 1..n : Source(n, r, m, g)}
<1>0. Depth \in Nat
  BY AccessAssumption
<1>1. 0 \in S
  <2>1. 1 \in Folder => Inherited[1][r] = {}
    BY InheritedIs
  <2>2. 0 + 1 = 1
    OBVIOUS
  <2>3. QED
    BY <2>1, <2>2
<1>2. ASSUME NEW n \in Nat, n \in S PROVE n + 1 \in S
  <2>1. SUFFICES ASSUME (n + 1) + 1 \in Folder, NEW m \in Inherited[(n + 1) + 1][r]
                 PROVE  \E g \in 1..(n + 1) : Source(n + 1, r, m, g)
    OBVIOUS
  <2>2. n + 1 \in Folder /\ ((n + 1) + 1) - 1 = n + 1 /\ (n + 1) + 1 # 1 /\ (n + 1) - 1 = n
    BY <1>0, <2>1 DEF Folder
  <2>3. m \in Own(n + 1, r) \/ (~IsCut(n + 1) /\ m \in Inherited[n + 1][r])
    <3>1. PICK k \in Folder : k = (n + 1) + 1
      BY <2>1
    <3>2. k # 1 /\ k - 1 = n + 1
      BY <2>2, <3>1
    <3>3. Inherited[k][r] =
            IF k = 1 THEN {}
            ELSE Own(k - 1, r) \cup (IF PassesOn(k - 1) THEN Inherited[k - 1][r] ELSE {})
      BY InheritedIs
    <3>4. QED
      BY <3>1, <3>2, <3>3 DEF PassesOn
  <2>4. Chain[n + 1] = {n + 1} \cup (IF IsCut(n + 1) THEN {} ELSE Chain[n])
    BY <2>2, ChainIs
  <2>5. CASE m \in Own(n + 1, r)
    <3>1. \A h \in ((n + 1) + 1)..(n + 1) : FALSE
      OBVIOUS
    <3>2. Source(n + 1, r, m, n + 1)
      BY <2>4, <2>5, <3>1 DEF Source
    <3>3. QED
      BY <3>2
  <2>6. CASE ~IsCut(n + 1) /\ m \in Inherited[n + 1][r]
    <3>1. PICK g \in 1..n : Source(n, r, m, g)
      BY <1>2, <2>2, <2>6
    <3>2. \A h \in (g + 1)..(n + 1) : h = n + 1 \/ h \in (g + 1)..n
      OBVIOUS
    <3>3. Source(n + 1, r, m, g)
      BY <2>4, <2>6, <3>1, <3>2 DEF Source
    <3>4. QED
      BY <3>3
  <2>7. QED
    BY <2>3, <2>5, <2>6
<1>3. f - 1 \in Nat /\ (f - 1) + 1 = f
  BY <1>0 DEF Folder
<1>4. f - 1 \in S
  <2> HIDE DEF S
  <2>1. QED
    BY <1>1, <1>2, <1>3, SetInduction
<1>5. QED
  BY <1>3, <1>4

\* NothingCrossesACut holds of every state of the type, however the folders came
\* to be cut and restored.
LEMMA NothingCrosses == AccessTypeOK => NothingCrossesACut
<1> SUFFICES ASSUME AccessTypeOK, NEW u \in User, NEW f \in Folder, NEW r \in Role,
                    NEW l \in Access(u, f, r), ~(r \in RolesOf(u) /\ l \in Calculated(f, r))
             PROVE  \E g \in 1..(f - 1) :
                       /\ l \in Own(g, r)
                       /\ \A h \in (g + 1)..(f - 1) : ~IsCut(h)
                       /\ IsCut(f) \/ g \in Chain[f]
  BY DEF NothingCrossesACut
<1>1. l \in Inherited[f][r]
  BY DEF Access
<1>2. PICK g \in 1..(f - 1) : Source(f - 1, r, l, g)
  BY <1>1, InheritedHasSource
<1>3. IsCut(f) \/ Chain[f - 1] \subseteq Chain[f]
  BY ChainIs
<1>4. QED
  BY <1>2, <1>3 DEF Source

-----------------------------------------------------------------------------
\* A cut leaves a row a row, and so does joining it again.
LEMMA RowsStay ==
    ASSUME NEW row \in AssignmentRow \cup {NoRow}
    PROVE  /\ Cut(row) \in AssignmentRow \cup {NoRow}
           /\ Joined(row) \in AssignmentRow \cup {NoRow}
<1>1. CASE row = NoRow
  BY <1>1 DEF Cut, Joined, NoRow
<1>2. CASE row \in AssignmentRow
  BY <1>2 DEF Cut, Joined, AssignmentRow
<1>3. QED
  BY <1>1, <1>2

\* What a comparison reports has the type of a report.
LEMMA ReportTyped ==
    ASSUME AccessTypeOK, NEW found, NEW level \in Levels
    PROVE  [drifts |-> Drifts(level), revokes |-> Cardinality(Unaccounted(found))]
              \in Report
<1>1. scan.desired \in Levels
  BY DEF AccessTypeOK, Scan
<1>2. Drifts(level) \subseteq Drift
  <2>1. ASSUME NEW r \in Role, scan.desired[r] # NoLevel,
               Action(scan.desired[r], level[r]) # "none"
        PROVE  [role |-> r, desired |-> scan.desired[r], found |-> level[r],
                action |-> Action(scan.desired[r], level[r])] \in Drift
    <3>1. scan.desired[r] \in Level /\ level[r] \in Level \cup {NoLevel}
      BY <1>1, <2>1 DEF Levels
    <3>2. Action(scan.desired[r], level[r]) \in {"grant", "update"}
      BY <2>1 DEF Action
    <3>3. QED
      BY <3>1, <3>2 DEF Drift
  <2>2. QED
    BY <2>1 DEF Drifts
<1>3. Cardinality(Unaccounted(found)) \in 0..Cardinality(Group)
  <2>1. Unaccounted(found) \subseteq Group /\ IsFiniteSet(Group)
    BY AccessAssumption DEF Unaccounted
  <2>2. QED
    BY <2>1, FS_Subset, FS_CardinalityType
<1>4. QED
  BY <1>2, <1>3 DEF Report

\* The initial states have the type.
LEMMA AccessInitTyped == AccessInit => AccessTypeOK
<1> SUFFICES ASSUME AccessInit PROVE AccessTypeOK
  OBVIOUS
<1>1. rows \in [Folder -> [Role -> AssignmentRow \cup {NoRow}]]
  <2>1. [level : Level, broken : {FALSE}, source : {"manual", "cascaded"}]
           \subseteq AssignmentRow
    BY DEF AssignmentRow
  <2>2. QED
    BY <2>1 DEF AccessInit
<1>2. NotScanning \in Scan
  BY DEF NotScanning, Scan, Levels
<1>3. NoReport \in Report
  <2>1. 0 \in 0..Cardinality(Group)
    BY AccessAssumption, FS_CardinalityType
  <2>2. QED
    BY <2>1 DEF NoReport, Report
<1>4. QED
  BY <1>1, <1>2, <1>3 DEF AccessInit, AccessTypeOK

\* Every step keeps the type.
LEMMA AccessNextTyped == AccessTypeOK /\ [AccessNext]_accessVars => AccessTypeOK'
<1> SUFFICES ASSUME AccessTypeOK, [AccessNext]_accessVars PROVE AccessTypeOK'
  OBVIOUS
<1>1. ASSUME NEW f \in Folder, BreakInheritance(f) \/ RestoreInheritance(f)
      PROVE  AccessTypeOK'
  <2>1. \A r \in Role : rows[f][r] \in AssignmentRow \cup {NoRow}
    BY DEF AccessTypeOK
  <2>2. /\ [r \in Role |-> Cut(rows[f][r])] \in [Role -> AssignmentRow \cup {NoRow}]
        /\ [r \in Role |-> Joined(rows[f][r])] \in [Role -> AssignmentRow \cup {NoRow}]
    BY <2>1, RowsStay
  <2>3. rows' \in [Folder -> [Role -> AssignmentRow \cup {NoRow}]]
    BY <1>1, <2>2 DEF BreakInheritance, RestoreInheritance, AccessTypeOK
  <2>4. QED
    BY <1>1, <2>3 DEF BreakInheritance, RestoreInheritance, AccessTypeOK
<1>2. ASSUME NEW e \in exceptions, ExceptionExpires(e) PROVE AccessTypeOK'
  BY <1>2 DEF ExceptionExpires, AccessTypeOK
<1>3. CASE BeginScan
  <2>1. Desired \in Levels
    <3>1. ASSUME NEW r \in Role PROVE rows[Scanned][r].level \in Level \cup {NoLevel}
      <4>1. rows[Scanned][r] \in AssignmentRow \cup {NoRow}
        BY AccessAssumption DEF AccessTypeOK
      <4>2. QED
        BY <4>1 DEF AssignmentRow, NoRow
    <3>2. QED
      BY <3>1 DEF Desired, Levels
  <2>2. QED
    BY <1>3, <2>1 DEF BeginScan, AccessTypeOK, Scan
<1>4. ASSUME NEW page, Compares(page) PROVE AccessTypeOK'
  <2>1. report' \in Report
    BY <1>4, ReportTyped DEF Compares
  <2>2. NotScanning \in Scan
    BY DEF NotScanning, Scan, Levels
  <2>3. QED
    BY <1>4, <2>1, <2>2 DEF Compares, AccessTypeOK
<1>5. CASE Remediate
  <2>1. 0 \in 0..Cardinality(Group)
    BY AccessAssumption, FS_CardinalityType
  <2>2. QED
    BY <1>5, <2>1 DEF Remediate, AccessTypeOK, NoReport, Report
<1>6. ASSUME NEW p \in FolderPermission, SharePointGrants(p) \/ SharePointRevokes(p)
      PROVE  AccessTypeOK'
  BY <1>6 DEF SharePointGrants, SharePointRevokes, AccessTypeOK
<1>7. CASE UNCHANGED accessVars
  BY <1>7 DEF accessVars, AccessTypeOK
<1>8. actual \subseteq FolderPermission
  BY DEF AccessTypeOK
<1>9. QED
  BY <1>1, <1>2, <1>3, <1>4, <1>5, <1>6, <1>7, <1>8
     DEF AccessNext, GraphAnswers, GraphFails
\* The variables keep their types: a row is deleted or stays one, and a report lists
\* at most every group.
THEOREM AccessTypeCorrect == AccessSpec => []AccessTypeOK
<1>1. QED
  BY AccessInitTyped, AccessNextTyped, PTL DEF AccessSpec

\* Whatever a user gets is calculated for a role of the user or stands on a folder
\* above with no cut in between, however deep the path is and whatever is cut.
THEOREM CutsAreNotCrossed == AccessSpec => []NothingCrossesACut
<1>1. QED
  BY AccessTypeCorrect, NothingCrosses, PTL

-----------------------------------------------------------------------------
\* A scan looks at every assigned role and at every principal it has a level for.
LEMMA ScanCompares ==
    ASSUME AccessTypeOK, NEW page \in SUBSET actual, Compares(page),
           scan.desired = Desired
    PROVE  /\ Clean => Covered(Readable(page))
           /\ Covered(Readable(page)) /\ Unambiguous(Readable(page)) => Clean
<1>1. PICK found \in [Group -> Level \cup {NoLevel}], level \in Levels :
         /\ \A g \in Group : found[g] \in Kept(page, g)
         /\ \A r \in Role : level[r] \in Found(found, r)
         /\ report' = [drifts |-> Drifts(level),
                      revokes |-> Cardinality(Unaccounted(found))]
  BY DEF Compares
<1>2. Clean <=> Drifts(level) = {} /\ Unaccounted(found) = {}
  <2>1. IsFiniteSet(Unaccounted(found))
    <3>1. Unaccounted(found) \subseteq Group /\ IsFiniteSet(Group)
      BY AccessAssumption DEF Unaccounted
    <3>2. QED
      BY <3>1, FS_Subset
  <2>2. Cardinality(Unaccounted(found)) = 0 <=> Unaccounted(found) = {}
    BY <2>1, FS_EmptySet
  <2>3. QED
    BY <1>1, <2>2 DEF Clean
<1>3. Drifts(level) = {} <=> \A r \in Role : Desired[r] # NoLevel => level[r] = Desired[r]
  BY DEF Drifts, Action
<1>4. Unaccounted(found) = {} <=>
        \A g \in Group : found[g] # NoLevel =>
           \E r \in Role : g \in GroupsOf[r] /\ Desired[r] # NoLevel
  BY DEF Unaccounted
<1>5. ASSUME NEW g \in Group, found[g] # NoLevel
      PROVE  \E p \in Readable(page) : p.who = g /\ p.level = found[g]
  BY <1>1, <1>5 DEF Kept
<1>6. ASSUME NEW p \in Readable(page) PROVE p.who \in Group /\ found[p.who] # NoLevel
  <2>1. p.who \in Group /\ p.level # NoLevel
    BY <1>6 DEF Readable
  <2>2. p.level \in {q.level : q \in {x \in Readable(page) : x.who = p.who}}
    OBVIOUS
  <2>3. found[p.who] \in {q.level : q \in {x \in Readable(page) : x.who = p.who}}
    BY <1>1, <2>1, <2>2 DEF Kept
  <2>4. QED
    BY <2>1, <2>3 DEF Readable
<1>7. \A r \in Role : GroupsOf[r] \subseteq Group
  BY AccessAssumption
<1>8. ASSUME NEW r \in Role, Desired[r] # NoLevel, level[r] = Desired[r]
      PROVE  \E p \in Readable(page) : p.who \in GroupsOf[r] /\ p.level = Desired[r]
  <2>1. PICK g \in GroupsOf[r] : found[g] # NoLevel /\ found[g] = Desired[r]
    BY <1>1, <1>8 DEF Found
  <2>2. QED
    BY <1>5, <1>7, <2>1
<1>9. ASSUME NEW r \in Role, Desired[r] # NoLevel, Unambiguous(Readable(page)),
             NEW p \in Readable(page), p.who \in GroupsOf[r]
      PROVE  level[r] = Desired[r]
  <2>1. p.who \in {h \in GroupsOf[r] : found[h] # NoLevel}
    BY <1>6, <1>9
  <2>2. PICK h \in GroupsOf[r] : found[h] # NoLevel /\ level[r] = found[h]
    BY <1>1, <2>1 DEF Found
  <2>3. PICK q \in Readable(page) : q.who = h /\ q.level = found[h]
    BY <1>5, <1>7, <2>2
  <2>4. QED
    BY <1>9, <2>2, <2>3 DEF Unambiguous
<1>10. ASSUME Clean PROVE Covered(Readable(page))
  <2>1. ASSUME NEW r \in Role, Desired[r] # NoLevel
        PROVE  \E p \in Readable(page) : p.who \in GroupsOf[r] /\ p.level = Desired[r]
    BY <1>2, <1>3, <1>8, <1>10, <2>1
  <2>2. ASSUME NEW p \in Readable(page)
        PROVE  \E r \in Role : p.who \in GroupsOf[r] /\ Desired[r] # NoLevel
    BY <1>2, <1>4, <1>6, <1>10
  <2>3. QED
    BY <2>1, <2>2 DEF Covered
<1>11. ASSUME Covered(Readable(page)), Unambiguous(Readable(page)) PROVE Clean
  <2>1. ASSUME NEW r \in Role, Desired[r] # NoLevel PROVE level[r] = Desired[r]
    BY <1>9, <1>11, <2>1 DEF Covered
  <2>2. ASSUME NEW g \in Group, found[g] # NoLevel
        PROVE  \E r \in Role : g \in GroupsOf[r] /\ Desired[r] # NoLevel
    BY <1>5, <1>11, <2>2 DEF Covered
  <2>3. QED
    BY <1>2, <1>3, <1>4, <2>1, <2>2
<1>12. QED
  BY <1>10, <1>11

\* A clean scan means that the permissions it reads cover the assignments, and a
\* cover without ambiguity is found clean, for any roles, groups, mapping between
\* them, permissions and first page.
THEOREM CleanScanMeansCovered == AccessSpec => CleanMeansCovered
<1>1. AccessTypeOK /\ [AccessNext]_accessVars =>
        [scan.desired = Desired =>
           \A page \in SUBSET actual : Compares(page) =>
              /\ Clean => Covered(Readable(page))
              /\ Covered(Readable(page)) /\ Unambiguous(Readable(page)) => Clean]_accessVars
  BY ScanCompares
<1>2. QED
  BY <1>1, AccessTypeCorrect, PTL DEF AccessSpec, CleanMeansCovered
=============================================================================
