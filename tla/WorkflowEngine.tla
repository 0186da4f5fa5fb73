--------------------------- MODULE WorkflowEngine ---------------------------
(***************************************************************************)
(* The life of one workflow request: its instance, the tasks of every      *)
(* stage it visits and the status mirrored on the request, under           *)
(* concurrent web requests and the deadline job (api/v1/workflow_runtime,  *)
(* api/v1/workflow_request, services/request_templates/lifecycle).         *)
(*                                                                         *)
(* Every endpoint call is one database transaction under REPEATABLE READ:  *)
(* plain reads see a snapshot taken at the first read plus the             *)
(* transaction's own writes; locking reads, saves and bulk updates act on  *)
(* the latest committed rows and hold them until commit.  A call is        *)
(* therefore two steps: Begin takes the snapshot and makes the checks that *)
(* only read it, Finish does everything else against the committed rows.   *)
(* doc.save refuses a row whose "modified" stamp is not the one it loaded. *)
(***************************************************************************)
EXTENDS WorkflowDefinition

CONSTANTS
  Workers,    \* web and background processes
  MaxVisits,  \* bound: stage activations of one instance
  MaxEdits,   \* bound: edits of the request
  MaxSaves    \* bound: stamps of a task row that a draft may still be saved on

ASSUME BoundsAreNumbers == MaxVisits \in Nat /\ MaxEdits \in Nat /\ MaxSaves \in Nat

VARIABLES
  db,    \* the committed rows: inst, task, req and the clock of decisions
  txn    \* what each worker is in the middle of, with its snapshot

vars == <<db, txn>>

-----------------------------------------------------------------------------
(* Rows.  ver stands for the "modified" stamp: doc.save changes it,        *)
(* db.set_value(update_modified=False) does not.                           *)

Visits == 1..MaxVisits

\* An activation of a stage creates one task per distinct assignee, so the
\* visit and the user it was first given to name a task.
TaskIds == Visits \X Users

TaskStatuses == {"None", "Open", "Completed", "Rejected", "Cancelled"}

Instance == [status : InstanceStatuses, stage : Stages, ver : Nat, visit : Nat]

Task == [status : TaskStatuses, stage : Stages, owner : Users, ver : Nat,
         action : Decisions \cup {"None"}, actor : Users, at : Nat,
         output : BOOLEAN, reminded : BOOLEAN, escalated : BOOLEAN]

StatusKeys ==
  {"submitted", "in_review", "returned", "failed", "approved", "rejected", "cancelled"}

Request == [key : StatusKeys, native : {"None", "Created", "Failed"}, edits : Nat]

Database == [inst : Instance, task : [TaskIds -> Task], req : Request, clock : Nat]

NoTask == [status |-> "None", stage |-> StartStage, owner |-> Initiator, ver |-> 0,
           action |-> "None", actor |-> Initiator, at |-> 0,
           output |-> FALSE, reminded |-> FALSE, escalated |-> FALSE]

NewTask(s, u) == [NoTask EXCEPT !.status = "Open", !.stage = s, !.owner = u, !.ver = 1]

Decided(t) == t.status \in {"Completed", "Rejected"}

\* The rows of a stage a query with status = "Open" returns.
OpenAt(task, s) == {k \in TaskIds : task[k].status = "Open" /\ task[k].stage = s}

\* Mutation of Unmodified: the stamp is not compared.
AnyStamp(mine, row) == TRUE

\* check_if_latest: the row still carries the stamp the transaction loaded.
Unmodified(mine, row) == mine.ver = row.ver

-----------------------------------------------------------------------------
(* The on_update hook of the instance.                                     *)

\* Mutation of StatusKey: the status of the instance is stored as it is.
RawStatusKey(inst, task) == IF inst.status = "Running" THEN "submitted" ELSE inst.status

\* compute_status_key over the tasks the transaction sees.
StatusKey(inst, task) ==
  CASE inst.status = "Failed"    -> "failed"
    [] inst.status = "Completed" -> "approved"
    [] inst.status = "Rejected"  -> "rejected"
    [] inst.status = "Cancelled" -> "cancelled"
    [] OTHER ->
         IF /\ inst.stage = FormStage
            /\ \E k \in TaskIds : task[k].status = "Completed" /\ task[k].stage = FormStage
         THEN "returned"
         ELSE IF \E k \in TaskIds : Decided(task[k]) /\ task[k].stage # FormStage
              THEN "in_review" ELSE "submitted"

\* dispatch_native_document: a request already handled is left alone, a
\* failure never un-approves it.
NativeResults(seen) ==
  IF seen.native = "Created" THEN {"Created"} ELSE {"None", "Created", "Failed"}

\* Mutation of SaveInstance: every outcome dispatches the native document.
SaveAndAlwaysDispatch(v, c, inst) ==
  IF ~Unmodified(v.inst, c.inst) THEN {}
  ELSE {[c EXCEPT !.inst = [inst EXCEPT !.ver = c.inst.ver + 1],
                  !.req.key = StatusKey(inst, v.task), !.req.native = n] :
          n \in IF inst.status # "Running" THEN NativeResults(v.req) ELSE {"None"}}

\* Mutation of SaveInstance: the key is computed before the save.
SaveWithOldKey(v, c, inst) ==
  IF ~Unmodified(v.inst, c.inst) THEN {}
  ELSE {[c EXCEPT !.inst = [inst EXCEPT !.ver = c.inst.ver + 1],
                  !.req.key = StatusKey(v.inst, v.task)]}

\* instance.save: refuses a stale instance, then mirrors the key (written only
\* when it differs from the key the transaction sees) and, the first time the
\* instance becomes Completed, dispatches the native document.
\* v is what the transaction sees, c the committed rows with its writes.
SaveInstance(v, c, inst) ==
  IF ~Unmodified(v.inst, c.inst) THEN {}
  ELSE LET key == StatusKey(inst, v.task)
           approved == inst.status = "Completed" /\ c.inst.status # "Completed"
       IN {[c EXCEPT !.inst = [inst EXCEPT !.ver = c.inst.ver + 1],
                     !.req.key = IF key # v.req.key THEN key ELSE @,
                     !.req.native = n] :
             n \in IF approved THEN NativeResults(v.req) ELSE {c.req.native}}

-----------------------------------------------------------------------------
(* Moving through the graph.                                               *)

\* The tasks inserted on arrival at a manual stage.
WithTasks(d, s) ==
  [d EXCEPT !.task = [k \in TaskIds |->
      IF k[1] = d.inst.visit /\ k[2] \in Assignees(s) THEN NewTask(s, k[2]) ELSE @[k]]]

\* _activate_stage(s) for every landing the conditions and actions on the way
\* allow; a manual stage without assignees throws.
Activate(v, c, s) ==
  UNION {LET status == IF to.status = "Unchanged" THEN v.inst.status ELSE to.status
             saved  == SaveInstance(v, c, [v.inst EXCEPT !.stage = to.stage,
                                                         !.status = status,
                                                         !.visit = @ + 1])
         IN IF to.status # "Unchanged" THEN saved
            ELSE IF Assignees(to.stage) = {} THEN {}
                 ELSE {WithTasks(d, to.stage) : d \in saved}
         : to \in IF v.inst.visit < MaxVisits THEN Landings[s] ELSE {}}

\* The bulk update of the open siblings: latest rows, no new stamp.
CancelOpen(d, ks) ==
  [d EXCEPT !.task = [k \in TaskIds |->
      IF k \in ks THEN [@[k] EXCEPT !.status = "Cancelled"] ELSE @[k]]]

\* Mutation of CancelStage: the siblings stay open.
KeepStage(d, s) == IF s \in Stages THEN d ELSE d

\* The open siblings of a decision that ends the visit.
CancelStage(d, s) == CancelOpen(d, OpenAt(d.task, s))

\* select_return_stage over the completed tasks the transaction sees: the
\* newest editable user task, else the newest user task.
ReturnStage(task, except) ==
  LET users == {k \in TaskIds \ {except} :
                  task[k].status = "Completed" /\ Config[task[k].stage].kind = "User Task"}
      editable == {k \in users : Config[task[k].stage].form}
      candidates == IF editable # {} THEN editable ELSE users
  IN {task[k].stage : k \in {x \in candidates :
        \A y \in candidates : task[y].at <= task[x].at}}

-----------------------------------------------------------------------------
(* complete_workflow_task, from the row lock to the commit.                *)

\* Mutation of MakesOutput: the open tasks are counted after the save.
MakesOutputLate(v, k, action) ==
  /\ action = "Complete"
  /\ Config[v.task[k].stage].output
  /\ OpenAt(v.task, v.task[k].stage) = {}

\* Mutation of MakesOutput: every assignee creates the output.
MakesOutputEach(v, k, action) ==
  /\ action = "Complete"
  /\ Config[v.task[k].stage].output

\* The last open assignee of a stage with an output creates it.
MakesOutput(v, k, action) ==
  /\ action = "Complete"
  /\ Config[v.task[k].stage].output
  /\ OpenAt(v.task, v.task[k].stage) = {k}

Decision(v, c, k, who, action) ==
  [v.task[k] EXCEPT !.status = IF action = "Reject" THEN "Rejected" ELSE "Completed",
                    !.action = action, !.actor = who, !.at = c.clock + 1,
                    !.output = MakesOutput(v, k, action), !.ver = @ + 1]

\* What follows the saved decision; v1 and c1 hold it already.
Onward(v1, c1, k, action) ==
  LET s == v1.task[k].stage IN
  CASE action = "Reject" ->
         LET to == NextStage(s, "Reject") IN
         IF to # {} THEN UNION {Activate(v1, CancelStage(c1, s), x) : x \in to}
         ELSE SaveInstance(v1, CancelStage(c1, s), [v1.inst EXCEPT !.status = "Rejected"])
    [] action = "Return" ->
         LET to == NextStage(s, "Return") IN
         UNION {Activate(v1, CancelStage(c1, s), x) :
                  x \in IF to # {} THEN to ELSE ReturnStage(v1.task, k)}
    [] OTHER ->
         IF Config[s].mode = "Any"
         THEN UNION {Activate(v1, CancelStage(c1, s), x) : x \in NextStage(s, action)}
         ELSE IF OpenAt(v1.task, s) = {}
              THEN UNION {Activate(v1, c1, x) : x \in NextStage(s, action)}
              ELSE {c1}

\* Mutation of Decide: the open siblings are counted before the save.
DecideCountingFirst(v, c, k, who, action) ==
  IF ~Unmodified(v.task[k], c.task[k]) THEN {}
  ELSE Onward(v, [c EXCEPT !.task[k] = Decision(v, c, k, who, action), !.clock = @ + 1],
              k, action)

\* The database states the call may commit; none when the task row or the
\* instance was modified since the snapshot, or no stage follows.
Decide(v, c, k, who, action) ==
  IF ~Unmodified(v.task[k], c.task[k]) THEN {}
  ELSE LET row == Decision(v, c, k, who, action)
       IN Onward([v EXCEPT !.task[k] = row],
                 [c EXCEPT !.task[k] = row, !.clock = @ + 1], k, action)

\* Mutation of MayBeDecided: the status of the task is not looked at.
MayBeDecidedAgain(v, k, who, action) ==
  /\ v.task[k].status # "None"
  /\ v.task[k].owner = who
  /\ MayDecide(v.task[k].stage, who, action)

\* What the snapshot must show before the call gets that far.
MayBeDecided(v, k, who, action) ==
  /\ v.task[k].status = "Open"
  /\ v.task[k].owner = who
  /\ MayDecide(v.task[k].stage, who, action)

-----------------------------------------------------------------------------
(* cancel_request and update_request; both hold the request row.           *)

CancelRequest(v, c) ==
  SaveInstance(v, CancelOpen(c, {k \in TaskIds : c.task[k].status = "Open"}),
               [v.inst EXCEPT !.status = "Cancelled"])

\* The open form task that lets the owner edit a returned request.
OwnFormTasks(task) ==
  {k \in OpenAt(task, FormStage) : task[k].owner = Initiator}

HasActed(task) ==
  \E k \in TaskIds : Decided(task[k]) /\ task[k].stage # FormStage

\* Mutation of UpdateRequest: earlier decisions are not looked for.
UpdateAnyTime(v, c) ==
  SaveInstance([v EXCEPT !.req = c.req], [c EXCEPT !.req.edits = @ + 1], v.inst)

\* The key is read with the request lock, the rest from the snapshot.  A
\* returned request is resubmitted: its form task is completed as well.
UpdateRequest(v, c) ==
  LET edited == SaveInstance([v EXCEPT !.req = c.req],
                             [c EXCEPT !.req.edits = @ + 1], v.inst)
  IN IF c.req.key = "returned"
     THEN UNION {UNION {Decide([v EXCEPT !.inst = d.inst, !.req = d.req], d,
                               k, Initiator, "Complete") : d \in edited}
                   : k \in OwnFormTasks(v.task)}
     ELSE IF HasActed(v.task) THEN {} ELSE edited

-----------------------------------------------------------------------------
(* save_workflow_task_draft and process_workflow_deadlines load a task     *)
(* from the snapshot and save the whole row back.                          *)

SaveRow(c, k, row) == [c EXCEPT !.task[k] = [row EXCEPT !.ver = @ + 1]]

SaveDraft(v, c, k) ==
  IF Unmodified(v.task[k], c.task[k]) THEN {SaveRow(c, k, v.task[k])} ELSE {}

\* The row of a task whose deadline has passed: marked, and handed to an
\* escalation user.
Escalated(row, u) ==
  [row EXCEPT !.escalated = TRUE,
              !.owner = IF Config[row.stage].reassign THEN u ELSE @]

Reminded(row) == [row EXCEPT !.reminded = TRUE]

\* The job over the tasks ks, of which late are overdue and the others near
\* their deadline.  Each has its own savepoint: a stale one is skipped, the
\* others are still saved.  to picks escalation_users[0] of each task.
Deadlines(v, c, ks, late, to) ==
  [c EXCEPT !.task = [k \in TaskIds |->
      IF k \in ks /\ Unmodified(v.task[k], @[k])
      THEN [IF k \in late THEN Escalated(v.task[k], to[k]) ELSE Reminded(v.task[k])
              EXCEPT !.ver = @ + 1]
      ELSE @[k]]]

EscalationTargets(v, k) ==
  LET higher == Config[v.task[k].stage].escalate IN
  IF higher = {} THEN {v.task[k].owner} ELSE higher

\* Mutation of TasksWithDeadline: the query does not filter on the status.
DeadlineWhenever(v) ==
  {k \in TaskIds : /\ v.task[k].status # "None"
                   /\ ~v.task[k].escalated
                   /\ Config[v.task[k].stage].deadline}

\* An overdue task is escalated once and not reminded of afterwards.
TasksWithDeadline(v) ==
  {k \in TaskIds : /\ v.task[k].status = "Open"
                   /\ ~v.task[k].escalated
                   /\ Config[v.task[k].stage].deadline}

-----------------------------------------------------------------------------
(* create_request: one transaction inserts the request, starts the         *)
(* instance and completes the requester's own form task.                   *)

Blank ==
  [inst  |-> [status |-> "Running", stage |-> StartStage, ver |-> 0, visit |-> 0],
   task  |-> [k \in TaskIds |-> NoTask],
   req   |-> [key |-> "submitted", native |-> "None", edits |-> 0],
   clock |-> 0]

\* start_workflow_instance.
Started == UNION {Activate(Blank, Blank, s) : s \in NextStage(StartStage, "Complete")}

Created ==
  UNION {IF OwnFormTasks(d.task) = {} THEN {d}
         ELSE UNION {Decide(d, d, k, Initiator, "Complete") : k \in OwnFormTasks(d.task)}
         : d \in Started}

-----------------------------------------------------------------------------
(* Transactions.                                                           *)

Idle == [op |-> "idle"]

Transaction ==
  [op : {"decide", "draft", "deadlines", "cancel", "update"},
   on : SUBSET TaskIds, action : Decisions \cup {"None"}, snap : Database]

Init ==
  /\ db \in Created
  /\ txn = [w \in Workers |-> Idle]

\* The first read of the call fixes its snapshot.
Begin(w, op, on, action) ==
  /\ txn[w] = Idle
  /\ txn' = [txn EXCEPT ![w] = [op |-> op, on |-> on, action |-> action, snap |-> db]]
  /\ db' = db

BeginDecide(w) ==
  \E k \in TaskIds, action \in Decisions :
    /\ MayBeDecided(db, k, db.task[k].owner, action)
    /\ Begin(w, "decide", {k}, action)

BeginDraft(w) ==
  \E k \in TaskIds :
    /\ db.task[k].status = "Open"
    /\ Config[db.task[k].stage].draft
    /\ db.task[k].ver < MaxSaves
    /\ Begin(w, "draft", {k}, "None")

BeginDeadlines(w) ==
  \E ks \in SUBSET TasksWithDeadline(db) :
    /\ ks # {}
    /\ Begin(w, "deadlines", ks, "None")

\* _own_running_request reads the instance from the snapshot.
BeginCancel(w) ==
  /\ db.inst.status = "Running"
  /\ Begin(w, "cancel", {}, "None")

BeginUpdate(w) ==
  /\ db.inst.status = "Running"
  /\ db.req.edits < MaxEdits
  /\ Begin(w, "update", {}, "None")

\* Commit one of the states the call may leave.
Commit(w, op, results) ==
  /\ txn[w].op = op
  /\ db' \in results
  /\ txn' = [txn EXCEPT ![w] = Idle]

FinishDecide(w) ==
  \E k \in txn[w].on :
    Commit(w, "decide", Decide(txn[w].snap, db, k, txn[w].snap.task[k].owner, txn[w].action))

FinishDraft(w) ==
  \E k \in txn[w].on : Commit(w, "draft", SaveDraft(txn[w].snap, db, k))

FinishDeadlines(w) ==
  \E late \in SUBSET txn[w].on, to \in [txn[w].on -> Users] :
    /\ \A k \in txn[w].on :
         IF k \in late THEN to[k] \in EscalationTargets(txn[w].snap, k)
         ELSE to[k] = Initiator /\ ~txn[w].snap.task[k].reminded
    /\ Commit(w, "deadlines", {Deadlines(txn[w].snap, db, txn[w].on, late, to)})

FinishCancel(w) == Commit(w, "cancel", CancelRequest(txn[w].snap, db))

FinishUpdate(w) == Commit(w, "update", UpdateRequest(txn[w].snap, db))

\* An error, a deadlock victim, a lost connection or a killed process.
Abort(w) ==
  /\ txn[w] # Idle
  /\ txn' = [txn EXCEPT ![w] = Idle]
  /\ db' = db

Step(w) ==
  \/ BeginDecide(w) \/ BeginDraft(w) \/ BeginDeadlines(w) \/ BeginCancel(w) \/ BeginUpdate(w)
  \/ (txn[w].op = "decide" /\ FinishDecide(w))
  \/ (txn[w].op = "draft" /\ FinishDraft(w))
  \/ (txn[w].op = "deadlines" /\ FinishDeadlines(w))
  \/ (txn[w].op = "cancel" /\ FinishCancel(w))
  \/ (txn[w].op = "update" /\ FinishUpdate(w))
  \/ Abort(w)

Next == \E w \in Workers : Step(w)

Spec == Init /\ [][Next]_vars

-----------------------------------------------------------------------------
(* Properties.                                                             *)

\* Every row and every transaction in flight has the shape of its DocType.
TypeOK ==
  /\ db \in Database
  /\ txn \in [Workers -> {Idle} \cup Transaction]

\* A decision, once committed, stands: no later save, bulk cancellation, draft
\* or escalation changes the task it was taken on (complete_workflow_task's
\* status check and doc.save's stamp check, against stale snapshots).
DecisionsStand ==
  [][\A k \in TaskIds : Decided(db.task[k]) =>
       /\ Decided(db'.task[k])
       /\ db'.task[k].action = db.task[k].action
       /\ db'.task[k].actor = db.task[k].actor]_vars

\* A decided task was decided by the user it was assigned to at that moment,
\* although the deadline job reassigns tasks concurrently.
DecidedByOwner ==
  \A k \in TaskIds : Decided(db.task[k]) => db.task[k].actor = db.task[k].owner

\* The key the request list filters on is the outcome of the instance once it
\* has ended, although the hook compares with a key it read from a snapshot.
OutcomeMirrored ==
  db.inst.status # "Running" => db.req.key = StatusKey(db.inst, db.task)

\* A running instance is never stuck: somebody holds an open task of the
\* stage and visit it waits at.
RunningHasOpenTask ==
  db.inst.status = "Running" =>
    \E k \in OpenAt(db.task, db.inst.stage) : k[1] = db.inst.visit

\* Open tasks belong to the current visit of a running instance: nothing can
\* still be decided on an ended instance or on a stage it has left.
OpenTasksAreCurrent ==
  \A k \in TaskIds : db.task[k].status = "Open" =>
    /\ db.inst.status = "Running"
    /\ k[1] = db.inst.visit
    /\ db.task[k].stage = db.inst.stage

\* A cancelled request leaves nothing open for anybody to decide.
CancelledHasNoOpenTask ==
  db.inst.status = "Cancelled" => \A k \in TaskIds : db.task[k].status # "Open"

\* The outcome of an ended instance, and of its request, is final.
OutcomeFinal ==
  [][db.inst.status # "Running" => db'.inst = db.inst /\ db'.req.key = db.req.key]_vars

\* The instance moves on only by a decision taken on the stage and visit it
\* waits at (an End may be reached by cancelling).
MovesFromCurrentVisit ==
  [][db'.inst.visit # db.inst.visit =>
       \E k \in TaskIds : /\ k[1] = db.inst.visit
                          /\ ~Decided(db.task[k]) /\ Decided(db'.task[k])]_vars

\* The ERPNext document exists only for a request that is finally approved.
NativeOnlyIfApproved ==
  db.req.native # "None" => db.inst.status = "Completed" /\ db.req.key = "approved"

\* When every assignee of a stage with an output has completed it, exactly one
\* of them created the output.
LastAssigneeMakesOutput ==
  \A n \in Visits :
    LET ks == {k \in TaskIds : k[1] = n /\ db.task[k].status # "None"} IN
    (/\ ks # {}
     /\ \A k \in ks : Config[db.task[k].stage].output /\ db.task[k].action = "Complete")
      => Cardinality({k \in ks : db.task[k].output}) = 1

\* Nothing but a decision saves the tasks of the stage: neither a draft nor the
\* deadline job can put an open row back over a cancelled one.
OnlyDecided(s) == ~Config[s].draft /\ ~Config[s].deadline

\* No visit of a stage creates its output twice, although each assignee counts
\* the open tasks in a snapshot of its own (complete_workflow_task).
OutputAtMostOnce ==
  \A k1, k2 \in {k \in TaskIds : db.task[k].output /\ OnlyDecided(db.task[k].stage)} :
    k1[1] = k2[1] => k1 = k2

\* A rejection is the last decision of its visit.
NoDecisionAfterReject ==
  \A k1, k2 \in TaskIds :
    (k1[1] = k2[1] /\ db.task[k1].status = "Rejected" /\ Decided(db.task[k2]))
      => db.task[k2].at <= db.task[k1].at

\* The requester edits a request only until somebody else has decided on it,
\* or when it has been returned for correction.
EditedBeforeActed ==
  [][db'.req.edits # db.req.edits => db.req.key = "returned" \/ ~HasActed(db.task)]_vars

\* A return without a route of its own goes back: to a stage whose newest
\* decision is a completion, never to one that was itself left by a return.
ReturnGoesBack ==
  [][\A k \in TaskIds :
       (/\ ~Decided(db.task[k]) /\ Decided(db'.task[k]) /\ db'.task[k].action = "Return"
        /\ NextStage(db.task[k].stage, "Return") = {}
        /\ db'.inst.visit # db.inst.visit)
       => \E x \in TaskIds : /\ db.task[x].stage = db'.inst.stage
                             /\ db.task[x].action = "Complete"
                             /\ \A y \in TaskIds :
                                  (db.task[y].stage = db'.inst.stage /\ Decided(db.task[y]))
                                    => db.task[y].at <= db.task[x].at]_vars

\* What a running instance waits for can be decided and nothing else can; a
\* rejected visit is over, and an ERPNext document tells of an approval
\* (complete_workflow_task, cancel_request, on_instance_update).
InstanceTells ==
  RunningHasOpenTask /\ OpenTasksAreCurrent /\ NoDecisionAfterReject /\ NativeOnlyIfApproved

\* An instance goes its way by decisions on what it waits at, to an outcome that
\* is final, and its requester edits nothing that has been decided on.
HistoryHolds == EditedBeforeActed /\ MovesFromCurrentVisit /\ OutcomeFinal

-----------------------------------------------------------------------------
(* The inductive invariant behind DecisionsStand, DecidedByOwner and       *)
(* OutcomeMirrored: what an unchanged stamp tells a transaction about the  *)
(* rows that have been committed since its snapshot.                       *)

\* Without a new stamp a row can only have been cancelled in bulk, and no
\* stamp undoes a decision.
RowLater(a, b) ==
  /\ a.ver <= b.ver
  /\ a.ver = b.ver => b = a \/ (a.status = "Open" /\ b = [a EXCEPT !.status = "Cancelled"])
  /\ Decided(a) => Decided(b) /\ b.action = a.action /\ b.actor = a.actor

\* Without a new stamp the instance and the key of its request are unchanged.
InstanceLater(a, b) ==
  /\ a.inst.ver <= b.inst.ver
  /\ a.inst.ver = b.inst.ver => b.inst = a.inst /\ b.req.key = a.req.key

Later(a, b) ==
  /\ InstanceLater(a, b)
  /\ \A k \in TaskIds : RowLater(a.task[k], b.task[k])

Consistent(d) ==
  /\ d \in Database
  /\ \A k \in TaskIds : Decided(d.task[k]) => d.task[k].actor = d.task[k].owner
  /\ d.inst.status # "Running" => d.req.key = StatusKey(d.inst, d.task)
  /\ \A k \in TaskIds : k[1] > d.inst.visit => d.task[k] = NoTask

SnapshotOK(t) ==
  /\ Later(t.snap, db)
  /\ \A k \in t.on : t.snap.task[k].status = "Open"
  /\ t.op = "decide" => t.action \in Decisions

IndInv ==
  /\ TypeOK
  /\ Consistent(db)
  /\ \A w \in Workers : txn[w] # Idle => SnapshotOK(txn[w])
=============================================================================
