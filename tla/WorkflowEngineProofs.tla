------------------------ MODULE WorkflowEngineProofs ------------------------
(***************************************************************************)
(* What holds of one request under every interleaving of its transactions, *)
(* for any users, workers, stages and routes.                              *)
(***************************************************************************)
EXTENDS WorkflowEngine, FiniteSetTheorems, TLAPS

-----------------------------------------------------------------------------
(* The definition.                                                         *)

LEMMA StartStageType == StartStage \in Stages
<1>1. \E s \in Stages : Config[s].kind = "Start"
  BY DefinitionReady DEF Publishable
<1> QED
  BY <1>1 DEF StartStage

\* Routes lead to stages of the definition.
LEMMA RoutesStay ==
  ASSUME NEW s, NEW action
  PROVE  NextStage(s, action) \subseteq Stages
  BY DefinitionTypes DEF NextStage, Targets, From

LEMMA LandingsType ==
  ASSUME NEW s \in Stages, NEW to \in Landings[s]
  PROVE  /\ to.stage \in Stages
         /\ to.status \in {"Unchanged", "Completed", "Rejected", "Cancelled", "Failed"}
<1>1. \A x \in Stages : Config[x].outcome \in {"Completed", "Rejected", "Cancelled", "Stopped"}
  BY DefinitionTypes DEF StageConfig
<1>2. Visited(s) \subseteq Stages
  BY DEF Visited
<1>3. CASE \E x \in Visited(s) : to = [stage |-> x, status |-> "Unchanged"]
  BY <1>2, <1>3
<1>4. CASE \E x \in Visited(s) :
             to = [stage |-> x, status |-> IF Config[x].outcome = "Stopped"
                                           THEN "Cancelled" ELSE Config[x].outcome]
  BY <1>1, <1>2, <1>4
<1>5. CASE \E x \in Visited(s) : to = [stage |-> x, status |-> "Failed"]
  BY <1>2, <1>5
<1> QED
  BY <1>3, <1>4, <1>5 DEF Landings

LEMMA AssigneesAreUsers ==
  ASSUME NEW s \in Stages
  PROVE  Assignees(s) \subseteq Users
<1>1. Config[s].users \subseteq Users /\ Config[s].escalate \subseteq Users
  BY DefinitionTypes DEF StageConfig
<1> QED
  BY <1>1 DEF Assignees

LEMMA NewTaskType ==
  ASSUME NEW s \in Stages, NEW u \in Users
  PROVE  NewTask(s, u) \in Task /\ NewTask(s, u).ver = 1 /\ NewTask(s, u).status = "Open"
<1>1. NoTask \in Task
  BY StartStageType, DefinitionTypes DEF NoTask, Task, TaskStatuses
<1> QED
  BY <1>1 DEF NewTask, Task, TaskStatuses, NoTask

LEMMA StatusKeyType ==
  ASSUME NEW inst \in Instance, NEW task
  PROVE  StatusKey(inst, task) \in StatusKeys
  BY DEF StatusKey, StatusKeys, Instance, InstanceStatuses

\* The key of an ended instance depends on its outcome alone.
LEMMA OutcomeKey ==
  ASSUME NEW a \in Instance, NEW b \in Instance, NEW t1, NEW t2,
         a.status = b.status, a.status # "Running"
  PROVE  StatusKey(a, t1) = StatusKey(b, t2)
  BY DEF StatusKey, Instance, InstanceStatuses

-----------------------------------------------------------------------------
(* The order on the committed states.                                      *)

LEMMA RowLaterTransitive ==
  ASSUME NEW a \in Task, NEW b \in Task, NEW c \in Task, RowLater(a, b), RowLater(b, c)
  PROVE  RowLater(a, c)
  BY DEF RowLater, Task, Decided

LEMMA LaterReflexive ==
  ASSUME NEW a \in Database
  PROVE  Later(a, a)
  BY DEF Later, InstanceLater, RowLater, Database, Instance, Task

LEMMA LaterTransitive ==
  ASSUME NEW a \in Database, NEW b \in Database, NEW c \in Database,
         Later(a, b), Later(b, c)
  PROVE  Later(a, c)
<1>1. InstanceLater(a, c)
  BY DEF Later, InstanceLater, Database, Instance
<1>2. \A k \in TaskIds : RowLater(a.task[k], c.task[k])
  <2> SUFFICES ASSUME NEW k \in TaskIds PROVE RowLater(a.task[k], c.task[k])
    OBVIOUS
  <2>1. a.task[k] \in Task /\ b.task[k] \in Task /\ c.task[k] \in Task
    BY DEF Database
  <2>2. RowLater(a.task[k], b.task[k]) /\ RowLater(b.task[k], c.task[k])
    BY DEF Later
  <2> QED
    BY <2>1, <2>2, RowLaterTransitive
<1> QED
  BY <1>1, <1>2 DEF Later

-----------------------------------------------------------------------------
(* The building blocks of the handlers.                                    *)

\* A save of the instance that is not refused found it as the snapshot has it,
\* stamps it, and leaves a request whose key fits the outcome.
LEMMA SaveInstanceLemma ==
  ASSUME NEW v \in Database, NEW c, Consistent(c), InstanceLater(v, c),
         NEW inst \in Instance, inst.visit >= c.inst.visit,
         NEW d \in SaveInstance(v, c, inst)
  PROVE  /\ Consistent(d)
         /\ Later(c, d)
         /\ v.inst = c.inst
         /\ d.inst = [inst EXCEPT !.ver = c.inst.ver + 1]
         /\ d.task = c.task
<1> DEFINE key == StatusKey(inst, v.task)
<1>1. /\ c \in Database /\ v.inst \in Instance /\ c.inst \in Instance
      /\ c.req \in Request /\ v.req \in Request
  BY DEF Consistent, Database
<1>2. key \in StatusKeys
  BY StatusKeyType
<1>3. v.inst = c.inst /\ v.req.key = c.req.key
  BY DEF SaveInstance, Unmodified, InstanceLater
<1>4. PICK n \in {"None", "Created", "Failed"} :
        d = [c EXCEPT !.inst = [inst EXCEPT !.ver = c.inst.ver + 1],
                      !.req.key = IF key # v.req.key THEN key ELSE @,
                      !.req.native = n]
  <2>1. c.req.native \in {"None", "Created", "Failed"}
    BY <1>1 DEF Request
  <2> QED
    BY <2>1 DEF SaveInstance, NativeResults
<1>5. /\ d.inst = [inst EXCEPT !.ver = c.inst.ver + 1]
      /\ d.task = c.task
      /\ d.clock = c.clock
      /\ d.req = [c.req EXCEPT !.key = IF key # v.req.key THEN key ELSE @, !.native = n]
  BY <1>1, <1>4 DEF Database
<1>6. d.inst \in Instance /\ d.inst.status = inst.status /\ d.inst.visit = inst.visit
  BY <1>1, <1>5 DEF Instance
<1>7. d.req \in Request /\ d.req.key = key
  BY <1>1, <1>2, <1>3, <1>5 DEF Request
<1>8. d \in Database
  BY <1>1, <1>4, <1>5, <1>6, <1>7 DEF Database
<1>9. Later(c, d)
  <2>1. InstanceLater(c, d)
    BY <1>1, <1>5 DEF InstanceLater, Instance
  <2>2. \A k \in TaskIds : RowLater(c.task[k], d.task[k])
    BY <1>1, <1>5, LaterReflexive DEF Later
  <2> QED
    BY <2>1, <2>2 DEF Later
<1>10. Consistent(d)
  <2>1. \A k \in TaskIds : Decided(d.task[k]) => d.task[k].actor = d.task[k].owner
    BY <1>5 DEF Consistent
  <2>2. d.inst.status # "Running" => d.req.key = StatusKey(d.inst, d.task)
    BY <1>6, <1>7, OutcomeKey
  <2>3. \A k \in TaskIds : k[1] > d.inst.visit => d.task[k] = NoTask
    <3> SUFFICES ASSUME NEW k \in TaskIds, k[1] > d.inst.visit PROVE d.task[k] = NoTask
      OBVIOUS
    <3>1. k[1] \in Nat
      BY BoundsAreNumbers DEF TaskIds, Visits
    <3>2. k[1] > c.inst.visit
      BY <1>1, <1>6, <3>1 DEF Instance
    <3> QED
      BY <1>5, <3>2 DEF Consistent
  <2> QED
    BY <1>8, <2>1, <2>2, <2>3 DEF Consistent
<1> QED
  BY <1>3, <1>5, <1>9, <1>10

\* A write that touches only task rows, each of them to a later version.
LEMMA RowsLemma ==
  ASSUME NEW c, Consistent(c), NEW e \in Database,
         e.inst = c.inst, e.req.key = c.req.key,
         \A k \in TaskIds : /\ RowLater(c.task[k], e.task[k])
                            /\ Decided(e.task[k]) => e.task[k].actor = e.task[k].owner
                            /\ k[1] > c.inst.visit => e.task[k] = NoTask
  PROVE  Consistent(e) /\ Later(c, e)
<1>1. c.inst \in Instance
  BY DEF Consistent, Database
<1>2. e.inst.status # "Running" => e.req.key = StatusKey(e.inst, e.task)
  BY <1>1, OutcomeKey DEF Consistent
<1>3. Later(c, e)
  BY <1>1 DEF Later, InstanceLater, Instance
<1> QED
  BY <1>2, <1>3 DEF Consistent

\* Arrival at a manual stage fills the empty rows of a fresh visit.
LEMMA WithTasksLemma ==
  ASSUME NEW d, Consistent(d), NEW s \in Stages,
         \A k \in TaskIds : k[1] >= d.inst.visit => d.task[k] = NoTask
  PROVE  Consistent(WithTasks(d, s)) /\ Later(d, WithTasks(d, s))
<1> DEFINE e == WithTasks(d, s)
<1>1. d \in Database /\ d.inst \in Instance /\ d.inst.visit \in Nat
  BY DEF Consistent, Database, Instance
<1>2. /\ e.inst = d.inst /\ e.req = d.req /\ e.clock = d.clock
      /\ \A k \in TaskIds : e.task[k] = IF k[1] = d.inst.visit /\ k[2] \in Assignees(s)
                                        THEN NewTask(s, k[2]) ELSE d.task[k]
  BY <1>1 DEF WithTasks, Database
<1>3. e \in Database
  <2>1. \A k \in TaskIds : k[2] \in Users
    BY DEF TaskIds
  <2>2. \A k \in TaskIds : NewTask(s, k[2]) \in Task
    BY <2>1, NewTaskType
  <2>3. e.task \in [TaskIds -> Task]
    BY <1>1, <2>2 DEF WithTasks, Database
  <2> QED
    BY <1>1, <2>3 DEF WithTasks, Database
<1>4. ASSUME NEW k \in TaskIds
      PROVE  /\ RowLater(d.task[k], e.task[k])
             /\ Decided(e.task[k]) => e.task[k].actor = e.task[k].owner
             /\ k[1] > d.inst.visit => e.task[k] = NoTask
  <2>1. k[1] \in Nat /\ k[2] \in Users
    BY BoundsAreNumbers DEF TaskIds, Visits
  <2>2. CASE k[1] = d.inst.visit /\ k[2] \in Assignees(s)
    <3>1. e.task[k] = NewTask(s, k[2]) /\ d.task[k] = NoTask
      BY <1>1, <1>2, <2>1, <2>2
    <3>2. e.task[k].ver = 1 /\ e.task[k].status = "Open"
      BY <2>1, <3>1, NewTaskType
    <3>3. d.task[k].ver = 0 /\ d.task[k].status = "None"
      BY <3>1 DEF NoTask
    <3> QED
      BY <1>1, <2>1, <2>2, <3>2, <3>3 DEF RowLater, Decided
  <2>3. CASE ~(k[1] = d.inst.visit /\ k[2] \in Assignees(s))
    <3>1. e.task[k] = d.task[k]
      BY <1>2, <2>3
    <3>2. RowLater(d.task[k], e.task[k])
      BY <1>1, <3>1, LaterReflexive DEF Later
    <3> QED
      BY <3>1, <3>2 DEF Consistent
  <2> QED
    BY <2>2, <2>3
<1> HIDE DEF e
<1>5. Consistent(e) /\ Later(d, e)
  BY <1>2, <1>3, <1>4, RowsLemma
<1> QED
  BY <1>5 DEF e

LEMMA VisitedInstance ==
  ASSUME NEW i \in Instance, NEW s \in Stages, NEW status \in InstanceStatuses
  PROVE  LET j == [i EXCEPT !.stage = s, !.status = status, !.visit = @ + 1]
         IN  j \in Instance /\ j.visit = i.visit + 1
<1> DEFINE j == [i EXCEPT !.stage = s, !.status = status, !.visit = @ + 1]
<1>1. i.ver \in Nat /\ i.visit \in Nat /\ i.visit + 1 \in Nat
  BY DEF Instance
<1>2. /\ j.stage = s /\ j.status = status /\ j.ver = i.ver
      /\ j.visit = i.visit + 1
  BY DEF Instance
<1>3. j \in Instance
  BY <1>1 DEF Instance
<1> QED
  BY <1>2, <1>3

\* _activate_stage saves the instance for a new visit, which leaves x, and at a
\* manual stage creates its tasks.
Arrival(c, x, d) ==
  /\ Consistent(x) /\ Later(c, x) /\ x.task = c.task
  /\ x.inst.visit = c.inst.visit + 1
  /\ x.inst.ver = c.inst.ver + 1
  /\ d = x \/ \E m \in Stages : d = WithTasks(x, m)

LEMMA ActivateShape ==
  ASSUME NEW v \in Database, NEW c, Consistent(c), InstanceLater(v, c),
         NEW s \in Stages, NEW d \in Activate(v, c, s)
  PROVE  v.inst = c.inst /\ \E x : Arrival(c, x, d)
<1>1. PICK to \in Landings[s] :
        LET status == IF to.status = "Unchanged" THEN v.inst.status ELSE to.status
            saved  == SaveInstance(v, c, [v.inst EXCEPT !.stage = to.stage,
                                                        !.status = status,
                                                        !.visit = @ + 1])
        IN d \in IF to.status # "Unchanged" THEN saved
                 ELSE IF Assignees(to.stage) = {} THEN {}
                      ELSE {WithTasks(x, to.stage) : x \in saved}
  BY DEF Activate
<1> DEFINE status == IF to.status = "Unchanged" THEN v.inst.status ELSE to.status
           inst   == [v.inst EXCEPT !.stage = to.stage, !.status = status, !.visit = @ + 1]
<1>2. PICK x \in SaveInstance(v, c, inst) :
        d = x \/ (to.status = "Unchanged" /\ d = WithTasks(x, to.stage))
  BY <1>1
<1>3. to.stage \in Stages /\ status \in InstanceStatuses
  BY LandingsType DEF InstanceStatuses, Database, Instance
<1>4. inst \in Instance /\ inst.visit = v.inst.visit + 1
  <2>1. v.inst \in Instance
    BY DEF Database
  <2> HIDE DEF status
  <2> QED
    BY <1>3, <2>1, VisitedInstance
<1>5. v.inst = c.inst
  BY <1>2 DEF SaveInstance, Unmodified, InstanceLater
<1>6. v.inst.visit \in Nat /\ v.inst.ver \in Nat
  BY DEF Database, Instance
<1>7. inst.visit >= c.inst.visit
  BY <1>4, <1>5, <1>6
<1> HIDE DEF inst
<1>8. /\ Consistent(x) /\ Later(c, x) /\ x.task = c.task
      /\ x.inst = [inst EXCEPT !.ver = c.inst.ver + 1]
  BY <1>2, <1>4, <1>7, SaveInstanceLemma
<1>9. x.inst.visit = c.inst.visit + 1 /\ x.inst.ver = c.inst.ver + 1
  BY <1>4, <1>5, <1>8 DEF Instance
<1> QED
  BY <1>2, <1>3, <1>5, <1>8, <1>9 DEF Arrival

\* A fresh visit has no tasks yet.
LEMMA FreshVisit ==
  ASSUME NEW c, Consistent(c), NEW x, x.task = c.task, x.inst.visit = c.inst.visit + 1,
         NEW k \in TaskIds, k[1] >= x.inst.visit
  PROVE  x.task[k] = NoTask
<1>1. k[1] \in Nat
  BY BoundsAreNumbers DEF TaskIds, Visits
<1>2. c.inst.visit \in Nat
  BY DEF Consistent, Database, Instance
<1>3. k[1] > c.inst.visit
  BY <1>1, <1>2
<1> QED
  BY <1>3 DEF Consistent

\* _activate_stage from a consistent state.
LEMMA ActivateLemma ==
  ASSUME NEW v \in Database, NEW c, Consistent(c), InstanceLater(v, c),
         NEW s \in Stages, NEW d \in Activate(v, c, s)
  PROVE  Consistent(d) /\ Later(c, d)
<1>0. PICK x : Arrival(c, x, d)
  BY ActivateShape
<1>1. /\ Consistent(x) /\ Later(c, x) /\ x.task = c.task
      /\ x.inst.visit = c.inst.visit + 1
      /\ d = x \/ \E m \in Stages : d = WithTasks(x, m)
  BY <1>0 DEF Arrival
<1>2. CASE d = x
  BY <1>1, <1>2
<1>3. ASSUME NEW m \in Stages, d = WithTasks(x, m)
      PROVE  Consistent(d) /\ Later(c, d)
  <2>1. \A k \in TaskIds : k[1] >= x.inst.visit => x.task[k] = NoTask
    BY <1>1, FreshVisit
  <2>2. Consistent(d) /\ Later(x, d)
    BY <1>1, <1>3, <2>1, WithTasksLemma
  <2>3. c \in Database /\ x \in Database /\ d \in Database
    BY <1>1, <2>2 DEF Consistent
  <2> QED
    BY <1>1, <2>2, <2>3, LaterTransitive
<1> QED
  BY <1>1, <1>2, <1>3

\* A save that changes at most the status of the instance.
LEMMA SameVisitLemma ==
  ASSUME NEW v \in Database, NEW c, Consistent(c), InstanceLater(v, c),
         NEW inst \in Instance, inst.visit = v.inst.visit,
         NEW d \in SaveInstance(v, c, inst)
  PROVE  /\ Consistent(d) /\ Later(c, d)
         /\ v.inst = c.inst
         /\ d.inst = [inst EXCEPT !.ver = c.inst.ver + 1]
         /\ d.task = c.task
<1>1. v.inst = c.inst
  BY DEF SaveInstance, Unmodified, InstanceLater
<1>2. v.inst.visit \in Nat
  BY DEF Database, Instance
<1>3. inst.visit >= c.inst.visit
  BY <1>1, <1>2
<1> QED
  BY <1>3, SaveInstanceLemma

LEMMA UnchangedInstanceLemma ==
  ASSUME NEW v \in Database, NEW c, Consistent(c), InstanceLater(v, c),
         NEW d \in SaveInstance(v, c, v.inst)
  PROVE  Consistent(d) /\ Later(c, d) /\ d.task = c.task
<1>1. v.inst \in Instance /\ v.inst = c.inst
  BY DEF Database, SaveInstance, Unmodified, InstanceLater
<1>2. v.inst.visit >= c.inst.visit
  BY <1>1 DEF Instance
<1>3. /\ Consistent(d) /\ Later(c, d) /\ d.task = c.task
      /\ d.inst = [v.inst EXCEPT !.ver = c.inst.ver + 1]
  BY <1>1, <1>2, SaveInstanceLemma
<1> QED
  BY <1>3

LEMMA NewStatusType ==
  ASSUME NEW v \in Database, NEW status \in InstanceStatuses
  PROVE  /\ [v.inst EXCEPT !.status = status] \in Instance
         /\ [v.inst EXCEPT !.status = status].visit = v.inst.visit
<1>1. v.inst \in Instance
  BY DEF Database
<1> QED
  BY <1>1 DEF Instance

\* The bulk cancellation of open rows.
LEMMA CancelOpenLemma ==
  ASSUME NEW c, Consistent(c), NEW ks,
         \A k \in ks : k \in TaskIds /\ c.task[k].status = "Open"
  PROVE  /\ Consistent(CancelOpen(c, ks)) /\ Later(c, CancelOpen(c, ks))
         /\ CancelOpen(c, ks).inst = c.inst
         /\ CancelOpen(c, ks).req = c.req
<1> DEFINE e == CancelOpen(c, ks)
<1>1. c \in Database /\ c.task \in [TaskIds -> Task]
  BY DEF Consistent, Database
<1>2. /\ e.inst = c.inst /\ e.req = c.req /\ e.clock = c.clock
      /\ e.task = [k \in TaskIds |-> IF k \in ks THEN [c.task[k] EXCEPT !.status = "Cancelled"]
                                                 ELSE c.task[k]]
  BY <1>1 DEF CancelOpen, Database
<1>3. ASSUME NEW k \in TaskIds
      PROVE  [c.task[k] EXCEPT !.status = "Cancelled"] \in Task
  <2>1. c.task[k] \in Task
    BY <1>1
  <2> QED
    BY <2>1 DEF Task, TaskStatuses
<1>4. e \in Database
  <2>1. e.task \in [TaskIds -> Task]
    BY <1>1, <1>2, <1>3
  <2> QED
    BY <1>1, <2>1 DEF CancelOpen, Database
<1>5. ASSUME NEW k \in TaskIds
      PROVE  /\ RowLater(c.task[k], e.task[k])
             /\ Decided(e.task[k]) => e.task[k].actor = e.task[k].owner
             /\ k[1] > c.inst.visit => e.task[k] = NoTask
  <2>1. CASE k \in ks
    <3>1. c.task[k] \in Task /\ c.task[k].status = "Open"
      BY <1>1, <2>1
    <3>2. e.task[k] = [c.task[k] EXCEPT !.status = "Cancelled"]
      BY <1>2, <2>1
    <3>3. c.task[k] # NoTask
      BY <3>1 DEF NoTask
    <3>4. ~(k[1] > c.inst.visit)
      BY <3>3 DEF Consistent
    <3>5. e.task[k].ver = c.task[k].ver /\ e.task[k].status = "Cancelled"
      BY <3>1, <3>2 DEF Task
    <3>6. c.task[k].ver \in Nat
      BY <3>1 DEF Task
    <3>7. ~Decided(c.task[k]) /\ ~Decided(e.task[k])
      BY <3>1, <3>5 DEF Decided
    <3>8. RowLater(c.task[k], e.task[k])
      BY <3>1, <3>2, <3>5, <3>6, <3>7 DEF RowLater
    <3> QED
      BY <3>4, <3>7, <3>8
  <2>2. CASE k \notin ks
    <3>1. e.task[k] = c.task[k]
      BY <1>2, <2>2
    <3>2. RowLater(c.task[k], c.task[k])
      BY <1>1, LaterReflexive DEF Later
    <3> QED
      BY <3>1, <3>2 DEF Consistent
  <2> QED
    BY <2>1, <2>2
<1> HIDE DEF e
<1>6. Consistent(e) /\ Later(c, e)
  BY <1>2, <1>4, <1>5, RowsLemma
<1> QED
  BY <1>2, <1>6 DEF e

LEMMA CancelStageLemma ==
  ASSUME NEW c, Consistent(c), NEW s
  PROVE  /\ Consistent(CancelStage(c, s)) /\ Later(c, CancelStage(c, s))
         /\ CancelStage(c, s).inst = c.inst
         /\ CancelStage(c, s).req = c.req
  BY CancelOpenLemma DEF CancelStage, OpenAt

\* What a bulk cancellation leaves of the snapshot.
LEMMA InstanceLaterStays ==
  ASSUME NEW v, NEW c, NEW e, InstanceLater(v, c), e.inst = c.inst, e.req = c.req
  PROVE  InstanceLater(v, e)
  BY DEF InstanceLater

-----------------------------------------------------------------------------
(* complete_workflow_task.                                                 *)

\* An open row whose stamp still fits may have been cancelled, not decided.
LEMMA UnmodifiedRow ==
  ASSUME NEW a \in Task, NEW b \in Task, RowLater(a, b), Unmodified(a, b), a.status = "Open"
  PROVE  ~Decided(b) /\ b.ver = a.ver /\ b.status # "None"
<1>1. CASE b = a
  BY <1>1 DEF Decided
<1>2. CASE b = [a EXCEPT !.status = "Cancelled"]
  BY <1>2 DEF Decided, Task
<1> QED
  BY <1>1, <1>2 DEF RowLater, Unmodified

\* A row saved over one of which the stamp still fitted.
LEMMA SavedRowLemma ==
  ASSUME NEW a \in Task, NEW b \in Task, RowLater(a, b), Unmodified(a, b), a.status = "Open",
         NEW row \in Task, row.ver = a.ver + 1
  PROVE  RowLater(b, row)
<1>1. ~Decided(b) /\ b.ver = a.ver
  BY UnmodifiedRow
<1>2. a.ver \in Nat
  BY DEF Task
<1> QED
  BY <1>1, <1>2 DEF RowLater

LEMMA DecisionType ==
  ASSUME NEW v \in Database, NEW c \in Database, NEW k \in TaskIds,
         NEW who \in Users, NEW action \in Decisions
  PROVE  LET row == Decision(v, c, k, who, action)
         IN  /\ row \in Task
             /\ row.ver = v.task[k].ver + 1
             /\ row.stage = v.task[k].stage
             /\ row.owner = v.task[k].owner
             /\ row.actor = who
<1> DEFINE row == Decision(v, c, k, who, action)
           mine == v.task[k]
           made == MakesOutput(v, k, action)
           status == IF action = "Reject" THEN "Rejected" ELSE "Completed"
           at == c.clock + 1
<1>1. mine \in Task
  BY DEF Database
<1>2. made \in BOOLEAN
  BY DEF MakesOutput
<1>3. at \in Nat
  BY DEF Database
<1>4. row = [mine EXCEPT !.status = status, !.action = action, !.actor = who, !.at = at,
                         !.output = made, !.ver = mine.ver + 1]
  BY DEF Decision
<1>5. status \in TaskStatuses
  BY DEF TaskStatuses
<1> HIDE DEF row, mine, made, at, status
<1>6. mine.ver + 1 \in Nat
  BY <1>1 DEF Task
<1>7. row \in Task
  BY <1>1, <1>2, <1>3, <1>4, <1>5, <1>6 DEF Task
<1>8. row.ver = mine.ver + 1 /\ row.stage = mine.stage /\ row.owner = mine.owner /\ row.actor = who
  BY <1>1, <1>4 DEF Task
<1> QED
  BY <1>7, <1>8 DEF row, mine

\* A row of the snapshot, open there and unmodified since, saved back with the
\* next stamp.
LEMMA SaveOpenRowLemma ==
  ASSUME NEW c, Consistent(c), NEW k \in TaskIds, NEW a \in Task,
         RowLater(a, c.task[k]), Unmodified(a, c.task[k]), a.status = "Open",
         NEW row \in Task, row.ver = a.ver + 1,
         Decided(row) => row.actor = row.owner,
         NEW e \in Database, e.inst = c.inst, e.req = c.req,
         \A x \in TaskIds : e.task[x] = IF x = k THEN row ELSE c.task[x]
  PROVE  Consistent(e) /\ Later(c, e)
<1>1. c \in Database /\ \A x \in TaskIds : c.task[x] \in Task
  BY DEF Consistent, Database
<1>2. ASSUME NEW x \in TaskIds
      PROVE  /\ RowLater(c.task[x], e.task[x])
             /\ Decided(e.task[x]) => e.task[x].actor = e.task[x].owner
             /\ x[1] > c.inst.visit => e.task[x] = NoTask
  <2>1. CASE x = k
    <3>1. c.task[k] \in Task
      BY <1>1
    <3>2. e.task[x] = row
      BY <2>1
    <3>3. RowLater(c.task[x], e.task[x])
      BY <2>1, <3>1, <3>2, SavedRowLemma
    <3>4. c.task[k] # NoTask
      BY <3>1, UnmodifiedRow DEF NoTask
    <3> QED
      BY <2>1, <3>2, <3>3, <3>4 DEF Consistent
  <2>2. CASE x # k
    <3>1. e.task[x] = c.task[x]
      BY <2>2
    <3>2. RowLater(c.task[x], c.task[x])
      BY <1>1, LaterReflexive DEF Later
    <3> QED
      BY <3>1, <3>2 DEF Consistent
  <2> QED
    BY <2>1, <2>2
<1> QED
  BY <1>2, RowsLemma

LEMMA ReturnStageType ==
  ASSUME NEW v \in Database, NEW k
  PROVE  ReturnStage(v.task, k) \subseteq Stages
<1>1. \A x \in TaskIds : v.task[x].stage \in Stages
  BY DEF Database, Task
<1> QED
  BY <1>1 DEF ReturnStage

\* Whatever follows the saved decision keeps the database consistent.
LEMMA OnwardLemma ==
  ASSUME NEW v \in Database, NEW c, Consistent(c), InstanceLater(v, c),
         NEW k \in TaskIds, NEW action \in Decisions, NEW d \in Onward(v, c, k, action)
  PROVE  Consistent(d) /\ Later(c, d)
<1> DEFINE s == v.task[k].stage
           e == CancelStage(c, s)
<1>1. c \in Database
  BY DEF Consistent
<1>2. Consistent(e) /\ Later(c, e) /\ InstanceLater(v, e)
  BY CancelStageLemma, InstanceLaterStays
<1>3. e \in Database
  BY <1>2 DEF Consistent
<1>4. ASSUME NEW x \in Stages, d \in Activate(v, e, x)
      PROVE  Consistent(d) /\ Later(c, d)
  <2>1. Consistent(d) /\ Later(e, d)
    BY <1>2, <1>4, ActivateLemma
  <2>2. d \in Database
    BY <2>1 DEF Consistent
  <2> QED
    BY <1>1, <1>2, <1>3, <2>1, <2>2, LaterTransitive
<1>5. ASSUME NEW x \in Stages, d \in Activate(v, c, x)
      PROVE  Consistent(d) /\ Later(c, d)
  BY <1>5, ActivateLemma
<1>6. CASE action = "Reject"
  <2>1. CASE d \in UNION {Activate(v, e, x) : x \in NextStage(s, "Reject")}
    BY <1>4, <2>1, RoutesStay
  <2>2. CASE d \in SaveInstance(v, e, [v.inst EXCEPT !.status = "Rejected"])
    <3>1. Consistent(d) /\ Later(e, d)
      BY <1>2, <2>2, NewStatusType, SameVisitLemma DEF InstanceStatuses
    <3>2. d \in Database
      BY <3>1 DEF Consistent
    <3> QED
      BY <1>1, <1>2, <1>3, <3>1, <3>2, LaterTransitive
  <2> QED
    BY <1>6, <2>1, <2>2 DEF Onward
<1>7. CASE action = "Return"
  <2>1. PICK x \in NextStage(s, "Return") \cup ReturnStage(v.task, k) : d \in Activate(v, e, x)
    BY <1>7 DEF Onward
  <2> QED
    BY <1>4, <2>1, RoutesStay, ReturnStageType
<1>8. CASE action \in {"Complete", "Approve"}
  <2>1. \/ \E x \in NextStage(s, action) : d \in Activate(v, e, x)
        \/ \E x \in NextStage(s, action) : d \in Activate(v, c, x)
        \/ d = c
    BY <1>8 DEF Onward
  <2> QED
    BY <1>1, <1>4, <1>5, <2>1, RoutesStay, LaterReflexive
<1> QED
  BY <1>6, <1>7, <1>8 DEF Decisions

LEMMA DecideLemma ==
  ASSUME NEW v \in Database, NEW c, Consistent(c), InstanceLater(v, c),
         NEW k \in TaskIds, RowLater(v.task[k], c.task[k]), v.task[k].status = "Open",
         NEW action \in Decisions, NEW d \in Decide(v, c, k, v.task[k].owner, action)
  PROVE  Consistent(d) /\ Later(c, d)
<1> DEFINE who == v.task[k].owner
           row == Decision(v, c, k, who, action)
           clock == c.clock + 1
           v1 == [v EXCEPT !.task[k] = row]
           c1 == [c EXCEPT !.task[k] = row, !.clock = clock]
<1>1. c \in Database /\ v.task[k] \in Task /\ who \in Users /\ clock \in Nat
  BY DEF Consistent, Database, Task
<1>2. /\ row \in Task /\ row.ver = v.task[k].ver + 1
      /\ row.owner = who /\ row.actor = who
  BY <1>1, DecisionType
<1>3. Unmodified(v.task[k], c.task[k]) /\ d \in Onward(v1, c1, k, action)
  BY DEF Decide
<1> HIDE DEF row, clock
<1>4. Consistent(c1) /\ Later(c, c1) /\ c1.inst = c.inst /\ c1.req = c.req
  <2>1. /\ c1 \in Database /\ c1.inst = c.inst /\ c1.req = c.req
        /\ \A x \in TaskIds : c1.task[x] = IF x = k THEN row ELSE c.task[x]
    BY <1>1, <1>2 DEF Database
  <2> DEFINE a == v.task[k]
  <2>2. a \in Task /\ RowLater(a, c.task[k]) /\ a.status = "Open"
    BY <1>1
  <2>3. Unmodified(a, c.task[k]) /\ row.ver = a.ver + 1
    BY <1>2, <1>3
  <2> HIDE DEF a, c1
  <2> QED
    BY <1>2, <2>1, <2>2, <2>3, SaveOpenRowLemma
<1>5. v1 \in Database /\ v1.inst = v.inst /\ v1.req = v.req
  BY <1>2 DEF Database
<1>6. InstanceLater(v1, c1)
  BY <1>4, <1>5 DEF InstanceLater
<1> HIDE DEF v1, c1
<1>7. Consistent(d) /\ Later(c1, d)
  BY <1>3, <1>4, <1>5, <1>6, OnwardLemma
<1>8. c1 \in Database /\ d \in Database
  BY <1>4, <1>7 DEF Consistent
<1> QED
  BY <1>1, <1>4, <1>7, <1>8, LaterTransitive

-----------------------------------------------------------------------------
(* The other handlers.                                                     *)

LEMMA CancelRequestLemma ==
  ASSUME NEW v \in Database, NEW c, Consistent(c), InstanceLater(v, c),
         NEW d \in CancelRequest(v, c)
  PROVE  Consistent(d) /\ Later(c, d)
<1> DEFINE e == CancelOpen(c, {k \in TaskIds : c.task[k].status = "Open"})
<1>1. Consistent(e) /\ Later(c, e) /\ InstanceLater(v, e)
  BY CancelOpenLemma, InstanceLaterStays
<1>2. d \in SaveInstance(v, e, [v.inst EXCEPT !.status = "Cancelled"])
  BY DEF CancelRequest
<1> HIDE DEF e
<1>3. Consistent(d) /\ Later(e, d)
  BY <1>1, <1>2, NewStatusType, SameVisitLemma DEF InstanceStatuses
<1>4. c \in Database /\ e \in Database /\ d \in Database
  BY <1>1, <1>3 DEF Consistent
<1> QED
  BY <1>1, <1>3, <1>4, LaterTransitive

\* The edit, and what a resubmission adds to it.
LEMMA UpdateShape ==
  ASSUME NEW v, NEW c, NEW d \in UpdateRequest(v, c)
  PROVE  \E x \in SaveInstance([v EXCEPT !.req = c.req], [c EXCEPT !.req.edits = @ + 1], v.inst) :
           \/ d = x
           \/ \E k \in OwnFormTasks(v.task) :
                d \in Decide([v EXCEPT !.inst = x.inst, !.req = x.req], x, k, Initiator, "Complete")
<1> DEFINE saved == SaveInstance([v EXCEPT !.req = c.req], [c EXCEPT !.req.edits = @ + 1], v.inst)
<1>1. d \in IF c.req.key = "returned"
            THEN UNION {UNION {Decide([v EXCEPT !.inst = x.inst, !.req = x.req], x,
                                      k, Initiator, "Complete") : x \in saved}
                          : k \in OwnFormTasks(v.task)}
            ELSE IF HasActed(v.task) THEN {} ELSE saved
  BY DEF UpdateRequest
<1> HIDE DEF saved
<1>2. CASE c.req.key = "returned"
  <2>1. PICK k \in OwnFormTasks(v.task) :
          d \in UNION {Decide([v EXCEPT !.inst = x.inst, !.req = x.req], x,
                              k, Initiator, "Complete") : x \in saved}
    BY <1>1, <1>2
  <2> QED
    BY <2>1 DEF saved
<1>3. CASE c.req.key # "returned"
  BY <1>1, <1>3 DEF saved
<1> QED
  BY <1>2, <1>3

\* The edit stamps the instance and leaves its visit and the tasks alone.
LEMMA EditLemma ==
  ASSUME NEW v \in Database, NEW c, Consistent(c), Later(v, c),
         NEW x \in SaveInstance([v EXCEPT !.req = c.req], [c EXCEPT !.req.edits = @ + 1], v.inst)
  PROVE  /\ Consistent(x) /\ Later(c, x) /\ x.task = c.task
         /\ v.inst = c.inst /\ x.inst.visit = c.inst.visit
<1> DEFINE v0 == [v EXCEPT !.req = c.req]
           c0 == [c EXCEPT !.req.edits = @ + 1]
<1>1. c \in Database /\ c.req \in Request /\ c.inst \in Instance /\ v.inst \in Instance
  BY DEF Consistent, Database
<1>2. v0 \in Database /\ v0.inst = v.inst /\ v0.req = c.req
  BY <1>1 DEF Database
<1>3. /\ c0.inst = c.inst /\ c0.task = c.task /\ c0.clock = c.clock
      /\ c0.req = [c.req EXCEPT !.edits = @ + 1]
  BY <1>1 DEF Database
<1>4. c0.req \in Request /\ c0.req.key = c.req.key
  BY <1>1, <1>3 DEF Request
<1>5. c0 \in Database
  BY <1>1, <1>3, <1>4 DEF Database
<1>6. \A k \in TaskIds : RowLater(c.task[k], c.task[k])
  BY <1>1, LaterReflexive DEF Later
<1>7. Consistent(c0) /\ Later(c, c0)
  <2>1. \A k \in TaskIds : /\ Decided(c0.task[k]) => c0.task[k].actor = c0.task[k].owner
                           /\ k[1] > c.inst.visit => c0.task[k] = NoTask
    BY <1>3 DEF Consistent
  <2> QED
    BY <1>3, <1>4, <1>5, <1>6, <2>1, RowsLemma
<1>8. InstanceLater(v0, c0)
  BY <1>2, <1>3, <1>4 DEF InstanceLater, Later
<1>9. x \in SaveInstance(v0, c0, v0.inst)
  BY <1>2
<1> HIDE DEF v0, c0
<1>10. v0.inst \in Instance /\ v0.inst.visit = v0.inst.visit
  BY <1>1, <1>2
<1>11. /\ Consistent(x) /\ Later(c0, x) /\ x.task = c0.task /\ v0.inst = c0.inst
       /\ x.inst = [v0.inst EXCEPT !.ver = c0.inst.ver + 1]
  BY <1>2, <1>7, <1>8, <1>9, <1>10, SameVisitLemma
<1>12. x.inst.visit = c.inst.visit
  BY <1>1, <1>2, <1>3, <1>11 DEF Instance
<1>13. Later(c, x)
  BY <1>1, <1>5, <1>7, <1>11, LaterTransitive DEF Consistent
<1> QED
  BY <1>2, <1>3, <1>11, <1>12, <1>13

LEMMA UpdateRequestLemma ==
  ASSUME NEW v \in Database, NEW c, Consistent(c), Later(v, c),
         NEW d \in UpdateRequest(v, c)
  PROVE  Consistent(d) /\ Later(c, d)
<1>1. PICK x \in SaveInstance([v EXCEPT !.req = c.req], [c EXCEPT !.req.edits = @ + 1], v.inst) :
        \/ d = x
        \/ \E k \in OwnFormTasks(v.task) :
             d \in Decide([v EXCEPT !.inst = x.inst, !.req = x.req], x, k, Initiator, "Complete")
  BY UpdateShape
<1>2. Consistent(x) /\ Later(c, x) /\ x.task = c.task
  BY EditLemma
<1>3. c \in Database /\ x \in Database
  BY <1>2 DEF Consistent
<1>4. ASSUME NEW k \in OwnFormTasks(v.task),
             d \in Decide([v EXCEPT !.inst = x.inst, !.req = x.req], x, k, Initiator, "Complete")
      PROVE  Consistent(d) /\ Later(c, d)
  <2> DEFINE v2 == [v EXCEPT !.inst = x.inst, !.req = x.req]
  <2>1. v2 \in Database /\ v2.inst = x.inst /\ v2.req = x.req /\ v2.task = v.task
    BY <1>3 DEF Database
  <2>2. k \in TaskIds /\ v.task[k].status = "Open" /\ v.task[k].owner = Initiator
    BY DEF OwnFormTasks, OpenAt
  <2>3. RowLater(v2.task[k], x.task[k])
    BY <1>2, <2>1, <2>2 DEF Later
  <2>4. InstanceLater(v2, x)
    BY <1>3, <2>1 DEF InstanceLater, Database, Instance
  <2>5. d \in Decide(v2, x, k, v2.task[k].owner, "Complete")
    BY <1>4, <2>1, <2>2
  <2> HIDE DEF v2
  <2>6. Consistent(d) /\ Later(x, d)
    BY <1>2, <2>1, <2>2, <2>3, <2>4, <2>5, DecideLemma DEF Decisions
  <2>7. d \in Database
    BY <2>6 DEF Consistent
  <2> QED
    BY <1>2, <1>3, <2>6, <2>7, LaterTransitive
<1> QED
  BY <1>1, <1>2, <1>4

LEMMA SaveDraftLemma ==
  ASSUME NEW v \in Database, NEW c, Consistent(c), Later(v, c),
         NEW k \in TaskIds, v.task[k].status = "Open", NEW d \in SaveDraft(v, c, k)
  PROVE  Consistent(d) /\ Later(c, d)
<1> DEFINE row == [v.task[k] EXCEPT !.ver = @ + 1]
<1>1. c \in Database /\ c.clock \in Nat /\ v.task[k] \in Task
  BY DEF Consistent, Database
<1>2. row \in Task /\ row.ver = v.task[k].ver + 1 /\ row.status = "Open"
  BY <1>1 DEF Task
<1>3. Unmodified(v.task[k], c.task[k]) /\ d = [c EXCEPT !.task[k] = row]
  BY DEF SaveDraft, SaveRow
<1>4. /\ d \in Database /\ d.inst = c.inst /\ d.req = c.req
      /\ \A x \in TaskIds : d.task[x] = IF x = k THEN row ELSE c.task[x]
  BY <1>1, <1>2, <1>3 DEF Database
<1>5. RowLater(v.task[k], c.task[k])
  BY DEF Later
<1>6. ~Decided(row)
  BY <1>2 DEF Decided
<1> HIDE DEF row
<1> QED
  BY <1>1, <1>2, <1>3, <1>4, <1>5, <1>6, SaveOpenRowLemma

LEMMA DeadlinesLemma ==
  ASSUME NEW v \in Database, NEW c, Consistent(c), Later(v, c), NEW ks \in SUBSET TaskIds,
         \A k \in ks : v.task[k].status = "Open", NEW late, NEW to \in [ks -> Users]
  PROVE  Consistent(Deadlines(v, c, ks, late, to)) /\ Later(c, Deadlines(v, c, ks, late, to))
<1> DEFINE e == Deadlines(v, c, ks, late, to)
           row(k) == [IF k \in late THEN Escalated(v.task[k], to[k]) ELSE Reminded(v.task[k])
                        EXCEPT !.ver = @ + 1]
           saved(k) == k \in ks /\ Unmodified(v.task[k], c.task[k])
<1>1. c \in Database /\ \A k \in TaskIds : c.task[k] \in Task /\ v.task[k] \in Task
  BY DEF Consistent, Database
<1>2. /\ e.inst = c.inst /\ e.req = c.req /\ e.clock = c.clock
      /\ e.task = [k \in TaskIds |-> IF saved(k) THEN row(k) ELSE c.task[k]]
  BY <1>1 DEF Deadlines, Database
<1>3. ASSUME NEW k \in ks
      PROVE  row(k) \in Task /\ row(k).ver = v.task[k].ver + 1 /\ row(k).status = "Open"
  <2>1. v.task[k] \in Task /\ v.task[k].status = "Open" /\ to[k] \in Users
    BY <1>1
  <2> DEFINE owner == IF Config[v.task[k].stage].reassign THEN to[k] ELSE v.task[k].owner
             r == [v.task[k] EXCEPT !.escalated = TRUE, !.owner = owner]
             m == [v.task[k] EXCEPT !.reminded = TRUE]
  <2>2. owner \in Users
    BY <2>1 DEF Task
  <2>3. Escalated(v.task[k], to[k]) = r /\ Reminded(v.task[k]) = m
    BY DEF Escalated, Reminded
  <2> HIDE DEF owner
  <2>4. r \in Task /\ r.ver = v.task[k].ver /\ r.status = "Open"
    BY <2>1, <2>2 DEF Task
  <2>5. m \in Task /\ m.ver = v.task[k].ver /\ m.status = "Open"
    BY <2>1 DEF Task
  <2> HIDE DEF r, m
  <2>6. CASE k \in late
    BY <2>3, <2>4, <2>6 DEF Task
  <2>7. CASE k \notin late
    BY <2>3, <2>5, <2>7 DEF Task
  <2> QED
    BY <2>6, <2>7
<1> HIDE DEF row
<1>4. e \in Database
  <2>1. e.task \in [TaskIds -> Task]
    BY <1>1, <1>2, <1>3
  <2> QED
    BY <1>1, <2>1 DEF Deadlines, Database
<1>5. ASSUME NEW k \in TaskIds
      PROVE  /\ RowLater(c.task[k], e.task[k])
             /\ Decided(e.task[k]) => e.task[k].actor = e.task[k].owner
             /\ k[1] > c.inst.visit => e.task[k] = NoTask
  <2>1. CASE saved(k)
    <3>1. e.task[k] = row(k)
      BY <1>2, <2>1
    <3>2. ~Decided(e.task[k])
      BY <1>3, <2>1, <3>1 DEF Decided
    <3>3. RowLater(v.task[k], c.task[k])
      BY DEF Later
    <3>4. RowLater(c.task[k], e.task[k])
      BY <1>1, <1>3, <2>1, <3>1, <3>3, SavedRowLemma
    <3>5. c.task[k] # NoTask
      BY <1>1, <2>1, <3>3, UnmodifiedRow DEF NoTask
    <3> QED
      BY <3>2, <3>4, <3>5 DEF Consistent
  <2>2. CASE ~saved(k)
    <3>1. e.task[k] = c.task[k]
      BY <1>2, <2>2
    <3>2. RowLater(c.task[k], c.task[k])
      BY <1>1, LaterReflexive DEF Later
    <3> QED
      BY <3>1, <3>2 DEF Consistent
  <2> QED
    BY <2>1, <2>2
<1> HIDE DEF e
<1>6. Consistent(e) /\ Later(c, e)
  BY <1>2, <1>4, <1>5, RowsLemma
<1> QED
  BY <1>6 DEF e

-----------------------------------------------------------------------------
(* The initial states: one create_request.                                 *)

LEMMA BlankConsistent == Consistent(Blank)
<1>1. NoTask \in Task /\ NoTask.status = "None"
  BY StartStageType, DefinitionTypes DEF NoTask, Task, TaskStatuses
<1>2. Blank.task \in [TaskIds -> Task]
  BY <1>1 DEF Blank
<1>3. Blank.inst \in Instance
  BY StartStageType DEF Blank, Instance, InstanceStatuses
<1>4. Blank.req \in Request
  BY DEF Blank, Request, StatusKeys
<1>5. Blank \in Database
  BY <1>2, <1>3, <1>4 DEF Blank, Database
<1>6. Blank.inst.status = "Running" /\ \A k \in TaskIds : Blank.task[k] = NoTask
  BY DEF Blank
<1> QED
  BY <1>1, <1>5, <1>6 DEF Consistent, Decided

LEMMA CreatedConsistent ==
  ASSUME NEW d \in Created
  PROVE  Consistent(d)
<1>1. ASSUME NEW x \in Started PROVE Consistent(x)
  <2>1. PICK s \in Stages : x \in Activate(Blank, Blank, s)
    BY RoutesStay DEF Started
  <2>2. Blank \in Database /\ InstanceLater(Blank, Blank)
    BY BlankConsistent, LaterReflexive DEF Consistent, Later
  <2> QED
    BY <2>1, <2>2, BlankConsistent, ActivateLemma
<1>2. PICK x \in Started :
        \/ d = x
        \/ \E k \in OwnFormTasks(x.task) : d \in Decide(x, x, k, Initiator, "Complete")
  BY DEF Created
<1>3. x \in Database /\ Consistent(x)
  BY <1>1 DEF Consistent
<1>4. CASE \E k \in OwnFormTasks(x.task) : d \in Decide(x, x, k, Initiator, "Complete")
  <2>1. PICK k \in OwnFormTasks(x.task) : d \in Decide(x, x, k, Initiator, "Complete")
    BY <1>4
  <2>2. k \in TaskIds /\ x.task[k].status = "Open" /\ x.task[k].owner = Initiator
    BY DEF OwnFormTasks, OpenAt
  <2>3. InstanceLater(x, x) /\ RowLater(x.task[k], x.task[k])
    BY <1>3, <2>2, LaterReflexive DEF Later
  <2> QED
    BY <1>3, <2>1, <2>2, <2>3, DecideLemma DEF Decisions
<1> QED
  BY <1>2, <1>3, <1>4

LEMMA InitialInvariant == Init => IndInv
<1> SUFFICES ASSUME Init PROVE IndInv
  OBVIOUS
<1>1. Consistent(db)
  BY CreatedConsistent DEF Init
<1>2. TypeOK
  BY <1>1 DEF Consistent, TypeOK, Init
<1> QED
  BY <1>1, <1>2 DEF IndInv, Init

-----------------------------------------------------------------------------
(* Every step.                                                             *)

\* A transaction that begins has the committed state as its snapshot.
LEMMA BeginLemma ==
  ASSUME IndInv, NEW w \in Workers,
         NEW op \in {"decide", "draft", "deadlines", "cancel", "update"},
         NEW on \in SUBSET TaskIds, \A k \in on : db.task[k].status = "Open",
         NEW action \in Decisions \cup {"None"}, op = "decide" => action \in Decisions,
         Begin(w, op, on, action)
  PROVE  IndInv' /\ Consistent(db') /\ Later(db, db')
<1> DEFINE t == [op |-> op, on |-> on, action |-> action, snap |-> db]
<1>1. db \in Database /\ Consistent(db) /\ db' = db /\ txn' = [txn EXCEPT ![w] = t]
  BY DEF IndInv, TypeOK, Begin
<1>2. Later(db, db)
  BY <1>1, LaterReflexive
<1>3. t \in Transaction
  BY <1>1 DEF Transaction
<1>4. TypeOK'
  <2> HIDE DEF t
  <2> QED
    BY <1>1, <1>3 DEF IndInv, TypeOK
<1>5. ASSUME NEW x \in Workers, txn'[x] # Idle
      PROVE  SnapshotOK(txn[x])'
  <2>1. CASE x = w
    <3>1. txn'[x] = t
      BY <1>1, <2>1 DEF IndInv, TypeOK
    <3> QED
      BY <1>1, <1>2, <3>1 DEF SnapshotOK
  <2>2. CASE x # w
    <3>1. txn'[x] = txn[x]
      BY <1>1, <2>2 DEF IndInv, TypeOK
    <3>2. SnapshotOK(txn[x])
      BY <1>5, <3>1 DEF IndInv
    <3> QED
      BY <1>1, <3>1, <3>2 DEF SnapshotOK
  <2> QED
    BY <2>1, <2>2
<1> QED
  BY <1>1, <1>2, <1>4, <1>5 DEF IndInv

\* A transaction that ends leaves a later state, also for every other snapshot.
LEMMA EndLemma ==
  ASSUME IndInv, NEW w \in Workers, txn' = [txn EXCEPT ![w] = Idle],
         Consistent(db'), Later(db, db')
  PROVE  IndInv'
<1>1. db \in Database /\ db' \in Database
  BY DEF IndInv, TypeOK, Consistent
<1>2. TypeOK'
  BY <1>1 DEF IndInv, TypeOK
<1>3. ASSUME NEW x \in Workers, txn'[x] # Idle
      PROVE  SnapshotOK(txn[x])'
  <2>1. txn'[x] = txn[x]
    BY <1>3 DEF IndInv, TypeOK
  <2>2. SnapshotOK(txn[x])
    BY <1>3, <2>1 DEF IndInv
  <2>3. txn[x] \in Transaction
    BY <1>3, <2>1 DEF IndInv, TypeOK
  <2>4. txn[x].snap \in Database
    BY <2>3 DEF Transaction
  <2>5. Later(txn[x].snap, db')
    BY <1>1, <2>2, <2>4, LaterTransitive DEF SnapshotOK
  <2> QED
    BY <2>1, <2>2, <2>5 DEF SnapshotOK
<1> QED
  BY <1>2, <1>3 DEF IndInv

\* What a worker in the middle of a call knows.
LEMMA InFlight ==
  ASSUME IndInv, NEW w \in Workers, txn[w].op # "idle"
  PROVE  /\ txn[w] \in Transaction /\ txn[w].snap \in Database
         /\ txn[w].on \in SUBSET TaskIds
         /\ Consistent(db) /\ Later(txn[w].snap, db)
         /\ \A k \in txn[w].on : txn[w].snap.task[k].status = "Open"
         /\ txn[w].op = "decide" => txn[w].action \in Decisions
<1>1. txn[w] # Idle
  BY DEF Idle
<1>2. txn[w] \in Transaction
  BY <1>1 DEF IndInv, TypeOK
<1>3. SnapshotOK(txn[w])
  BY <1>1 DEF IndInv
<1> QED
  BY <1>2, <1>3 DEF IndInv, Transaction, SnapshotOK

LEMMA StepLemma ==
  ASSUME IndInv, NEW w \in Workers, Step(w)
  PROVE  IndInv' /\ Later(db, db')
<1> DEFINE v == txn[w].snap
           Committed == Consistent(db') /\ Later(db, db')
<1>1. CASE BeginDecide(w)
  <2>1. PICK k \in TaskIds, action \in Decisions :
          MayBeDecided(db, k, db.task[k].owner, action) /\ Begin(w, "decide", {k}, action)
    BY <1>1 DEF BeginDecide
  <2>2. db.task[k].status = "Open"
    BY <2>1 DEF MayBeDecided
  <2>3. {k} \in SUBSET TaskIds /\ \A x \in {k} : db.task[x].status = "Open"
    BY <2>2
  <2> QED
    BY <2>1, <2>3, BeginLemma
<1>2. CASE BeginDraft(w)
  <2>1. PICK k \in TaskIds : db.task[k].status = "Open" /\ Begin(w, "draft", {k}, "None")
    BY <1>2 DEF BeginDraft
  <2>2. {k} \in SUBSET TaskIds /\ \A x \in {k} : db.task[x].status = "Open"
    BY <2>1
  <2> QED
    BY <2>1, <2>2, BeginLemma
<1>3. CASE BeginDeadlines(w)
  <2>1. PICK ks \in SUBSET TasksWithDeadline(db) : Begin(w, "deadlines", ks, "None")
    BY <1>3 DEF BeginDeadlines
  <2>2. ks \in SUBSET TaskIds /\ \A k \in ks : db.task[k].status = "Open"
    BY DEF TasksWithDeadline
  <2> QED
    BY <2>1, <2>2, BeginLemma
<1>4. CASE BeginCancel(w)
  <2>1. Begin(w, "cancel", {}, "None")
    BY <1>4 DEF BeginCancel
  <2> QED
    BY <2>1, BeginLemma
<1>5. CASE BeginUpdate(w)
  <2>1. Begin(w, "update", {}, "None")
    BY <1>5 DEF BeginUpdate
  <2> QED
    BY <2>1, BeginLemma
<1>6. ASSUME txn[w].op # "idle", txn' = [txn EXCEPT ![w] = Idle], Committed
      PROVE  IndInv' /\ Later(db, db')
  BY <1>6, EndLemma
<1>7. CASE txn[w].op = "decide" /\ FinishDecide(w)
  <2>1. PICK k \in txn[w].on : Commit(w, "decide", Decide(v, db, k, v.task[k].owner, txn[w].action))
    BY <1>7 DEF FinishDecide
  <2>2. v \in Database /\ Consistent(db) /\ Later(v, db) /\ k \in TaskIds
        /\ v.task[k].status = "Open" /\ txn[w].action \in Decisions
    BY <1>7, InFlight
  <2>3. InstanceLater(v, db) /\ RowLater(v.task[k], db.task[k])
    BY <2>2 DEF Later
  <2>4. db' \in Decide(v, db, k, v.task[k].owner, txn[w].action)
    BY <2>1 DEF Commit
  <2> HIDE DEF v
  <2>5. Committed
    BY <2>2, <2>3, <2>4, DecideLemma
  <2> QED
    BY <1>6, <1>7, <2>1, <2>5 DEF Commit
<1>8. CASE txn[w].op = "draft" /\ FinishDraft(w)
  <2>1. PICK k \in txn[w].on : Commit(w, "draft", SaveDraft(v, db, k))
    BY <1>8 DEF FinishDraft
  <2>2. v \in Database /\ Consistent(db) /\ Later(v, db) /\ k \in TaskIds
        /\ v.task[k].status = "Open"
    BY <1>8, InFlight
  <2>3. db' \in SaveDraft(v, db, k)
    BY <2>1 DEF Commit
  <2> HIDE DEF v
  <2>4. Committed
    BY <2>2, <2>3, SaveDraftLemma
  <2> QED
    BY <1>6, <1>8, <2>1, <2>4 DEF Commit
<1>9. CASE txn[w].op = "deadlines" /\ FinishDeadlines(w)
  <2>1. PICK late \in SUBSET txn[w].on, to \in [txn[w].on -> Users] :
          Commit(w, "deadlines", {Deadlines(v, db, txn[w].on, late, to)})
    BY <1>9 DEF FinishDeadlines
  <2>2. v \in Database /\ Consistent(db) /\ Later(v, db) /\ txn[w].on \in SUBSET TaskIds
        /\ \A k \in txn[w].on : v.task[k].status = "Open"
    BY <1>9, InFlight
  <2>3. db' = Deadlines(v, db, txn[w].on, late, to)
    BY <2>1 DEF Commit
  <2> DEFINE ks == txn[w].on
  <2>4. to \in [ks -> Users] /\ ks \in SUBSET TaskIds /\ db' = Deadlines(v, db, ks, late, to)
        /\ \A k \in ks : v.task[k].status = "Open"
    BY <2>2, <2>3
  <2> HIDE DEF v, ks
  <2>5. Consistent(Deadlines(v, db, ks, late, to)) /\ Later(db, Deadlines(v, db, ks, late, to))
    BY <2>2, <2>4, DeadlinesLemma
  <2>6. Committed
    BY <2>4, <2>5
  <2> QED
    BY <1>6, <1>9, <2>1, <2>6 DEF Commit
<1>10. CASE txn[w].op = "cancel" /\ FinishCancel(w)
  <2>1. v \in Database /\ Consistent(db) /\ InstanceLater(v, db)
    BY <1>10, InFlight DEF Later
  <2>2. db' \in CancelRequest(v, db) /\ txn' = [txn EXCEPT ![w] = Idle]
    BY <1>10 DEF FinishCancel, Commit
  <2> HIDE DEF v
  <2>3. Committed
    BY <2>1, <2>2, CancelRequestLemma
  <2> QED
    BY <1>6, <1>10, <2>2, <2>3
<1>11. CASE txn[w].op = "update" /\ FinishUpdate(w)
  <2>1. v \in Database /\ Consistent(db) /\ Later(v, db)
    BY <1>11, InFlight
  <2>2. db' \in UpdateRequest(v, db) /\ txn' = [txn EXCEPT ![w] = Idle]
    BY <1>11 DEF FinishUpdate, Commit
  <2> HIDE DEF v
  <2>3. Committed
    BY <2>1, <2>2, UpdateRequestLemma
  <2> QED
    BY <1>6, <1>11, <2>2, <2>3
<1>12. CASE Abort(w)
  <2>1. txn' = [txn EXCEPT ![w] = Idle] /\ db' = db
    BY <1>12 DEF Abort
  <2>2. Committed
    BY <2>1, LaterReflexive DEF IndInv, TypeOK
  <2> QED
    BY <2>1, <2>2, EndLemma
<1> QED
  BY <1>1, <1>2, <1>3, <1>4, <1>5, <1>7, <1>8, <1>9, <1>10, <1>11, <1>12 DEF Step

LEMMA NextLemma == IndInv /\ [Next]_vars => IndInv' /\ Later(db, db')
<1> SUFFICES ASSUME IndInv, [Next]_vars PROVE IndInv' /\ Later(db, db')
  OBVIOUS
<1>1. CASE Next
  BY <1>1, StepLemma DEF Next
<1>2. CASE UNCHANGED vars
  <2>1. Later(db, db)
    BY LaterReflexive DEF IndInv, TypeOK
  <2> QED
    BY <1>2, <2>1 DEF vars, IndInv, TypeOK, SnapshotOK
<1> QED
  BY <1>1, <1>2

-----------------------------------------------------------------------------
(* The theorems.                                                           *)

\* The strengthened invariant holds in every reachable state.
THEOREM Invariance == Spec => []IndInv
<1>1. IndInv /\ [Next]_vars => IndInv'
  BY NextLemma
<1> QED
  BY <1>1, InitialInvariant, PTL DEF Spec

\* Every row, and every transaction in flight, keeps the shape of its DocType.
THEOREM Typing == Spec => []TypeOK
<1>1. IndInv => TypeOK
  BY DEF IndInv
<1> QED
  BY <1>1, Invariance, PTL

\* complete_workflow_task and the deadline job, for any users and workers: a
\* decided task carries the decision of the user who held it.
THEOREM DecidedByOwnerHolds == Spec => []DecidedByOwner
<1>1. IndInv => DecidedByOwner
  BY DEF IndInv, Consistent, DecidedByOwner
<1> QED
  BY <1>1, Invariance, PTL

\* on_instance_update, for any users and workers: the key of an ended request
\* is the outcome of its instance.
THEOREM OutcomeMirroredHolds == Spec => []OutcomeMirrored
<1>1. IndInv => OutcomeMirrored
  BY DEF IndInv, Consistent, OutcomeMirrored
<1> QED
  BY <1>1, Invariance, PTL

\* doc.save's stamp check, for any users and workers: no transaction changes a
\* decision that has been committed.
THEOREM DecisionsStandHolds == Spec => DecisionsStand
<1> DEFINE A == \A k \in TaskIds : Decided(db.task[k]) =>
                  /\ Decided(db'.task[k])
                  /\ db'.task[k].action = db.task[k].action
                  /\ db'.task[k].actor = db.task[k].actor
<1>1. IndInv /\ [Next]_vars => [A]_vars
  <2>1. Later(db, db') => A
    BY DEF Later, RowLater
  <2> QED
    BY <2>1, NextLemma
<1>2. Spec => [][A]_vars
  BY <1>1, Invariance, PTL DEF Spec
<1> QED
  BY <1>2 DEF DecisionsStand

-----------------------------------------------------------------------------
(* No visit of a stage creates its output twice: what a snapshot tells a   *)
(* decision about the tasks of its visit.                                  *)

\* The tasks of a visit are of one stage.
OneStage(d) ==
  \A x, y \in TaskIds :
    (x[1] = y[1] /\ d.task[x].status # "None" /\ d.task[y].status # "None")
      => d.task[x].stage = d.task[y].stage

\* Only a decision makes an output, and where only decisions save it is the
\* last of its visit and the only one to make it.
OutputsSettled(d) ==
  \A x \in TaskIds : d.task[x].output =>
    /\ Decided(d.task[x])
    /\ OnlyDecided(d.task[x].stage) =>
         \A y \in TaskIds : y[1] = x[1] =>
           /\ d.task[y].status # "Open"
           /\ d.task[y].output => y = x

\* What becomes of a task that existed, or could have existed, in a snapshot:
\* nobody is added to a visit, and a task only decisions save is never reopened.
TaskLater(a, b) ==
  /\ a.status = "None" => b.status = "None"
  /\ a.status # "None" => b.status # "None" /\ b.stage = a.stage
  /\ (a.status # "Open" /\ OnlyDecided(a.stage)) => b.status # "Open"

\* An output always moves the instance.
Progress(a, b) ==
  /\ a.inst.visit <= b.inst.visit
  /\ \A x \in TaskIds : x[1] <= a.inst.visit => TaskLater(a.task[x], b.task[x])
  /\ \A x \in TaskIds : (a.inst.ver = b.inst.ver /\ b.task[x].output) => a.task[x].output

\* Drafts and the deadline job take up the tasks their stages let them save.
SavesWhatItMay(t) ==
  /\ t.op = "draft" => \A k \in t.on : Config[t.snap.task[k].stage].draft
  /\ t.op = "deadlines" => \A k \in t.on : Config[t.snap.task[k].stage].deadline

Settled(d) == OneStage(d) /\ OutputsSettled(d)

OutputInv ==
  /\ IndInv
  /\ Settled(db)
  /\ \A w \in Workers : txn[w] # Idle =>
       /\ Settled(txn[w].snap)
       /\ Progress(txn[w].snap, db)
       /\ SavesWhatItMay(txn[w])

-----------------------------------------------------------------------------
(* What the parts of a handler do to the rows that are there.              *)

\* The row is as it was, or its task has been cancelled.
Kept(a, b) ==
  /\ b.stage = a.stage /\ b.output = a.output
  /\ b.status = a.status \/ (a.status = "Open" /\ b.status = "Cancelled")

\* The rows of the visits so far are kept, those of a new visit have no output.
Calm(c, d) ==
  /\ c.inst.visit <= d.inst.visit
  /\ \A x \in TaskIds : IF x[1] <= c.inst.visit THEN Kept(c.task[x], d.task[x])
                                                 ELSE ~d.task[x].output

LEMMA VisitNumber ==
  ASSUME NEW x \in TaskIds
  PROVE  x[1] \in Nat /\ x[2] \in Users
  BY BoundsAreNumbers DEF TaskIds, Visits

LEMMA NoTaskFields ==
  NoTask.status = "None" /\ NoTask.output = FALSE /\ NoTask.ver = 0
  BY DEF NoTask

LEMMA NewTaskFields ==
  ASSUME NEW s, NEW u
  PROVE  NewTask(s, u).status = "Open" /\ NewTask(s, u).stage = s
         /\ NewTask(s, u).output = FALSE
  BY DEF NewTask, NoTask

LEMMA VisitIsNumber ==
  ASSUME NEW d, Consistent(d)
  PROVE  /\ d \in Database /\ d.inst \in Instance
         /\ d.inst.visit \in Nat /\ d.inst.ver \in Nat
         /\ \A x \in TaskIds : d.task[x] \in Task
  BY DEF Consistent, Database, Instance

LEMMA CalmTransitive ==
  ASSUME NEW a, NEW b, NEW c, Consistent(a), Consistent(b), Consistent(c),
         Calm(a, b), Calm(b, c)
  PROVE  Calm(a, c)
<1>1. a.inst.visit \in Nat /\ b.inst.visit \in Nat /\ c.inst.visit \in Nat
  BY VisitIsNumber
<1>2. a.inst.visit <= c.inst.visit
  BY <1>1 DEF Calm
<1>3. ASSUME NEW x \in TaskIds
      PROVE  IF x[1] <= a.inst.visit THEN Kept(a.task[x], c.task[x]) ELSE ~c.task[x].output
  <2>1. x[1] \in Nat
    BY VisitNumber
  <2>2. CASE x[1] <= a.inst.visit
    <3>1. x[1] <= b.inst.visit
      BY <1>1, <2>1, <2>2 DEF Calm
    <3>2. Kept(a.task[x], b.task[x]) /\ Kept(b.task[x], c.task[x])
      BY <2>2, <3>1 DEF Calm
    <3> QED
      BY <2>2, <3>2 DEF Kept
  <2>3. CASE ~(x[1] <= a.inst.visit)
    <3>1. ~b.task[x].output
      BY <2>3 DEF Calm
    <3>2. CASE x[1] <= b.inst.visit
      BY <2>3, <3>1, <3>2 DEF Calm, Kept
    <3>3. CASE ~(x[1] <= b.inst.visit)
      BY <2>3, <3>3 DEF Calm
    <3> QED
      BY <3>2, <3>3
  <2> QED
    BY <2>2, <2>3
<1> QED
  BY <1>2, <1>3 DEF Calm

\* A write that leaves the rows alone.
LEMMA SameTasksCalm ==
  ASSUME NEW c, NEW d, Consistent(c), Consistent(d), d.task = c.task,
         c.inst.visit <= d.inst.visit
  PROVE  Calm(c, d) /\ (OneStage(c) => OneStage(d))
<1>1. ASSUME NEW x \in TaskIds
      PROVE  IF x[1] <= c.inst.visit THEN Kept(c.task[x], d.task[x]) ELSE ~d.task[x].output
  <2>1. CASE x[1] <= c.inst.visit
    BY <2>1 DEF Kept
  <2>2. CASE ~(x[1] <= c.inst.visit)
    <3>1. x[1] > c.inst.visit
      BY <2>2, VisitNumber, VisitIsNumber
    <3> QED
      BY <2>2, <3>1, NoTaskFields DEF Consistent
  <2> QED
    BY <2>1, <2>2
<1> QED
  BY <1>1 DEF Calm, OneStage

\* The bulk cancellation of open rows.
LEMMA CancelOpenCalm ==
  ASSUME NEW c, Consistent(c), OneStage(c), NEW ks,
         \A k \in ks : k \in TaskIds /\ c.task[k].status = "Open"
  PROVE  Calm(c, CancelOpen(c, ks)) /\ OneStage(CancelOpen(c, ks))
<1> DEFINE e == CancelOpen(c, ks)
<1>1. /\ c \in Database /\ c.inst.visit \in Nat
      /\ \A x \in TaskIds : c.task[x] \in Task
  BY VisitIsNumber
<1>2. e.inst = c.inst /\ \A x \in TaskIds :
        e.task[x] = IF x \in ks THEN [c.task[x] EXCEPT !.status = "Cancelled"] ELSE c.task[x]
  BY <1>1 DEF CancelOpen, Database
<1>3. ASSUME NEW x \in TaskIds
      PROVE  Kept(c.task[x], e.task[x])
  <2>1. CASE x \in ks
    <3>1. e.task[x] = [c.task[x] EXCEPT !.status = "Cancelled"] /\ c.task[x].status = "Open"
      BY <1>2, <2>1
    <3> QED
      BY <1>1, <3>1 DEF Kept, Task
  <2>2. CASE x \notin ks
    BY <1>2, <2>2 DEF Kept
  <2> QED
    BY <2>1, <2>2
<1> HIDE DEF e
<1>4. ASSUME NEW x \in TaskIds, ~(x[1] <= c.inst.visit)
      PROVE  ~e.task[x].output
  <2>1. x[1] > c.inst.visit
    BY <1>1, <1>4, VisitNumber
  <2>2. c.task[x] = NoTask
    BY <2>1 DEF Consistent
  <2> QED
    BY <1>3, <2>2, NoTaskFields DEF Kept
<1>5. Calm(c, e)
  BY <1>1, <1>2, <1>3, <1>4 DEF Calm
<1>6. OneStage(e)
  <2> SUFFICES ASSUME NEW x \in TaskIds, NEW y \in TaskIds, x[1] = y[1],
                      e.task[x].status # "None", e.task[y].status # "None"
               PROVE  e.task[x].stage = e.task[y].stage
    BY DEF OneStage
  <2>1. c.task[x].status # "None" /\ c.task[y].status # "None"
    BY <1>3 DEF Kept
  <2> QED
    BY <1>3, <2>1 DEF Kept, OneStage
<1> QED
  BY <1>5, <1>6 DEF e

\* _activate_stage moves the instance and fills a fresh visit with the tasks of
\* one stage.
LEMMA ActivateCalm ==
  ASSUME NEW v \in Database, NEW c, Consistent(c), InstanceLater(v, c), OneStage(c),
         NEW s \in Stages, NEW d \in Activate(v, c, s)
  PROVE  /\ Calm(c, d) /\ OneStage(d)
         /\ v.inst.ver = c.inst.ver
         /\ d.inst.ver = c.inst.ver + 1
<1>0. PICK x : Arrival(c, x, d)
  BY ActivateShape
<1>1. /\ Consistent(x) /\ x.task = c.task
      /\ x.inst.visit = c.inst.visit + 1
      /\ x.inst.ver = c.inst.ver + 1
      /\ d = x \/ \E m \in Stages : d = WithTasks(x, m)
  BY <1>0 DEF Arrival
<1>2. v.inst.ver = c.inst.ver
  BY ActivateShape
<1>3. c.inst.visit \in Nat /\ x.inst.visit \in Nat
  BY <1>1, VisitIsNumber
<1>4. c.inst.visit <= x.inst.visit
  BY <1>1, <1>3
<1>5. Calm(c, x) /\ OneStage(x)
  BY <1>1, <1>4, SameTasksCalm
<1>6. CASE d = x
  BY <1>1, <1>2, <1>5, <1>6
<1>7. ASSUME NEW m \in Stages, d = WithTasks(x, m)
      PROVE  Calm(c, d) /\ OneStage(d) /\ d.inst.ver = c.inst.ver + 1
  <2>1. x \in Database
    BY <1>1, VisitIsNumber
  <2>2. /\ d.inst = x.inst
        /\ \A k \in TaskIds : d.task[k] = IF k[1] = x.inst.visit /\ k[2] \in Assignees(m)
                                          THEN NewTask(m, k[2]) ELSE c.task[k]
    BY <1>1, <1>7, <2>1 DEF WithTasks, Database
  <2>3. ASSUME NEW k \in TaskIds, k[1] <= c.inst.visit
        PROVE  d.task[k] = c.task[k]
    <3>1. k[1] # x.inst.visit
      BY <1>1, <1>3, <2>3, VisitNumber
    <3> QED
      BY <2>2, <3>1
  <2>4. ASSUME NEW k \in TaskIds, ~(k[1] <= c.inst.visit)
        PROVE  ~d.task[k].output /\ (d.task[k].status = "None" \/ d.task[k].stage = m)
    <3>1. k[1] > c.inst.visit
      BY <1>3, <2>4, VisitNumber
    <3>2. c.task[k].status = "None" /\ ~c.task[k].output
      BY <3>1, NoTaskFields DEF Consistent
    <3>3. CASE k[1] = x.inst.visit /\ k[2] \in Assignees(m)
      <4>1. d.task[k] = NewTask(m, k[2])
        BY <2>2, <3>3
      <4> QED
        BY <4>1, NewTaskFields
    <3>4. CASE ~(k[1] = x.inst.visit /\ k[2] \in Assignees(m))
      <4>1. d.task[k] = c.task[k]
        BY <2>2, <3>4
      <4> QED
        BY <3>2, <4>1
    <3> QED
      BY <3>3, <3>4
  <2>5. Calm(c, d)
    BY <1>4, <2>2, <2>3, <2>4 DEF Calm, Kept
  <2>6. OneStage(d)
    <3> SUFFICES ASSUME NEW k \in TaskIds, NEW l \in TaskIds, k[1] = l[1],
                        d.task[k].status # "None", d.task[l].status # "None"
                 PROVE  d.task[k].stage = d.task[l].stage
      BY DEF OneStage
    <3>1. CASE k[1] <= c.inst.visit
      BY <2>3, <3>1 DEF OneStage
    <3>2. CASE ~(k[1] <= c.inst.visit)
      BY <2>4, <3>2
    <3> QED
      BY <3>1, <3>2
  <2> QED
    BY <1>1, <2>2, <2>5, <2>6
<1> QED
  BY <1>1, <1>2, <1>6, <1>7

\* What follows a decision, and that an output always moves the instance.
LEMMA OnwardCalm ==
  ASSUME NEW v \in Database, NEW c, Consistent(c), InstanceLater(v, c), OneStage(c),
         NEW k \in TaskIds, NEW action \in Decisions, NEW d \in Onward(v, c, k, action)
  PROVE  /\ Calm(c, d) /\ OneStage(d)
         /\ (action = "Complete" /\ OpenAt(v.task, v.task[k].stage) = {})
              => v.inst.ver = c.inst.ver /\ d.inst.ver = c.inst.ver + 1
<1> DEFINE s == v.task[k].stage
           e == CancelStage(c, s)
<1>1. Consistent(e) /\ InstanceLater(v, e) /\ e.inst = c.inst
  BY CancelStageLemma, InstanceLaterStays
<1>2. Calm(c, e) /\ OneStage(e)
  BY CancelOpenCalm DEF CancelStage, OpenAt
<1>3. Consistent(d)
  BY OnwardLemma
<1> HIDE DEF e
<1>4. ASSUME NEW x \in Stages, d \in Activate(v, e, x)
      PROVE  /\ Calm(c, d) /\ OneStage(d)
             /\ v.inst.ver = c.inst.ver /\ d.inst.ver = c.inst.ver + 1
  <2>1. Calm(e, d) /\ OneStage(d) /\ v.inst.ver = e.inst.ver /\ d.inst.ver = e.inst.ver + 1
    BY <1>1, <1>2, <1>4, ActivateCalm
  <2> QED
    BY <1>1, <1>2, <1>3, <2>1, CalmTransitive
<1>5. ASSUME NEW x \in Stages, d \in Activate(v, c, x)
      PROVE  /\ Calm(c, d) /\ OneStage(d)
             /\ v.inst.ver = c.inst.ver /\ d.inst.ver = c.inst.ver + 1
  BY <1>5, ActivateCalm
<1>6. CASE action = "Reject"
  <2>1. CASE d \in UNION {Activate(v, e, x) : x \in NextStage(s, "Reject")}
    BY <1>4, <1>6, <2>1, RoutesStay
  <2>2. CASE d \in SaveInstance(v, e, [v.inst EXCEPT !.status = "Rejected"])
    <3>1. d.task = e.task /\ d.inst.visit = e.inst.visit
      <4> DEFINE i == [v.inst EXCEPT !.status = "Rejected"]
      <4>1. i \in Instance /\ i.visit = v.inst.visit
        BY NewStatusType DEF InstanceStatuses
      <4>2. d \in SaveInstance(v, e, i)
        BY <2>2
      <4> HIDE DEF i
      <4>3. d.task = e.task /\ v.inst = e.inst /\ d.inst = [i EXCEPT !.ver = e.inst.ver + 1]
        BY <1>1, <4>1, <4>2, SameVisitLemma
      <4> QED
        BY <4>1, <4>3 DEF Instance
    <3>2. e.inst.visit <= d.inst.visit
      BY <1>1, <3>1, VisitIsNumber
    <3>3. Calm(e, d) /\ OneStage(d)
      BY <1>1, <1>2, <1>3, <3>1, <3>2, SameTasksCalm
    <3> QED
      BY <1>1, <1>2, <1>3, <1>6, <3>3, CalmTransitive
  <2> QED
    BY <1>6, <2>1, <2>2 DEF Onward, e
<1>7. CASE action = "Return"
  <2>1. PICK x \in NextStage(s, "Return") \cup ReturnStage(v.task, k) : d \in Activate(v, e, x)
    BY <1>7 DEF Onward, e
  <2> QED
    BY <1>4, <1>7, <2>1, RoutesStay, ReturnStageType
<1>8. CASE action \in {"Complete", "Approve"}
  <2>1. \/ \E x \in NextStage(s, action) : d \in Activate(v, e, x)
        \/ \E x \in NextStage(s, action) : d \in Activate(v, c, x)
        \/ d = c /\ OpenAt(v.task, s) # {}
    BY <1>8 DEF Onward, e
  <2>2. CASE d = c /\ OpenAt(v.task, s) # {}
    <3>1. c.inst.visit <= d.inst.visit
      BY <2>2, VisitIsNumber
    <3> QED
      BY <2>2, <3>1, SameTasksCalm
  <2> QED
    BY <1>4, <1>5, <2>1, <2>2, RoutesStay
<1> QED
  BY <1>6, <1>7, <1>8 DEF Decisions

-----------------------------------------------------------------------------
(* From the rows to the invariant.                                         *)

NoNewOutput(c, d) == \A x \in TaskIds : d.task[x].output => c.task[x].output

\* A row of a visit that has not come yet is empty.
LEMMA TakenVisit ==
  ASSUME NEW c, Consistent(c), NEW x \in TaskIds, c.task[x].status # "None"
  PROVE  x[1] <= c.inst.visit
<1>1. ~(x[1] > c.inst.visit)
  BY NoTaskFields DEF Consistent
<1> QED
  BY <1>1, VisitNumber, VisitIsNumber

LEMMA CalmProgress ==
  ASSUME NEW c, NEW d, Consistent(c), Calm(c, d)
  PROVE  Progress(c, d) /\ NoNewOutput(c, d)
<1>1. \A x \in TaskIds : x[1] <= c.inst.visit => TaskLater(c.task[x], d.task[x])
  BY DEF Calm, Kept, TaskLater
<1>2. NoNewOutput(c, d)
  BY DEF Calm, Kept, NoNewOutput
<1> QED
  BY <1>1, <1>2 DEF Progress, Calm, NoNewOutput

\* Saving rows of stages that drafts or the deadline job may save.
LEMMA SavedProgress ==
  ASSUME NEW c, NEW d, Consistent(c), OneStage(c), d.inst = c.inst,
         \A x \in TaskIds :
           \/ d.task[x] = c.task[x]
           \/ /\ c.task[x].status # "None" /\ d.task[x].status # "None"
              /\ d.task[x].stage = c.task[x].stage
              /\ ~OnlyDecided(c.task[x].stage)
              /\ ~d.task[x].output
  PROVE  Progress(c, d) /\ OneStage(d) /\ NoNewOutput(c, d)
<1>1. c.inst.visit <= d.inst.visit
  BY VisitIsNumber
<1>2. \A x \in TaskIds : TaskLater(c.task[x], d.task[x])
  BY DEF TaskLater
<1>3. NoNewOutput(c, d)
  BY DEF NoNewOutput
<1>4. OneStage(d)
  BY DEF OneStage
<1> QED
  BY <1>1, <1>2, <1>3, <1>4 DEF Progress, NoNewOutput

\* Where nothing makes an output, the outputs stay settled.
LEMMA QuietSettled ==
  ASSUME NEW c, NEW d, Consistent(c), Settled(c), Later(c, d), Progress(c, d),
         OneStage(d), NoNewOutput(c, d)
  PROVE  Settled(d)
<1> SUFFICES ASSUME NEW x \in TaskIds, d.task[x].output
             PROVE  /\ Decided(d.task[x])
                    /\ OnlyDecided(d.task[x].stage) =>
                         \A y \in TaskIds : y[1] = x[1] =>
                           d.task[y].status # "Open" /\ (d.task[y].output => y = x)
  BY DEF Settled, OutputsSettled
<1>1. c.task[x].output
  BY DEF NoNewOutput
<1>2. Decided(c.task[x])
  BY <1>1 DEF Settled, OutputsSettled
<1>3. Decided(d.task[x])
  BY <1>2 DEF Later, RowLater
<1>4. c.task[x].status # "None"
  BY <1>2 DEF Decided
<1>5. x[1] <= c.inst.visit
  BY <1>4, TakenVisit
<1>6. d.task[x].stage = c.task[x].stage
  BY <1>4, <1>5 DEF Progress, TaskLater
<1>7. ASSUME OnlyDecided(d.task[x].stage), NEW y \in TaskIds, y[1] = x[1]
      PROVE  d.task[y].status # "Open" /\ (d.task[y].output => y = x)
  <2>1. c.task[y].status # "Open" /\ (c.task[y].output => y = x)
    BY <1>1, <1>6, <1>7 DEF Settled, OutputsSettled
  <2>2. TaskLater(c.task[y], d.task[y])
    BY <1>5, <1>7 DEF Progress
  <2>3. c.task[y].status # "None" => c.task[y].stage = c.task[x].stage
    BY <1>4, <1>7 DEF Settled, OneStage
  <2>4. d.task[y].status # "Open"
    BY <1>6, <1>7, <2>1, <2>2, <2>3 DEF TaskLater
  <2> QED
    BY <2>1, <2>4 DEF NoNewOutput
<1> QED
  BY <1>3, <1>7

LEMMA ProgressReflexive ==
  ASSUME NEW a, Consistent(a)
  PROVE  Progress(a, a)
<1>1. a.inst.visit <= a.inst.visit
  BY VisitIsNumber
<1> QED
  BY <1>1 DEF Progress, TaskLater

LEMMA ProgressTransitive ==
  ASSUME NEW a \in Database, NEW b, NEW c, Consistent(b), Consistent(c),
         Later(a, b), Later(b, c), Progress(a, b), Progress(b, c)
  PROVE  Progress(a, c)
<1>1. /\ a.inst.visit \in Nat /\ b.inst.visit \in Nat /\ c.inst.visit \in Nat
      /\ a.inst.ver \in Nat /\ b.inst.ver \in Nat /\ c.inst.ver \in Nat
  BY VisitIsNumber DEF Database, Instance
<1>2. a.inst.visit <= c.inst.visit
  BY <1>1 DEF Progress
<1>3. ASSUME NEW x \in TaskIds, x[1] <= a.inst.visit
      PROVE  TaskLater(a.task[x], c.task[x])
  <2>1. x[1] <= b.inst.visit
    BY <1>1, <1>3, VisitNumber DEF Progress
  <2>2. TaskLater(a.task[x], b.task[x]) /\ TaskLater(b.task[x], c.task[x])
    BY <1>3, <2>1 DEF Progress
  <2> QED
    BY <2>2 DEF TaskLater
<1>4. ASSUME NEW x \in TaskIds, a.inst.ver = c.inst.ver, c.task[x].output
      PROVE  a.task[x].output
  <2>1. a.inst.ver <= b.inst.ver /\ b.inst.ver <= c.inst.ver
    BY DEF Later, InstanceLater
  <2>2. a.inst.ver = b.inst.ver /\ b.inst.ver = c.inst.ver
    BY <1>1, <1>4, <2>1
  <2> QED
    BY <1>4, <2>2 DEF Progress
<1> QED
  BY <1>2, <1>3, <1>4 DEF Progress

-----------------------------------------------------------------------------
(* complete_workflow_task.                                                 *)

\* What the decision on k, made on the snapshot v, leaves of the rows of c.
Decides(v, c, k, d) ==
  /\ Decided(d.task[k]) /\ d.task[k].stage = c.task[k].stage
  /\ v.task[k].stage = c.task[k].stage /\ k[1] <= c.inst.visit
  /\ c.task[k].status # "None"
  /\ c.inst.visit <= d.inst.visit
  /\ \A x \in TaskIds : x # k =>
        IF x[1] <= c.inst.visit THEN Kept(c.task[x], d.task[x]) ELSE ~d.task[x].output
  /\ d.task[k].output =>
        /\ v.inst.ver = c.inst.ver /\ d.inst.ver = c.inst.ver + 1
        /\ OpenAt(v.task, v.task[k].stage) = {k}

LEMMA UnmodifiedStage ==
  ASSUME NEW a \in Task, NEW b \in Task, RowLater(a, b), Unmodified(a, b), a.status = "Open"
  PROVE  b.stage = a.stage /\ b.status # "None"
<1>1. CASE b = a
  BY <1>1
<1>2. CASE b = [a EXCEPT !.status = "Cancelled"]
  BY <1>2 DEF Task
<1> QED
  BY <1>1, <1>2 DEF RowLater, Unmodified

LEMMA DecisionFields ==
  ASSUME NEW v \in Database, NEW c, NEW k \in TaskIds, NEW who, NEW action
  PROVE  LET row == Decision(v, c, k, who, action)
         IN  /\ row.status = (IF action = "Reject" THEN "Rejected" ELSE "Completed")
             /\ row.output = MakesOutput(v, k, action)
<1>1. v.task[k] \in Task
  BY DEF Database
<1> QED
  BY <1>1 DEF Decision, Task

LEMMA DecideCalm ==
  ASSUME NEW v \in Database, NEW c, Consistent(c), InstanceLater(v, c), OneStage(c),
         NEW k \in TaskIds, RowLater(v.task[k], c.task[k]), v.task[k].status = "Open",
         NEW action \in Decisions, NEW d \in Decide(v, c, k, v.task[k].owner, action)
  PROVE  Decides(v, c, k, d) /\ OneStage(d)
<1> DEFINE who == v.task[k].owner
           row == Decision(v, c, k, who, action)
           clock == c.clock + 1
           v1 == [v EXCEPT !.task[k] = row]
           c1 == [c EXCEPT !.task[k] = row, !.clock = clock]
           s == v.task[k].stage
<1>1. /\ c \in Database /\ v.task[k] \in Task /\ c.task[k] \in Task
      /\ who \in Users /\ clock \in Nat
  BY DEF Consistent, Database, Task
<1>2. row \in Task /\ row.ver = v.task[k].ver + 1 /\ row.stage = s
      /\ row.owner = who /\ row.actor = who
  BY <1>1, DecisionType
<1>3. Decided(row) /\ row.status # "Open" /\ row.status # "None"
  BY DecisionFields DEF Decided
<1>4. row.output => action = "Complete" /\ OpenAt(v.task, s) = {k}
  BY DecisionFields DEF MakesOutput
<1>5. Unmodified(v.task[k], c.task[k]) /\ d \in Onward(v1, c1, k, action)
  BY DEF Decide
<1>6. c.task[k].stage = s /\ c.task[k].status # "None"
  BY <1>1, <1>5, UnmodifiedStage
<1>7. k[1] <= c.inst.visit
  BY <1>6, TakenVisit
<1> HIDE DEF row, clock
<1>8. /\ c1 \in Database /\ c1.inst = c.inst /\ c1.req = c.req
      /\ \A x \in TaskIds : c1.task[x] = IF x = k THEN row ELSE c.task[x]
  BY <1>1, <1>2 DEF Database
<1>9. /\ v1 \in Database /\ v1.inst = v.inst /\ v1.req = v.req
      /\ \A x \in TaskIds : v1.task[x] = IF x = k THEN row ELSE v.task[x]
  BY <1>2 DEF Database
<1> HIDE DEF c1, v1
<1>10. Consistent(c1)
  <2> DEFINE a == v.task[k]
  <2>1. a \in Task /\ RowLater(a, c.task[k]) /\ a.status = "Open"
    BY <1>1
  <2>2. Unmodified(a, c.task[k]) /\ row.ver = a.ver + 1
    BY <1>2, <1>5
  <2> HIDE DEF a
  <2> QED
    BY <1>2, <1>8, <2>1, <2>2, SaveOpenRowLemma
<1>11. InstanceLater(v1, c1)
  BY <1>8, <1>9 DEF InstanceLater
<1>12. OneStage(c1)
  <2> SUFFICES ASSUME NEW x \in TaskIds, NEW y \in TaskIds, x[1] = y[1],
                      c1.task[x].status # "None", c1.task[y].status # "None"
               PROVE  c1.task[x].stage = c1.task[y].stage
    BY DEF OneStage
  <2>1. /\ c.task[x].status # "None" /\ c1.task[x].stage = c.task[x].stage
        /\ c.task[y].status # "None" /\ c1.task[y].stage = c.task[y].stage
    BY <1>2, <1>6, <1>8
  <2> QED
    BY <2>1 DEF OneStage
<1>13. /\ Calm(c1, d) /\ OneStage(d)
       /\ (action = "Complete" /\ OpenAt(v1.task, v1.task[k].stage) = {})
            => v1.inst.ver = c1.inst.ver /\ d.inst.ver = c1.inst.ver + 1
  BY <1>5, <1>9, <1>10, <1>11, <1>12, OnwardCalm
<1>14. Kept(row, d.task[k])
  BY <1>7, <1>8, <1>13 DEF Calm
<1>15. Decided(d.task[k]) /\ d.task[k].stage = s /\ d.task[k].output = row.output
  BY <1>2, <1>3, <1>14 DEF Kept, Decided
<1>16. ASSUME NEW x \in TaskIds, x # k
       PROVE  IF x[1] <= c.inst.visit THEN Kept(c.task[x], d.task[x]) ELSE ~d.task[x].output
  BY <1>8, <1>13, <1>16 DEF Calm
<1>17. ASSUME d.task[k].output
       PROVE  /\ v.inst.ver = c.inst.ver /\ d.inst.ver = c.inst.ver + 1
              /\ OpenAt(v.task, s) = {k}
  <2>1. action = "Complete" /\ OpenAt(v.task, s) = {k}
    BY <1>4, <1>15, <1>17
  <2>2. OpenAt(v1.task, s) = {}
    <3> SUFFICES ASSUME NEW x \in TaskIds, v1.task[x].status = "Open", v1.task[x].stage = s
                 PROVE  FALSE
      BY DEF OpenAt
    <3>1. x # k /\ v1.task[x] = v.task[x]
      BY <1>3, <1>9
    <3> QED
      BY <2>1, <3>1 DEF OpenAt
  <2>3. v1.task[k].stage = s
    BY <1>2, <1>9
  <2> QED
    BY <1>8, <1>9, <1>13, <2>1, <2>2, <2>3
<1>18. c.inst.visit <= d.inst.visit
  BY <1>8, <1>13 DEF Calm
<1> QED
  BY <1>6, <1>7, <1>13, <1>15, <1>16, <1>17, <1>18 DEF Decides

LEMMA DecidesProgress ==
  ASSUME NEW v, NEW c, NEW d, Consistent(c), NEW k \in TaskIds, Decides(v, c, k, d)
  PROVE  Progress(c, d)
<1>1. ASSUME NEW x \in TaskIds, x[1] <= c.inst.visit
      PROVE  TaskLater(c.task[x], d.task[x])
  <2>1. CASE x = k
    BY <2>1 DEF Decides, TaskLater, Decided
  <2>2. CASE x # k
    BY <1>1, <2>2 DEF Decides, Kept, TaskLater
  <2> QED
    BY <2>1, <2>2
<1>2. ASSUME NEW x \in TaskIds, c.inst.ver = d.inst.ver, d.task[x].output
      PROVE  c.task[x].output
  <2>1. x # k
    BY <1>2, VisitIsNumber DEF Decides
  <2> QED
    BY <1>2, <2>1 DEF Decides, Kept
<1> QED
  BY <1>1, <1>2 DEF Progress, Decides

\* A decision that makes the output of a stage only decisions save was the last
\* of its visit: the snapshot showed no other open task, none was reopened since,
\* and an earlier output would have moved the instance.
LEMMA LastDecision ==
  ASSUME NEW v \in Database, NEW c, NEW d, Consistent(c), Settled(v), Settled(c),
         Later(v, c), Progress(v, c), NEW k \in TaskIds, v.task[k].status = "Open",
         Decides(v, c, k, d), d.task[k].output, OnlyDecided(d.task[k].stage),
         NEW y \in TaskIds, y[1] = k[1], y # k
  PROVE  d.task[y].status # "Open" /\ ~d.task[y].output
<1> DEFINE s == v.task[k].stage
<1>1. d.task[k].stage = s /\ OnlyDecided(s) /\ v.inst.ver = c.inst.ver
      /\ OpenAt(v.task, s) = {k}
  BY DEF Decides
<1>2. k[1] <= c.inst.visit
  BY DEF Decides
<1>3. v.inst.visit = c.inst.visit
  BY <1>1 DEF Later, InstanceLater
<1>4. Kept(c.task[y], d.task[y]) /\ TaskLater(v.task[y], c.task[y])
  BY <1>2, <1>3 DEF Decides, Progress
<1>5. v.task[y].status # "Open"
  <2> SUFFICES ASSUME v.task[y].status = "Open" PROVE FALSE
    OBVIOUS
  <2>1. v.task[y].stage = s
    BY DEF Settled, OneStage
  <2> QED
    BY <1>1, <2>1 DEF OpenAt
<1>6. c.task[y].status # "Open"
  <2>1. CASE v.task[y].status = "None"
    BY <1>4, <2>1 DEF TaskLater
  <2>2. CASE v.task[y].status # "None"
    <3>1. v.task[y].stage = s
      BY <2>2 DEF Settled, OneStage
    <3> QED
      BY <1>1, <1>4, <1>5, <3>1 DEF TaskLater
  <2> QED
    BY <2>1, <2>2
<1>7. ~c.task[y].output
  <2> SUFFICES ASSUME c.task[y].output PROVE FALSE
    OBVIOUS
  <2>1. v.task[y].output
    BY <1>1 DEF Progress
  <2>2. v.task[y].status # "None"
    BY <2>1 DEF Settled, OutputsSettled, Decided
  <2>3. v.task[y].stage = s
    BY <2>2 DEF Settled, OneStage
  <2> QED
    BY <1>1, <2>1, <2>3 DEF Settled, OutputsSettled
<1> QED
  BY <1>4, <1>6, <1>7 DEF Kept

LEMMA DecidesSettled ==
  ASSUME NEW v \in Database, NEW c, NEW d, Consistent(c), Settled(v), Settled(c),
         Later(v, c), Later(c, d), Progress(v, c), NEW k \in TaskIds,
         v.task[k].status = "Open", Decides(v, c, k, d), OneStage(d)
  PROVE  Settled(d)
<1> SUFFICES ASSUME NEW x \in TaskIds, d.task[x].output
             PROVE  /\ Decided(d.task[x])
                    /\ OnlyDecided(d.task[x].stage) =>
                         \A y \in TaskIds : y[1] = x[1] =>
                           d.task[y].status # "Open" /\ (d.task[y].output => y = x)
  BY DEF Settled, OutputsSettled
<1>1. Progress(c, d)
  BY DecidesProgress
<1>2. Decided(d.task[k]) /\ d.task[k].status # "Open"
  BY DEF Decides, Decided
<1>3. CASE x = k
  BY <1>2, <1>3, LastDecision
<1>4. CASE x # k
  <2>1. c.task[x].output
    BY <1>4 DEF Decides, Kept
  <2>2. Decided(c.task[x]) /\ c.task[x].status # "None"
    BY <2>1 DEF Settled, OutputsSettled, Decided
  <2>3. Decided(d.task[x])
    BY <2>2 DEF Later, RowLater
  <2>4. x[1] <= c.inst.visit
    BY <2>2, TakenVisit
  <2>5. d.task[x].stage = c.task[x].stage
    BY <2>2, <2>4, <1>1 DEF Progress, TaskLater
  <2>6. ASSUME OnlyDecided(d.task[x].stage), NEW y \in TaskIds, y[1] = x[1]
        PROVE  d.task[y].status # "Open" /\ (d.task[y].output => y = x)
    <3>1. c.task[y].status # "Open" /\ (c.task[y].output => y = x)
      BY <2>1, <2>5, <2>6 DEF Settled, OutputsSettled
    <3>2. CASE y = k
      <4>1. d.task[y].stage = d.task[x].stage
        BY <1>2, <2>3, <2>6, <3>2 DEF OneStage, Decided
      <4>2. ~d.task[y].output
        <5> SUFFICES ASSUME d.task[y].output PROVE FALSE
          OBVIOUS
        <5>1. ~d.task[x].output
          BY <1>4, <2>6, <3>2, <4>1, LastDecision
        <5> QED
          BY <5>1
      <4> QED
        BY <1>2, <3>2, <4>2
    <3>3. CASE y # k
      <4>1. Kept(c.task[y], d.task[y])
        BY <2>4, <2>6, <3>3 DEF Decides
      <4> QED
        BY <3>1, <4>1 DEF Kept
    <3> QED
      BY <3>2, <3>3
  <2> QED
    BY <2>3, <2>6
<1> QED
  BY <1>3, <1>4

-----------------------------------------------------------------------------
(* The handlers.  v is the snapshot of the call, c the committed state.    *)

\* What the invariant says of a transaction and the committed state.
Sees(v, c) ==
  /\ v \in Database /\ Consistent(c) /\ Later(v, c)
  /\ Settled(v) /\ Settled(c) /\ Progress(v, c)

LEMMA DecideSettled ==
  ASSUME NEW v, NEW c, Sees(v, c), NEW k \in TaskIds, v.task[k].status = "Open",
         NEW action \in Decisions, NEW d \in Decide(v, c, k, v.task[k].owner, action)
  PROVE  Settled(d) /\ Progress(c, d)
<1>1. v \in Database /\ Consistent(c) /\ Later(v, c) /\ Settled(v) /\ Settled(c)
      /\ Progress(v, c)
  BY DEF Sees
<1>2. InstanceLater(v, c) /\ RowLater(v.task[k], c.task[k]) /\ OneStage(c)
  BY <1>1 DEF Later, Settled
<1>3. Decides(v, c, k, d) /\ OneStage(d)
  BY <1>1, <1>2, DecideCalm
<1>4. Later(c, d)
  BY <1>1, <1>2, DecideLemma
<1> QED
  BY <1>1, <1>3, <1>4, DecidesProgress, DecidesSettled

LEMMA CancelSettled ==
  ASSUME NEW v, NEW c, Sees(v, c), NEW d \in CancelRequest(v, c)
  PROVE  Settled(d) /\ Progress(c, d)
<1> DEFINE e == CancelOpen(c, {k \in TaskIds : c.task[k].status = "Open"})
           i == [v.inst EXCEPT !.status = "Cancelled"]
<1>1. v \in Database /\ Consistent(c) /\ Later(v, c) /\ Settled(c) /\ OneStage(c)
      /\ InstanceLater(v, c)
  BY DEF Sees, Settled, Later
<1>2. Consistent(e) /\ InstanceLater(v, e) /\ e.inst = c.inst
  BY <1>1, CancelOpenLemma, InstanceLaterStays
<1>3. Calm(c, e) /\ OneStage(e)
  BY <1>1, CancelOpenCalm
<1>4. i \in Instance /\ i.visit = v.inst.visit
  BY <1>1, NewStatusType DEF InstanceStatuses
<1>5. d \in SaveInstance(v, e, i)
  BY DEF CancelRequest
<1> HIDE DEF e, i
<1>6. Consistent(d) /\ d.task = e.task /\ v.inst = e.inst
      /\ d.inst = [i EXCEPT !.ver = e.inst.ver + 1]
  BY <1>1, <1>2, <1>4, <1>5, SameVisitLemma
<1>7. e.inst.visit <= d.inst.visit
  BY <1>2, <1>4, <1>6, VisitIsNumber DEF Instance
<1>8. Calm(e, d) /\ OneStage(d)
  BY <1>2, <1>3, <1>6, <1>7, SameTasksCalm
<1>9. Calm(c, d)
  BY <1>1, <1>2, <1>3, <1>6, <1>8, CalmTransitive
<1>10. Progress(c, d) /\ NoNewOutput(c, d)
  BY <1>1, <1>9, CalmProgress
<1>11. Later(c, d)
  BY <1>1, CancelRequestLemma
<1> QED
  BY <1>1, <1>8, <1>10, <1>11, QuietSettled

LEMMA DraftSettled ==
  ASSUME NEW v, NEW c, Sees(v, c), NEW k \in TaskIds, v.task[k].status = "Open",
         Config[v.task[k].stage].draft, NEW d \in SaveDraft(v, c, k)
  PROVE  Settled(d) /\ Progress(c, d)
<1>1. v \in Database /\ Consistent(c) /\ Later(v, c) /\ Settled(v) /\ Settled(c)
      /\ OneStage(c) /\ c \in Database
  BY DEF Sees, Settled, Consistent
<1> DEFINE row == [v.task[k] EXCEPT !.ver = @ + 1]
<1>2. v.task[k] \in Task /\ c.task[k] \in Task /\ RowLater(v.task[k], c.task[k])
  BY <1>1 DEF Database, Later
<1>3. Unmodified(v.task[k], c.task[k]) /\ d = [c EXCEPT !.task[k] = row]
  BY DEF SaveDraft, SaveRow
<1>4. row.status = "Open" /\ row.stage = v.task[k].stage /\ row.output = v.task[k].output
  BY <1>2 DEF Task
<1>5. c.task[k].stage = v.task[k].stage /\ c.task[k].status # "None"
  BY <1>2, <1>3, UnmodifiedStage
<1>6. ~v.task[k].output
  BY <1>1 DEF Settled, OutputsSettled, Decided
<1> HIDE DEF row
<1>7. d.inst = c.inst /\ \A x \in TaskIds : d.task[x] = IF x = k THEN row ELSE c.task[x]
  BY <1>1, <1>3 DEF Database
<1>8. ~OnlyDecided(c.task[k].stage)
  BY <1>5 DEF OnlyDecided
<1>9. \A x \in TaskIds :
        \/ d.task[x] = c.task[x]
        \/ /\ c.task[x].status # "None" /\ d.task[x].status # "None"
           /\ d.task[x].stage = c.task[x].stage
           /\ ~OnlyDecided(c.task[x].stage)
           /\ ~d.task[x].output
  BY <1>4, <1>5, <1>6, <1>7, <1>8
<1>10. Progress(c, d) /\ OneStage(d) /\ NoNewOutput(c, d)
  BY <1>1, <1>7, <1>9, SavedProgress
<1>11. Later(c, d)
  BY <1>1, SaveDraftLemma
<1> QED
  BY <1>1, <1>10, <1>11, QuietSettled

LEMMA DeadlinesSettled ==
  ASSUME NEW v, NEW c, Sees(v, c), NEW ks \in SUBSET TaskIds,
         \A k \in ks : v.task[k].status = "Open" /\ Config[v.task[k].stage].deadline,
         NEW late, NEW to \in [ks -> Users]
  PROVE  LET d == Deadlines(v, c, ks, late, to) IN Settled(d) /\ Progress(c, d)
<1>1. v \in Database /\ Consistent(c) /\ Later(v, c) /\ Settled(v) /\ Settled(c)
      /\ OneStage(c) /\ c \in Database
  BY DEF Sees, Settled, Consistent
<1> DEFINE d == Deadlines(v, c, ks, late, to)
           row(k) == [IF k \in late THEN Escalated(v.task[k], to[k]) ELSE Reminded(v.task[k])
                        EXCEPT !.ver = @ + 1]
           saved(k) == k \in ks /\ Unmodified(v.task[k], c.task[k])
<1>2. d.inst = c.inst /\ \A x \in TaskIds :
        d.task[x] = IF saved(x) THEN row(x) ELSE c.task[x]
  BY <1>1 DEF Deadlines, Database
<1>3. ASSUME NEW k \in ks
      PROVE  /\ row(k).status = "Open" /\ row(k).stage = v.task[k].stage
             /\ row(k).output = v.task[k].output
  <2>1. v.task[k] \in Task /\ v.task[k].status = "Open"
    BY <1>1 DEF Database
  <2> DEFINE owner == IF Config[v.task[k].stage].reassign THEN to[k] ELSE v.task[k].owner
             r == [v.task[k] EXCEPT !.escalated = TRUE, !.owner = owner]
             m == [v.task[k] EXCEPT !.reminded = TRUE]
  <2>2. row(k) = [IF k \in late THEN r ELSE m EXCEPT !.ver = @ + 1]
    BY DEF Escalated, Reminded
  <2> HIDE DEF owner, row
  <2>3. r.status = "Open" /\ r.stage = v.task[k].stage /\ r.output = v.task[k].output
    BY <2>1 DEF Task
  <2>4. m.status = "Open" /\ m.stage = v.task[k].stage /\ m.output = v.task[k].output
    BY <2>1 DEF Task
  <2>5. CASE k \in late
    BY <2>1, <2>2, <2>3, <2>5 DEF Task
  <2>6. CASE k \notin late
    BY <2>1, <2>2, <2>4, <2>6 DEF Task
  <2> QED
    BY <2>5, <2>6
<1> HIDE DEF row
<1>4. ASSUME NEW x \in TaskIds, saved(x)
      PROVE  /\ c.task[x].status # "None" /\ d.task[x].status # "None"
             /\ d.task[x].stage = c.task[x].stage
             /\ ~OnlyDecided(c.task[x].stage)
             /\ ~d.task[x].output
  <2>1. /\ v.task[x] \in Task /\ c.task[x] \in Task /\ RowLater(v.task[x], c.task[x])
        /\ v.task[x].status = "Open" /\ Unmodified(v.task[x], c.task[x])
    BY <1>1, <1>4 DEF Database, Later
  <2>2. c.task[x].stage = v.task[x].stage /\ c.task[x].status # "None"
    BY <2>1, UnmodifiedStage
  <2>3. ~v.task[x].output
    BY <1>1, <2>1 DEF Settled, OutputsSettled, Decided
  <2>4. d.task[x] = row(x)
    BY <1>2, <1>4
  <2>5. ~OnlyDecided(c.task[x].stage)
    BY <1>4, <2>2 DEF OnlyDecided
  <2>6. row(x).status = "Open" /\ row(x).stage = v.task[x].stage
        /\ row(x).output = v.task[x].output
    BY <1>3, <1>4
  <2> QED
    BY <2>2, <2>3, <2>4, <2>5, <2>6
<1>5. Later(c, d)
  BY <1>1, DeadlinesLemma
<1> HIDE DEF d
<1>6. \A x \in TaskIds :
        \/ d.task[x] = c.task[x]
        \/ /\ c.task[x].status # "None" /\ d.task[x].status # "None"
           /\ d.task[x].stage = c.task[x].stage
           /\ ~OnlyDecided(c.task[x].stage)
           /\ ~d.task[x].output
  BY <1>2, <1>4
<1>7. Progress(c, d) /\ OneStage(d) /\ NoNewOutput(c, d)
  BY <1>1, <1>2, <1>6, SavedProgress
<1>8. Settled(d) /\ Progress(c, d)
  BY <1>1, <1>5, <1>7, QuietSettled
<1> QED
  BY <1>8 DEF d

LEMMA UpdateSettled ==
  ASSUME NEW v, NEW c, Sees(v, c), NEW d \in UpdateRequest(v, c)
  PROVE  Settled(d) /\ Progress(c, d)
<1> DEFINE v0 == [v EXCEPT !.req = c.req]
           c0 == [c EXCEPT !.req.edits = @ + 1]
           saved == SaveInstance(v0, c0, v.inst)
<1>1. v \in Database /\ Consistent(c) /\ Later(v, c) /\ Settled(v) /\ Settled(c)
      /\ OneStage(c) /\ Progress(v, c)
  BY DEF Sees, Settled
<1>2. PICK x \in saved :
        \/ d = x
        \/ \E k \in OwnFormTasks(v.task) :
             d \in Decide([v EXCEPT !.inst = x.inst, !.req = x.req], x, k, Initiator, "Complete")
  BY UpdateShape
<1>3. Consistent(x) /\ Later(c, x) /\ x.task = c.task
      /\ v.inst = c.inst /\ x.inst.visit = c.inst.visit
  BY <1>1, EditLemma
<1> HIDE DEF v0, c0, saved
<1>4. c.inst.visit <= x.inst.visit
  BY <1>1, <1>3, VisitIsNumber
<1>5. Calm(c, x) /\ OneStage(x)
  BY <1>1, <1>3, <1>4, SameTasksCalm
<1>6. Progress(c, x) /\ NoNewOutput(c, x)
  BY <1>1, <1>5, CalmProgress
<1>7. Settled(x)
  BY <1>1, <1>3, <1>5, <1>6, QuietSettled
<1>8. ASSUME NEW k \in OwnFormTasks(v.task),
             d \in Decide([v EXCEPT !.inst = x.inst, !.req = x.req], x, k, Initiator, "Complete")
      PROVE  Settled(d) /\ Progress(c, d)
  <2> DEFINE v2 == [v EXCEPT !.inst = x.inst, !.req = x.req]
  <2>1. k \in TaskIds /\ v.task[k].status = "Open" /\ v.task[k].owner = Initiator
    BY DEF OwnFormTasks, OpenAt
  <2>2. v2 \in Database /\ v2.inst = x.inst /\ v2.req = x.req /\ v2.task = v.task
    BY <1>1, <1>3, VisitIsNumber DEF Consistent, Database
  <2>3. d \in Decide(v2, x, k, v2.task[k].owner, "Complete")
    BY <1>8, <2>1, <2>2
  <2> HIDE DEF v2
  <2>4. Later(v2, x)
    BY <1>1, <1>3, <2>2, VisitIsNumber DEF Later, InstanceLater
  <2>5. Progress(v2, x)
    <3>1. v2.inst.visit <= x.inst.visit
      BY <1>3, <2>2, VisitIsNumber
    <3>2. \A y \in TaskIds : y[1] <= v2.inst.visit => TaskLater(v2.task[y], x.task[y])
      BY <1>1, <1>3, <2>2 DEF Progress
    <3>3. \A y \in TaskIds : x.task[y].output => v2.task[y].output
      BY <1>1, <1>3, <2>2 DEF Progress
    <3> QED
      BY <3>1, <3>2, <3>3 DEF Progress
  <2>6. Settled(v2)
    BY <1>1, <2>2 DEF Settled, OneStage, OutputsSettled
  <2>7. Sees(v2, x)
    BY <1>3, <1>7, <2>2, <2>4, <2>5, <2>6 DEF Sees
  <2>8. Settled(d) /\ Progress(x, d)
    BY <2>1, <2>2, <2>3, <2>7, DecideSettled DEF Decisions
  <2>9. Consistent(d) /\ Later(x, d)
    BY <1>3, <2>1, <2>2, <2>3, <2>4, DecideLemma DEF Later, Decisions
  <2>10. c \in Database
    BY <1>1, VisitIsNumber
  <2> QED
    BY <1>3, <1>6, <2>8, <2>9, <2>10, ProgressTransitive
<1> QED
  BY <1>2, <1>6, <1>7, <1>8

-----------------------------------------------------------------------------
(* The initial states and every step.                                      *)

LEMMA BlankSettled == Settled(Blank)
<1>1. \A x \in TaskIds : Blank.task[x].status = "None" /\ ~Blank.task[x].output
  BY NoTaskFields DEF Blank
<1> QED
  BY <1>1 DEF Settled, OneStage, OutputsSettled

LEMMA CreatedSettled ==
  ASSUME NEW d \in Created
  PROVE  Settled(d)
<1>1. ASSUME NEW x \in Started PROVE Consistent(x) /\ Settled(x)
  <2>1. PICK s \in Stages : x \in Activate(Blank, Blank, s)
    BY RoutesStay DEF Started
  <2>2. /\ Consistent(Blank) /\ Blank \in Database /\ InstanceLater(Blank, Blank)
        /\ Settled(Blank) /\ OneStage(Blank)
    BY BlankConsistent, BlankSettled, LaterReflexive DEF Consistent, Later, Settled
  <2>3. Consistent(x) /\ Later(Blank, x) /\ Calm(Blank, x) /\ OneStage(x)
    BY <2>1, <2>2, ActivateLemma, ActivateCalm
  <2> QED
    BY <2>2, <2>3, CalmProgress, QuietSettled
<1>2. PICK x \in Started :
        \/ d = x
        \/ \E k \in OwnFormTasks(x.task) : d \in Decide(x, x, k, Initiator, "Complete")
  BY DEF Created
<1>3. x \in Database /\ Consistent(x) /\ Settled(x)
  BY <1>1 DEF Consistent
<1>4. CASE \E k \in OwnFormTasks(x.task) : d \in Decide(x, x, k, Initiator, "Complete")
  <2>1. PICK k \in OwnFormTasks(x.task) : d \in Decide(x, x, k, Initiator, "Complete")
    BY <1>4
  <2>2. k \in TaskIds /\ x.task[k].status = "Open" /\ x.task[k].owner = Initiator
    BY DEF OwnFormTasks, OpenAt
  <2>3. Sees(x, x)
    BY <1>3, LaterReflexive, ProgressReflexive DEF Sees
  <2>4. d \in Decide(x, x, k, x.task[k].owner, "Complete")
    BY <2>1, <2>2
  <2> QED
    BY <2>2, <2>3, <2>4, DecideSettled DEF Decisions
<1> QED
  BY <1>2, <1>3, <1>4

LEMMA InitialOutputs == Init => OutputInv
<1> SUFFICES ASSUME Init PROVE OutputInv
  OBVIOUS
<1>1. Settled(db)
  BY CreatedSettled DEF Init
<1> QED
  BY <1>1, InitialInvariant DEF OutputInv, Init

\* A call that begins takes up tasks its stages let it save.
LEMMA BeginOutputs ==
  ASSUME OutputInv, IndInv', NEW w \in Workers, NEW op, NEW on, NEW action,
         Begin(w, op, on, action),
         op = "draft" => \A k \in on : Config[db.task[k].stage].draft,
         op = "deadlines" => \A k \in on : Config[db.task[k].stage].deadline
  PROVE  OutputInv'
<1>1. /\ db' = db /\ Consistent(db) /\ Settled(db)
      /\ txn' = [txn EXCEPT ![w] = [op |-> op, on |-> on, action |-> action, snap |-> db]]
  BY DEF OutputInv, IndInv, Begin
<1>2. Settled(db)'
  BY <1>1 DEF Settled, OneStage, OutputsSettled
<1>3. ASSUME NEW x \in Workers, txn'[x] # Idle
      PROVE  Settled(txn'[x].snap) /\ Progress(txn'[x].snap, db') /\ SavesWhatItMay(txn'[x])
  <2>1. CASE x = w
    <3> DEFINE t == [op |-> op, on |-> on, action |-> action, snap |-> db]
    <3>1. txn'[x] = t
      BY <1>1, <2>1 DEF OutputInv, IndInv, TypeOK
    <3>2. t.snap = db /\ t.on = on /\ t.op = op
      OBVIOUS
    <3> HIDE DEF t
    <3> QED
      BY <1>1, <3>1, <3>2, ProgressReflexive DEF SavesWhatItMay
  <2>2. CASE x # w
    <3>1. txn'[x] = txn[x]
      BY <1>1, <2>2 DEF OutputInv, IndInv, TypeOK
    <3> QED
      BY <1>1, <1>3, <3>1 DEF OutputInv
  <2> QED
    BY <2>1, <2>2
<1> QED
  BY <1>2, <1>3 DEF OutputInv

\* A call that ends leaves what every other snapshot still knows.
LEMMA EndOutputs ==
  ASSUME OutputInv, IndInv', NEW w \in Workers, txn' = [txn EXCEPT ![w] = Idle],
         Later(db, db'), Settled(db'), Progress(db, db')
  PROVE  OutputInv'
<1>1. Consistent(db) /\ Consistent(db')
  BY DEF OutputInv, IndInv
<1>2. ASSUME NEW x \in Workers, txn'[x] # Idle
      PROVE  Settled(txn'[x].snap) /\ Progress(txn'[x].snap, db') /\ SavesWhatItMay(txn'[x])
  <2>1. txn'[x] = txn[x] /\ txn[x] # Idle
    BY <1>2 DEF OutputInv, IndInv, TypeOK
  <2>2. txn[x] \in Transaction /\ Later(txn[x].snap, db)
    BY <2>1 DEF OutputInv, IndInv, TypeOK, SnapshotOK
  <2>3. txn[x].snap \in Database
    BY <2>2 DEF Transaction
  <2>4. Settled(txn[x].snap) /\ Progress(txn[x].snap, db) /\ SavesWhatItMay(txn[x])
    BY <2>1 DEF OutputInv
  <2>5. Progress(txn[x].snap, db')
    BY <1>1, <2>2, <2>3, <2>4, ProgressTransitive
  <2> QED
    BY <2>1, <2>4, <2>5
<1> QED
  BY <1>2 DEF OutputInv

\* What a worker in the middle of a call sees.
LEMMA InFlightSees ==
  ASSUME OutputInv, NEW w \in Workers, txn[w].op # "idle"
  PROVE  Sees(txn[w].snap, db) /\ SavesWhatItMay(txn[w])
<1>1. txn[w] # Idle
  BY DEF Idle
<1>2. Consistent(db) /\ txn[w].snap \in Database /\ Later(txn[w].snap, db)
  BY InFlight DEF OutputInv
<1> QED
  BY <1>1, <1>2 DEF OutputInv, Sees

LEMMA StepOutputs ==
  ASSUME OutputInv, IndInv', Later(db, db'), NEW w \in Workers, Step(w)
  PROVE  OutputInv'
<1> DEFINE v == txn[w].snap
           on == txn[w].on
           Done == txn' = [txn EXCEPT ![w] = Idle] /\ Settled(db') /\ Progress(db, db')
<1>1. CASE BeginDecide(w)
  <2>1. PICK k \in TaskIds, action \in Decisions : Begin(w, "decide", {k}, action)
    BY <1>1 DEF BeginDecide
  <2> QED
    BY <2>1, BeginOutputs
<1>2. CASE BeginDraft(w)
  <2>1. PICK k \in TaskIds : Config[db.task[k].stage].draft /\ Begin(w, "draft", {k}, "None")
    BY <1>2 DEF BeginDraft
  <2>2. \A x \in {k} : Config[db.task[x].stage].draft
    BY <2>1
  <2> QED
    BY <2>1, <2>2, BeginOutputs
<1>3. CASE BeginDeadlines(w)
  <2>1. PICK ks \in SUBSET TasksWithDeadline(db) : Begin(w, "deadlines", ks, "None")
    BY <1>3 DEF BeginDeadlines
  <2>2. \A x \in ks : Config[db.task[x].stage].deadline
    BY DEF TasksWithDeadline
  <2> QED
    BY <2>1, <2>2, BeginOutputs
<1>4. CASE BeginCancel(w)
  BY <1>4, BeginOutputs DEF BeginCancel
<1>5. CASE BeginUpdate(w)
  BY <1>5, BeginOutputs DEF BeginUpdate
<1>6. CASE txn[w].op = "decide" /\ FinishDecide(w)
  <2>1. PICK k \in on : Commit(w, "decide", Decide(v, db, k, v.task[k].owner, txn[w].action))
    BY <1>6 DEF FinishDecide
  <2>2. Sees(v, db) /\ k \in TaskIds /\ v.task[k].status = "Open" /\ txn[w].action \in Decisions
    BY <1>6, InFlight, InFlightSees DEF OutputInv
  <2>3. db' \in Decide(v, db, k, v.task[k].owner, txn[w].action) /\ txn' = [txn EXCEPT ![w] = Idle]
    BY <2>1 DEF Commit
  <2> HIDE DEF v
  <2>4. Done
    BY <2>2, <2>3, DecideSettled
  <2> QED
    BY <2>4, EndOutputs
<1>7. CASE txn[w].op = "draft" /\ FinishDraft(w)
  <2>1. PICK k \in on : Commit(w, "draft", SaveDraft(v, db, k))
    BY <1>7 DEF FinishDraft
  <2>2. Sees(v, db) /\ k \in TaskIds /\ v.task[k].status = "Open" /\ Config[v.task[k].stage].draft
    BY <1>7, InFlight, InFlightSees DEF OutputInv, SavesWhatItMay
  <2>3. db' \in SaveDraft(v, db, k) /\ txn' = [txn EXCEPT ![w] = Idle]
    BY <2>1 DEF Commit
  <2> HIDE DEF v
  <2>4. Done
    BY <2>2, <2>3, DraftSettled
  <2> QED
    BY <2>4, EndOutputs
<1>8. CASE txn[w].op = "deadlines" /\ FinishDeadlines(w)
  <2>1. PICK late \in SUBSET on, to \in [on -> Users] :
          Commit(w, "deadlines", {Deadlines(v, db, on, late, to)})
    BY <1>8 DEF FinishDeadlines
  <2>2. /\ Sees(v, db) /\ on \in SUBSET TaskIds
        /\ \A k \in on : v.task[k].status = "Open" /\ Config[v.task[k].stage].deadline
    BY <1>8, InFlight, InFlightSees DEF OutputInv, SavesWhatItMay
  <2>3. db' = Deadlines(v, db, on, late, to) /\ txn' = [txn EXCEPT ![w] = Idle]
    BY <2>1 DEF Commit
  <2> HIDE DEF v, on
  <2>4. Done
    BY <2>1, <2>2, <2>3, DeadlinesSettled
  <2> QED
    BY <2>4, EndOutputs
<1>9. CASE txn[w].op = "cancel" /\ FinishCancel(w)
  <2>1. Sees(v, db)
    BY <1>9, InFlightSees
  <2>2. db' \in CancelRequest(v, db) /\ txn' = [txn EXCEPT ![w] = Idle]
    BY <1>9 DEF FinishCancel, Commit
  <2> HIDE DEF v
  <2>3. Done
    BY <2>1, <2>2, CancelSettled
  <2> QED
    BY <2>3, EndOutputs
<1>10. CASE txn[w].op = "update" /\ FinishUpdate(w)
  <2>1. Sees(v, db)
    BY <1>10, InFlightSees
  <2>2. db' \in UpdateRequest(v, db) /\ txn' = [txn EXCEPT ![w] = Idle]
    BY <1>10 DEF FinishUpdate, Commit
  <2> HIDE DEF v
  <2>3. Done
    BY <2>1, <2>2, UpdateSettled
  <2> QED
    BY <2>3, EndOutputs
<1>11. CASE Abort(w)
  <2>1. txn' = [txn EXCEPT ![w] = Idle] /\ db' = db
    BY <1>11 DEF Abort
  <2>2. Consistent(db) /\ Settled(db)
    BY DEF OutputInv, IndInv
  <2>3. Done
    BY <2>1, <2>2, ProgressReflexive DEF Settled, OneStage, OutputsSettled
  <2> QED
    BY <2>3, EndOutputs
<1> QED
  BY <1>1, <1>2, <1>3, <1>4, <1>5, <1>6, <1>7, <1>8, <1>9, <1>10, <1>11 DEF Step

LEMMA NextOutputs == OutputInv /\ [Next]_vars => OutputInv'
<1> SUFFICES ASSUME OutputInv, [Next]_vars PROVE OutputInv'
  OBVIOUS
<1>1. IndInv' /\ Later(db, db')
  BY NextLemma DEF OutputInv
<1>2. CASE Next
  BY <1>1, <1>2, StepOutputs DEF Next
<1>3. CASE UNCHANGED vars
  <2>1. db' = db /\ txn' = txn
    BY <1>3 DEF vars
  <2> QED
    BY <1>1, <2>1 DEF OutputInv, Settled, OneStage, OutputsSettled, SavesWhatItMay
<1> QED
  BY <1>2, <1>3

-----------------------------------------------------------------------------
(* The theorem.                                                            *)

\* complete_workflow_task, for any users, workers and definition: although each
\* assignee counts the open tasks in a snapshot of its own, no two of a visit
\* create the output of a stage whose tasks only decisions save.
THEOREM OutputAtMostOnceHolds == Spec => []OutputAtMostOnce
<1>1. OutputInv => OutputAtMostOnce
  BY DEF OutputInv, Settled, OutputsSettled, OutputAtMostOnce
<1>2. Spec => []OutputInv
  BY InitialOutputs, NextOutputs, PTL DEF Spec
<1> QED
  BY <1>1, <1>2, PTL

-----------------------------------------------------------------------------
(***************************************************************************)
(* When a call ends before the next begins: who a running instance waits   *)
(* for, which output a visit has, and what its history can never do.       *)
(*                                                                         *)
(* The argument: without overlap every snapshot is the committed database, *)
(* so each call is a step from one good database to another.  A visit that *)
(* the instance leaves keeps no open task (Left), and who decides last     *)
(* sees all the others of the visit decided.                               *)
(***************************************************************************)

-----------------------------------------------------------------------------
(* The invariant.                                                          *)

\* No two calls are in flight, because there is one worker.
Alone == \A w1, w2 \in Workers : w1 = w2

\* Decisions are dated in order and what is not decided shows nothing of one.
Dated(d) ==
  \A x \in TaskIds : /\ d.task[x].at <= d.clock
                     /\ ~Decided(d.task[x]) => d.task[x].action = "None" /\ ~d.task[x].output

RejectedLast(d) ==
  \A x, y \in TaskIds :
    (x[1] = y[1] /\ d.task[x].status = "Rejected" /\ Decided(d.task[y]))
      => d.task[y].at <= d.task[x].at

\* An output is the last thing of its visit.
OutputEnds(d) ==
  \A x, y \in TaskIds : (x[1] = y[1] /\ d.task[x].output) =>
    d.task[y].status # "Open" /\ (d.task[y].output => y = x)

AllComplete(d, n) ==
  \A y \in TaskIds : (y[1] = n /\ d.task[y].status # "None") =>
    Config[d.task[y].stage].output /\ d.task[y].action = "Complete"

\* A visit that all have completed has its output.
OutputMade(d) ==
  \A x \in TaskIds : (d.task[x].status # "None" /\ AllComplete(d, x[1])) =>
    \E y \in TaskIds : y[1] = x[1] /\ d.task[y].output

Rows(d) == OneStage(d) /\ Dated(d) /\ RejectedLast(d) /\ OutputEnds(d) /\ OutputMade(d)

Waiting(d) ==
  \E x \in TaskIds : /\ x[1] = d.inst.visit
                     /\ d.task[x].status = "Open" /\ d.task[x].stage = d.inst.stage

\* Where the instance stands is what its tasks say.
Place(d) ==
  /\ d.inst.status = "Running" => Waiting(d)
  /\ \A x \in TaskIds : d.task[x].status = "Open" =>
       /\ d.inst.status = "Running"
       /\ x[1] = d.inst.visit /\ d.task[x].stage = d.inst.stage
  /\ \A x \in TaskIds : (d.task[x].status = "Rejected" /\ x[1] = d.inst.visit) =>
       d.inst.status # "Running"
  /\ d.req.native # "None" => d.inst.status = "Completed"

Good(d) == Consistent(d) /\ Rows(d) /\ Place(d)

SerialInv ==
  /\ IndInv
  /\ Rows(db) /\ Place(db)
  /\ \A w \in Workers : txn[w] # Idle =>
       /\ txn[w].snap = db
       /\ txn[w].op \in {"cancel", "update"} => db.inst.status = "Running"

-----------------------------------------------------------------------------
(* An instance that leaves the visit it was at.                            *)

Stays(a, b) == Kept(a, b) /\ b.at = a.at /\ b.action = a.action

Left(c, d) ==
  /\ d.clock = c.clock /\ d.req.edits = c.req.edits
  /\ \A x \in TaskIds : x[1] <= c.inst.visit =>
       Stays(c.task[x], d.task[x]) /\ d.task[x].status # "Open"
  /\ \A x \in TaskIds : x[1] > c.inst.visit =>
       \/ d.task[x] = NoTask
       \/ /\ x[1] = d.inst.visit /\ d.inst.status = "Running"
          /\ d.task[x] = NewTask(d.inst.stage, x[2])
  /\ d.inst.status = "Running" => d.inst.visit > c.inst.visit /\ Waiting(d)
  /\ d.req.native # "None" => d.inst.status = "Completed"

LEMMA EmptyFields ==
  /\ NoTask.status = "None" /\ NoTask.action = "None" /\ NoTask.at = 0
  /\ ~NoTask.output
  BY DEF NoTask

LEMMA FreshFields ==
  ASSUME NEW s, NEW u
  PROVE  /\ NewTask(s, u).status = "Open" /\ NewTask(s, u).action = "None"
         /\ NewTask(s, u).at = 0 /\ ~NewTask(s, u).output
         /\ NewTask(s, u).stage = s
  BY DEF NewTask, NoTask

\* A row of a later visit shows nothing of a decision.
LEMMA LaterVisit ==
  ASSUME NEW c, NEW d, Left(c, d), NEW x \in TaskIds, x[1] > c.inst.visit
  PROVE  /\ d.task[x].status \in {"None", "Open"} /\ d.task[x].action = "None"
         /\ d.task[x].at = 0 /\ ~d.task[x].output
         /\ d.task[x].status = "Open" =>
              /\ x[1] = d.inst.visit /\ d.inst.status = "Running"
              /\ d.task[x].stage = d.inst.stage
<1>1. CASE d.task[x] = NoTask
  BY <1>1, EmptyFields
<1>2. CASE /\ x[1] = d.inst.visit /\ d.inst.status = "Running"
           /\ d.task[x] = NewTask(d.inst.stage, x[2])
  <2> DEFINE t == NewTask(d.inst.stage, x[2])
  <2>1. /\ t.status = "Open" /\ t.action = "None" /\ t.at = 0 /\ ~t.output
        /\ t.stage = d.inst.stage
    BY FreshFields
  <2> HIDE DEF t
  <2>2. d.task[x] = t
    BY <1>2 DEF t
  <2> QED
    BY <1>2, <2>1, <2>2
<1> QED
  BY <1>1, <1>2 DEF Left

LEMMA LeftIsGood ==
  ASSUME NEW c, NEW d, Consistent(c), Consistent(d), Rows(c), Left(c, d)
  PROVE  Rows(d) /\ Place(d)
<1>1. /\ c.inst.visit \in Nat /\ d.inst.visit \in Nat /\ c.clock \in Nat
      /\ d.clock = c.clock
      /\ \A x \in TaskIds : c.task[x] \in Task /\ d.task[x] \in Task
  BY VisitIsNumber DEF Consistent, Database, Left
<1>2. ASSUME NEW x \in TaskIds
      PROVE  /\ x[1] \in Nat
             /\ x[1] <= c.inst.visit \/ x[1] > c.inst.visit
             /\ ~(x[1] <= c.inst.visit /\ x[1] > c.inst.visit)
  BY <1>1, VisitNumber
<1>3. ASSUME NEW x \in TaskIds, x[1] <= c.inst.visit
      PROVE  /\ d.task[x].stage = c.task[x].stage /\ d.task[x].output = c.task[x].output
             /\ d.task[x].at = c.task[x].at /\ d.task[x].action = c.task[x].action
             /\ d.task[x].status # "Open"
             /\ \/ d.task[x].status = c.task[x].status
                \/ c.task[x].status = "Open" /\ d.task[x].status = "Cancelled"
  BY <1>3 DEF Left, Stays, Kept
<1>4. ASSUME NEW x \in TaskIds, NEW y \in TaskIds, x[1] = y[1]
      PROVE  \/ x[1] <= c.inst.visit /\ y[1] <= c.inst.visit
             \/ x[1] > c.inst.visit /\ y[1] > c.inst.visit
  BY <1>2, <1>4
<1>5. OneStage(d)
  <2> SUFFICES ASSUME NEW x \in TaskIds, NEW y \in TaskIds, x[1] = y[1],
                      d.task[x].status # "None", d.task[y].status # "None"
               PROVE  d.task[x].stage = d.task[y].stage
    BY DEF OneStage
  <2>1. CASE x[1] <= c.inst.visit /\ y[1] <= c.inst.visit
    <3>1. c.task[x].status # "None" /\ c.task[y].status # "None"
      BY <1>3, <2>1
    <3> QED
      BY <1>3, <2>1, <3>1 DEF Rows, OneStage
  <2>2. CASE x[1] > c.inst.visit /\ y[1] > c.inst.visit
    <3>1. d.task[x].status = "Open" /\ d.task[y].status = "Open"
      BY <2>2, LaterVisit
    <3>2. d.task[x].stage = d.inst.stage
      BY <2>2, <3>1, LaterVisit
    <3>3. d.task[y].stage = d.inst.stage
      BY <2>2, <3>1, LaterVisit
    <3> QED
      BY <3>2, <3>3
  <2> QED
    BY <1>4, <2>1, <2>2
<1>6. Dated(d)
  <2> SUFFICES ASSUME NEW x \in TaskIds
               PROVE  /\ d.task[x].at <= d.clock
                      /\ ~Decided(d.task[x]) => d.task[x].action = "None" /\ ~d.task[x].output
    BY DEF Dated
  <2>1. CASE x[1] <= c.inst.visit
    <3>1. c.task[x].at <= c.clock /\ (~Decided(c.task[x]) => c.task[x].action = "None" /\ ~c.task[x].output)
      BY DEF Rows, Dated
    <3>2. ~Decided(d.task[x]) => ~Decided(c.task[x])
      BY <1>3, <2>1 DEF Decided
    <3> QED
      BY <1>1, <1>3, <2>1, <3>1, <3>2
  <2>2. CASE x[1] > c.inst.visit
    <3>1. d.task[x].at = 0 /\ d.task[x].action = "None" /\ ~d.task[x].output
      BY <2>2, LaterVisit
    <3> QED
      BY <1>1, <3>1
  <2> QED
    BY <1>2, <2>1, <2>2
<1>7. RejectedLast(d)
  <2> SUFFICES ASSUME NEW x \in TaskIds, NEW y \in TaskIds, x[1] = y[1],
                      d.task[x].status = "Rejected", Decided(d.task[y])
               PROVE  d.task[y].at <= d.task[x].at
    BY DEF RejectedLast
  <2>1. CASE x[1] <= c.inst.visit /\ y[1] <= c.inst.visit
    <3>1. c.task[x].status = "Rejected" /\ Decided(c.task[y])
      BY <1>3, <2>1 DEF Decided
    <3> QED
      BY <1>3, <2>1, <3>1 DEF Rows, RejectedLast
  <2>2. CASE x[1] > c.inst.visit /\ y[1] > c.inst.visit
    BY <2>2, LaterVisit
  <2> QED
    BY <1>4, <2>1, <2>2
<1>8. OutputEnds(d)
  <2> SUFFICES ASSUME NEW x \in TaskIds, NEW y \in TaskIds, x[1] = y[1], d.task[x].output
               PROVE  d.task[y].status # "Open" /\ (d.task[y].output => y = x)
    BY DEF OutputEnds
  <2>1. CASE x[1] <= c.inst.visit /\ y[1] <= c.inst.visit
    <3>1. c.task[x].output /\ (d.task[y].output => c.task[y].output) /\ d.task[y].status # "Open"
      BY <1>3, <2>1
    <3> QED
      BY <3>1 DEF Rows, OutputEnds
  <2>2. CASE x[1] > c.inst.visit /\ y[1] > c.inst.visit
    BY <2>2, LaterVisit
  <2> QED
    BY <1>4, <2>1, <2>2
<1>9. OutputMade(d)
  <2> SUFFICES ASSUME NEW x \in TaskIds, d.task[x].status # "None", AllComplete(d, x[1])
               PROVE  \E y \in TaskIds : y[1] = x[1] /\ d.task[y].output
    BY DEF OutputMade
  <2>1. d.task[x].action = "Complete"
    BY DEF AllComplete
  <2>2. x[1] <= c.inst.visit
    BY <1>2, <2>1, LaterVisit
  <2>3. c.task[x].status # "None"
    BY <1>3, <2>2
  <2>4. AllComplete(c, x[1])
    <3> SUFFICES ASSUME NEW y \in TaskIds, y[1] = x[1], c.task[y].status # "None"
                 PROVE  Config[c.task[y].stage].output /\ c.task[y].action = "Complete"
      BY DEF AllComplete
    <3>1. d.task[y].status # "None" /\ d.task[y].stage = c.task[y].stage
          /\ d.task[y].action = c.task[y].action
      BY <1>3, <2>2
    <3> QED
      BY <3>1 DEF AllComplete
  <2>5. PICK y \in TaskIds : y[1] = x[1] /\ c.task[y].output
    BY <2>3, <2>4 DEF Rows, OutputMade
  <2> QED
    BY <1>3, <2>2, <2>5
<1>10. Place(d)
  <2>1. \A x \in TaskIds : d.task[x].status = "Open" =>
          /\ d.inst.status = "Running"
          /\ x[1] = d.inst.visit /\ d.task[x].stage = d.inst.stage
    BY <1>2, <1>3, LaterVisit
  <2>2. \A x \in TaskIds : (d.task[x].status = "Rejected" /\ x[1] = d.inst.visit) =>
          d.inst.status # "Running"
    BY LaterVisit DEF Left
  <2> QED
    BY <2>1, <2>2 DEF Place, Left
<1> QED
  BY <1>5, <1>6, <1>7, <1>8, <1>9, <1>10 DEF Rows

-----------------------------------------------------------------------------
(* How it leaves: the save of the instance, the cancelled siblings and the *)
(* tasks of the stage it arrives at.                                       *)

LEMMA SaveFields ==
  ASSUME NEW v, NEW c \in Database, c.inst.status = "Running", c.req.native = "None",
         NEW inst, NEW d \in SaveInstance(v, c, inst)
  PROVE  /\ d.inst = [inst EXCEPT !.ver = c.inst.ver + 1] /\ d.task = c.task
         /\ d.clock = c.clock /\ d.req.edits = c.req.edits
         /\ d.req.native # "None" => inst.status = "Completed"
<1> DEFINE key == StatusKey(inst, v.task)
           approved == inst.status = "Completed" /\ c.inst.status # "Completed"
           e(n) == [c EXCEPT !.inst = [inst EXCEPT !.ver = c.inst.ver + 1],
                             !.req.key = IF key # v.req.key THEN key ELSE @,
                             !.req.native = n]
<1>1. PICK n \in IF approved THEN NativeResults(v.req) ELSE {c.req.native} : d = e(n)
  BY DEF SaveInstance
<1>2. c.req \in Request
  BY DEF Database
<1>3. d = e(n)
  BY <1>1
<1> HIDE DEF key, approved
<1>4. /\ d.inst = [inst EXCEPT !.ver = c.inst.ver + 1] /\ d.task = c.task
      /\ d.clock = c.clock /\ d.req.edits = c.req.edits /\ d.req.native = n
  BY <1>2, <1>3 DEF Database, Request
<1>5. n # "None" => inst.status = "Completed"
  BY <1>1 DEF approved
<1> QED
  BY <1>4, <1>5

NothingOpen(c) == \A x \in TaskIds : c.task[x].status # "Open"

\* _activate_stage, where nothing is left open.
LEMMA ActivateLeft ==
  ASSUME NEW v \in Database, NEW c, Consistent(c), v.inst = c.inst, v.req = c.req,
         c.inst.status = "Running", c.req.native = "None", NothingOpen(c),
         NEW s \in Stages, NEW d \in Activate(v, c, s)
  PROVE  Left(c, d) /\ d.inst.visit = c.inst.visit + 1
<1>1. PICK to \in Landings[s] :
        LET status == IF to.status = "Unchanged" THEN v.inst.status ELSE to.status
            saved  == SaveInstance(v, c, [v.inst EXCEPT !.stage = to.stage,
                                                        !.status = status,
                                                        !.visit = @ + 1])
        IN /\ v.inst.visit < MaxVisits
           /\ d \in IF to.status # "Unchanged" THEN saved
                    ELSE IF Assignees(to.stage) = {} THEN {}
                         ELSE {WithTasks(x, to.stage) : x \in saved}
  BY DEF Activate
<1> DEFINE status == IF to.status = "Unchanged" THEN v.inst.status ELSE to.status
           inst   == [v.inst EXCEPT !.stage = to.stage, !.status = status, !.visit = @ + 1]
<1>2. PICK x \in SaveInstance(v, c, inst) :
        \/ to.status # "Unchanged" /\ d = x
        \/ to.status = "Unchanged" /\ Assignees(to.stage) # {} /\ d = WithTasks(x, to.stage)
  BY <1>1
<1>3. /\ to.stage \in Stages /\ status \in InstanceStatuses
      /\ status = "Running" <=> to.status = "Unchanged"
  BY LandingsType DEF InstanceStatuses, Database, Instance
<1>4. /\ inst \in Instance /\ inst.visit = c.inst.visit + 1
      /\ inst.stage = to.stage /\ inst.status = status
  <2>1. v.inst \in Instance
    BY DEF Database
  <2> HIDE DEF status
  <2>2. inst \in Instance /\ inst.visit = c.inst.visit + 1
    BY <1>3, <2>1, VisitedInstance
  <2> QED
    BY <2>1, <2>2 DEF Instance
<1>5. c \in Database /\ c.inst.visit \in Nat /\ c.inst.visit < MaxVisits
  BY <1>1, VisitIsNumber
<1> HIDE DEF inst, status
<1>6. /\ x.inst = [inst EXCEPT !.ver = c.inst.ver + 1] /\ x.task = c.task
      /\ x.clock = c.clock /\ x.req.edits = c.req.edits
      /\ x.req.native # "None" => inst.status = "Completed"
  BY <1>2, <1>5, SaveFields
<1>7. x \in Database
  <2>1. InstanceLater(v, c)
    BY VisitIsNumber DEF InstanceLater
  <2>2. inst.visit >= c.inst.visit
    BY <1>4, <1>5
  <2> QED
    BY <1>2, <1>4, <2>1, <2>2, SaveInstanceLemma DEF Consistent
<1>8. x.inst.visit = c.inst.visit + 1 /\ x.inst.stage = to.stage /\ x.inst.status = status
  BY <1>4, <1>6 DEF Instance
<1>9. ASSUME NEW k \in TaskIds
      PROVE  /\ k[1] \in Nat /\ k[2] \in Users
             /\ k[1] > c.inst.visit => c.task[k] = NoTask
             /\ k[1] <= c.inst.visit => k[1] # x.inst.visit
  BY <1>5, <1>8, VisitNumber DEF Consistent
<1>10. CASE to.status # "Unchanged" /\ d = x
  <2>1. d.inst.status # "Running"
    BY <1>3, <1>8, <1>10
  <2>2. \A k \in TaskIds : k[1] <= c.inst.visit =>
          Stays(c.task[k], d.task[k]) /\ d.task[k].status # "Open"
    BY <1>6, <1>10 DEF Stays, Kept, NothingOpen
  <2>3. \A k \in TaskIds : k[1] > c.inst.visit => d.task[k] = NoTask
    BY <1>6, <1>9, <1>10
  <2> QED
    BY <1>4, <1>6, <1>8, <1>10, <2>1, <2>2, <2>3 DEF Left
<1>11. CASE to.status = "Unchanged" /\ Assignees(to.stage) # {} /\ d = WithTasks(x, to.stage)
  <2>1. d.inst.status = "Running" /\ d.inst = x.inst /\ d.clock = x.clock /\ d.req = x.req
    BY <1>3, <1>8, <1>11, <1>7 DEF WithTasks, Database
  <2>2. \A k \in TaskIds : d.task[k] = IF k[1] = x.inst.visit /\ k[2] \in Assignees(to.stage)
                                       THEN NewTask(to.stage, k[2]) ELSE c.task[k]
    <3>1. x.task = c.task /\ c.task \in [TaskIds -> Task]
      BY <1>5, <1>6 DEF Database
    <3> QED
      BY <1>11, <1>7, <3>1 DEF WithTasks, Database
  <2>3. \A k \in TaskIds : k[1] <= c.inst.visit =>
          Stays(c.task[k], d.task[k]) /\ d.task[k].status # "Open"
    BY <1>9, <2>2 DEF Stays, Kept, NothingOpen
  <2>4. \A k \in TaskIds : k[1] > c.inst.visit =>
          \/ d.task[k] = NoTask
          \/ k[1] = d.inst.visit /\ d.task[k] = NewTask(d.inst.stage, k[2])
    BY <1>8, <1>9, <2>1, <2>2
  <2>5. Waiting(d)
    <3>1. PICK u \in Assignees(to.stage) : TRUE
      BY <1>11
    <3>2. u \in Users
      BY <1>3, AssigneesAreUsers
    <3> DEFINE k == <<x.inst.visit, u>>
    <3>3. k \in TaskIds /\ k[1] = x.inst.visit /\ k[2] = u
      BY <1>5, <1>8, <3>2, BoundsAreNumbers DEF TaskIds, Visits
    <3> HIDE DEF k
    <3>4. d.task[k] = NewTask(to.stage, u)
      BY <2>2, <3>3
    <3> QED
      BY <1>8, <2>1, <3>3, <3>4, FreshFields DEF Waiting
  <2>6. d.inst.visit > c.inst.visit
    BY <1>5, <1>8, <2>1
  <2>7. d.req.native = "None"
    BY <1>4, <1>6, <1>8, <2>1
  <2> QED
    BY <1>6, <1>8, <2>1, <2>3, <2>4, <2>5, <2>6, <2>7 DEF Left
<1> QED
  BY <1>2, <1>10, <1>11

\* An instance that is saved as ended where it is.
LEMMA EndLeft ==
  ASSUME NEW v \in Database, NEW c, Consistent(c), v.inst = c.inst, v.req = c.req,
         c.inst.status = "Running", c.req.native = "None", NothingOpen(c),
         NEW status \in {"Rejected", "Cancelled"},
         NEW d \in SaveInstance(v, c, [v.inst EXCEPT !.status = status])
  PROVE  Left(c, d) /\ d.inst.visit = c.inst.visit
<1> DEFINE inst == [v.inst EXCEPT !.status = status]
<1>1. c \in Database /\ c.inst \in Instance /\ c.inst.visit \in Nat
  BY VisitIsNumber
<1>2. inst \in Instance /\ inst.visit = c.inst.visit /\ inst.status = status
  BY <1>1 DEF Instance, InstanceStatuses
<1>3. d \in SaveInstance(v, c, inst)
  OBVIOUS
<1> HIDE DEF inst
<1>4. /\ d.inst = [inst EXCEPT !.ver = c.inst.ver + 1] /\ d.task = c.task
      /\ d.clock = c.clock /\ d.req.edits = c.req.edits
      /\ d.req.native # "None" => inst.status = "Completed"
  BY <1>1, <1>3, SaveFields
<1>5. d.inst.visit = c.inst.visit /\ d.inst.status = status /\ d.req.native = "None"
  BY <1>2, <1>4 DEF Instance
<1>6. ASSUME NEW x \in TaskIds
      PROVE  /\ x[1] <= c.inst.visit => Stays(c.task[x], d.task[x]) /\ d.task[x].status # "Open"
             /\ x[1] > c.inst.visit => d.task[x] = NoTask
  BY <1>4 DEF Stays, Kept, NothingOpen, Consistent
<1> QED
  BY <1>4, <1>5, <1>6 DEF Left

\* The bulk cancellation of every open row keeps the rest, and comes first.
LEMMA ClosedLeft ==
  ASSUME NEW c, Consistent(c), NEW ks,
         ks = {k \in TaskIds : c.task[k].status = "Open"},
         NEW d, Left(CancelOpen(c, ks), d)
  PROVE  Left(c, d)
<1> DEFINE e == CancelOpen(c, ks)
<1>1. c \in Database /\ \A x \in TaskIds : c.task[x] \in Task
  BY VisitIsNumber
<1>2. /\ e.inst = c.inst /\ e.clock = c.clock /\ e.req = c.req
      /\ \A x \in TaskIds :
           e.task[x] = IF x \in ks THEN [c.task[x] EXCEPT !.status = "Cancelled"] ELSE c.task[x]
  BY <1>1 DEF CancelOpen, Database
<1>3. ASSUME NEW x \in TaskIds
      PROVE  Stays(c.task[x], e.task[x])
  <2>1. CASE x \in ks
    <3>1. e.task[x] = [c.task[x] EXCEPT !.status = "Cancelled"] /\ c.task[x].status = "Open"
      BY <1>2, <2>1
    <3> QED
      BY <1>1, <3>1 DEF Stays, Kept, Task
  <2>2. CASE x \notin ks
    BY <1>2, <2>2 DEF Stays, Kept
  <2> QED
    BY <2>1, <2>2
<1> HIDE DEF e
<1>4. Left(e, d)
  BY DEF e
<1>5. ASSUME NEW x \in TaskIds, x[1] <= c.inst.visit
      PROVE  Stays(c.task[x], d.task[x]) /\ d.task[x].status # "Open"
  <2>1. Stays(e.task[x], d.task[x]) /\ d.task[x].status # "Open"
    BY <1>2, <1>4, <1>5 DEF Left
  <2> QED
    BY <1>3, <2>1 DEF Stays, Kept
<1> QED
  BY <1>2, <1>4, <1>5 DEF Left

LEMMA NothingStaysOpen ==
  ASSUME NEW c, Consistent(c), NEW ks,
         ks = {k \in TaskIds : c.task[k].status = "Open"}
  PROVE  NothingOpen(CancelOpen(c, ks))
<1>1. c \in Database /\ \A x \in TaskIds : c.task[x] \in Task
  BY VisitIsNumber
<1>2. ASSUME NEW x \in TaskIds
      PROVE  CancelOpen(c, ks).task[x].status # "Open"
  <2>1. CancelOpen(c, ks).task[x]
          = IF x \in ks THEN [c.task[x] EXCEPT !.status = "Cancelled"] ELSE c.task[x]
    BY <1>1 DEF CancelOpen, Database
  <2>2. CASE x \in ks
    <3>1. CancelOpen(c, ks).task[x] = [c.task[x] EXCEPT !.status = "Cancelled"]
      BY <2>1, <2>2
    <3> QED
      BY <1>1, <3>1 DEF Task
  <2>3. CASE x \notin ks
    BY <2>1, <2>3
  <2> QED
    BY <2>2, <2>3
<1> QED
  BY <1>2 DEF NothingOpen

-----------------------------------------------------------------------------
(* complete_workflow_task alone.                                           *)

\* What follows the saved decision: the instance leaves, or it waits for the
\* others of a stage where all must agree.
LEMMA OnwardAlone ==
  ASSUME NEW v \in Database, NEW c, Consistent(c), v.inst = c.inst, v.req = c.req,
         v.task = c.task, c.inst.status = "Running", c.req.native = "None",
         NEW k \in TaskIds, NEW action \in Decisions,
         \A x \in TaskIds : c.task[x].status = "Open" => c.task[x].stage = c.task[k].stage,
         NEW d \in Onward(v, c, k, action)
  PROVE  \/ Left(c, d)
         \/ d = c /\ action # "Reject" /\ ~NothingOpen(c)
<1> DEFINE s == v.task[k].stage
           ks == {x \in TaskIds : c.task[x].status = "Open"}
           e == CancelOpen(c, ks)
<1>1. CancelStage(c, s) = e /\ OpenAt(v.task, s) = ks
  <2>1. OpenAt(c.task, s) = ks
    BY DEF OpenAt
  <2> QED
    BY <2>1 DEF CancelStage
<1>2. Consistent(e) /\ e.inst = c.inst /\ e.req = c.req
  BY CancelOpenLemma
<1>3. NothingOpen(e)
  BY NothingStaysOpen
<1> HIDE DEF e
<1>4. ASSUME NEW x \in Stages, d \in Activate(v, e, x)
      PROVE  Left(c, d)
  <2>1. Left(e, d)
    BY <1>2, <1>3, <1>4, ActivateLeft
  <2> QED
    BY <2>1, ClosedLeft DEF e
<1>5. ASSUME NEW x \in Stages, d \in Activate(v, c, x), ks = {}
      PROVE  Left(c, d)
  <2>1. NothingOpen(c)
    BY <1>5 DEF NothingOpen
  <2> QED
    BY <1>5, <2>1, ActivateLeft
<1>6. CASE action = "Reject"
  <2>1. CASE d \in UNION {Activate(v, e, x) : x \in NextStage(s, "Reject")}
    BY <1>4, <2>1, RoutesStay
  <2>2. CASE d \in SaveInstance(v, e, [v.inst EXCEPT !.status = "Rejected"])
    <3>1. Left(e, d)
      BY <1>2, <1>3, <2>2, EndLeft
    <3> QED
      BY <3>1, ClosedLeft DEF e
  <2> QED
    BY <1>1, <1>6, <2>1, <2>2 DEF Onward
<1>7. CASE action = "Return"
  <2>1. PICK x \in NextStage(s, "Return") \cup ReturnStage(v.task, k) : d \in Activate(v, e, x)
    BY <1>1, <1>7 DEF Onward
  <2> QED
    BY <1>4, <2>1, RoutesStay, ReturnStageType
<1>8. CASE action \in {"Complete", "Approve"}
  <2>1. \/ \E x \in NextStage(s, action) : d \in Activate(v, e, x)
        \/ ks = {} /\ \E x \in NextStage(s, action) : d \in Activate(v, c, x)
        \/ ks # {} /\ d = c
    BY <1>1, <1>8 DEF Onward
  <2>2. CASE ks # {} /\ d = c
    <3>1. ~NothingOpen(c)
      BY <2>2 DEF NothingOpen
    <3> QED
      BY <1>8, <2>2, <3>1
  <2> QED
    BY <1>4, <1>5, <2>1, <2>2, RoutesStay
<1> QED
  BY <1>6, <1>7, <1>8 DEF Decisions

\* The row of k is saved with the decision; the others stay as they were.
SavesDecision(c, e, k, action) ==
  /\ e.clock = c.clock + 1 /\ e.inst = c.inst /\ e.req = c.req
  /\ \A x \in TaskIds : x # k => e.task[x] = c.task[x]
  /\ e.task[k].stage = c.task[k].stage
  /\ e.task[k].status = (IF action = "Reject" THEN "Rejected" ELSE "Completed")
  /\ e.task[k].action = action /\ e.task[k].at = e.clock
  /\ e.task[k].output <=> MakesOutput(c, k, action)

LEMMA DecisionRows ==
  ASSUME NEW c, NEW e, Good(c), NEW k \in TaskIds, c.task[k].status = "Open",
         NEW action \in Decisions, SavesDecision(c, e, k, action)
  PROVE  /\ Rows(e) /\ k[1] = c.inst.visit /\ c.inst.status = "Running"
         /\ Decided(e.task[k])
         /\ (action # "Reject" /\ ~NothingOpen(e)) => Place(e)
<1>1. /\ c.clock \in Nat /\ e.clock = c.clock + 1
      /\ \A x \in TaskIds : c.task[x].at \in Nat /\ c.task[x].at <= c.clock
  <2>1. c.clock \in Nat /\ \A x \in TaskIds : c.task[x].at \in Nat
    BY VisitIsNumber DEF Good, Consistent, Database, Task
  <2> QED
    BY <2>1 DEF Good, Rows, Dated, SavesDecision
<1>2. ASSUME NEW x \in TaskIds, x # k PROVE e.task[x] = c.task[x]
  BY <1>2 DEF SavesDecision
<1>3. /\ e.inst = c.inst /\ e.req = c.req
      /\ e.task[k].stage = c.task[k].stage /\ Decided(e.task[k])
      /\ (e.task[k].status = "Rejected") <=> (action = "Reject")
      /\ e.task[k].action = action /\ e.task[k].at = c.clock + 1
      /\ e.task[k].output <=> MakesOutput(c, k, action)
  BY <1>1 DEF SavesDecision, Decided
<1>4. /\ k[1] = c.inst.visit /\ c.inst.status = "Running" /\ c.task[k].stage = c.inst.stage
      /\ c.req.native = "None"
  BY DEF Good, Place
<1>5. \A x \in TaskIds : c.task[x].status = "Open" =>
        x[1] = c.inst.visit /\ c.task[x].stage = c.inst.stage
  BY DEF Good, Place
<1>6. \A x \in TaskIds : x[1] = k[1] => c.task[x].status # "Rejected" /\ ~c.task[x].output
  BY <1>4 DEF Good, Place, Rows, OutputEnds
<1>7. OneStage(e)
  <2> SUFFICES ASSUME NEW x \in TaskIds, NEW y \in TaskIds, x[1] = y[1],
                      e.task[x].status # "None", e.task[y].status # "None"
               PROVE  e.task[x].stage = e.task[y].stage
    BY DEF OneStage
  <2>1. c.task[x].status # "None" /\ c.task[y].status # "None"
    BY <1>2
  <2> QED
    BY <1>2, <1>3, <2>1 DEF Good, Rows, OneStage
<1>8. Dated(e)
  <2> SUFFICES ASSUME NEW x \in TaskIds
               PROVE  /\ e.task[x].at <= e.clock
                      /\ ~Decided(e.task[x]) => e.task[x].action = "None" /\ ~e.task[x].output
    BY DEF Dated
  <2>1. CASE x = k
    BY <1>1, <1>3, <2>1
  <2>2. CASE x # k
    BY <1>1, <1>2, <2>2 DEF Good, Rows, Dated
  <2> QED
    BY <2>1, <2>2
<1>9. RejectedLast(e)
  <2> SUFFICES ASSUME NEW x \in TaskIds, NEW y \in TaskIds, x[1] = y[1],
                      e.task[x].status = "Rejected", Decided(e.task[y])
               PROVE  e.task[y].at <= e.task[x].at
    BY DEF RejectedLast
  <2>1. CASE x = k
    <3>1. e.task[x].at = c.clock + 1 /\ e.task[y].at <= c.clock + 1 /\ e.task[y].at \in Nat
      BY <1>1, <1>2, <1>3, <2>1
    <3> QED
      BY <3>1
  <2>2. CASE x # k /\ y = k
    BY <1>2, <1>6, <2>2
  <2>3. CASE x # k /\ y # k
    BY <1>2, <2>3 DEF Good, Rows, RejectedLast
  <2> QED
    BY <2>1, <2>2, <2>3
<1>10. MakesOutput(c, k, action) =>
         \A y \in TaskIds : (y[1] = k[1] /\ y # k) => c.task[y].status # "Open"
  BY <1>4, <1>5 DEF MakesOutput, OpenAt
<1>11. OutputEnds(e)
  <2> SUFFICES ASSUME NEW x \in TaskIds, NEW y \in TaskIds, x[1] = y[1], e.task[x].output
               PROVE  e.task[y].status # "Open" /\ (e.task[y].output => y = x)
    BY DEF OutputEnds
  <2>1. CASE x = k
    <3>1. y # k => c.task[y].status # "Open" /\ ~c.task[y].output
      BY <1>3, <1>6, <1>10, <2>1
    <3>2. y = k => e.task[y].status # "Open"
      BY <1>3 DEF Decided
    <3> QED
      BY <1>2, <2>1, <3>1, <3>2
  <2>2. CASE x # k /\ y = k
    BY <1>2, <1>6, <2>2
  <2>3. CASE x # k /\ y # k
    BY <1>2, <2>3 DEF Good, Rows, OutputEnds
  <2> QED
    BY <2>1, <2>2, <2>3
<1>12. OutputMade(e)
  <2> SUFFICES ASSUME NEW x \in TaskIds, e.task[x].status # "None", AllComplete(e, x[1])
               PROVE  \E y \in TaskIds : y[1] = x[1] /\ e.task[y].output
    BY DEF OutputMade
  <2>1. CASE x[1] = k[1]
    <3>1. Config[c.task[k].stage].output /\ action = "Complete"
      BY <1>3, <2>1 DEF AllComplete, Decided
    <3>2. ASSUME NEW y \in OpenAt(c.task, c.task[k].stage), y # k
          PROVE  FALSE
      <4>1. y \in TaskIds /\ c.task[y].status = "Open" /\ y[1] = x[1]
        BY <1>4, <1>5, <2>1 DEF OpenAt
      <4>2. c.task[y].action = "None"
        BY <4>1 DEF Good, Rows, Dated, Decided
      <4>3. e.task[y] = c.task[y]
        BY <1>2, <3>2, <4>1
      <4> QED
        BY <4>1, <4>2, <4>3 DEF AllComplete
    <3>3. k \in OpenAt(c.task, c.task[k].stage)
      BY DEF OpenAt
    <3>4. OpenAt(c.task, c.task[k].stage) = {k}
      BY <3>2, <3>3
    <3> QED
      BY <1>3, <2>1, <3>1, <3>4 DEF MakesOutput
  <2>2. CASE x[1] # k[1]
    <3>1. \A y \in TaskIds : y[1] = x[1] => e.task[y] = c.task[y]
      BY <1>2, <2>2
    <3>2. c.task[x].status # "None" /\ AllComplete(c, x[1])
      BY <3>1 DEF AllComplete
    <3>3. PICK y \in TaskIds : y[1] = x[1] /\ c.task[y].output
      BY <3>2 DEF Good, Rows, OutputMade
    <3> QED
      BY <3>1, <3>3
  <2> QED
    BY <2>1, <2>2
<1>13. ASSUME action # "Reject", ~NothingOpen(e) PROVE Place(e)
  <2>1. PICK x \in TaskIds : e.task[x].status = "Open"
    BY <1>13 DEF NothingOpen
  <2>2. \A y \in TaskIds : e.task[y].status = "Open" => y # k /\ c.task[y].status = "Open"
    BY <1>2, <1>3 DEF Decided
  <2>3. \A y \in TaskIds : e.task[y].status = "Open" =>
          y[1] = e.inst.visit /\ e.task[y].stage = e.inst.stage
    BY <1>2, <1>3, <1>5, <2>2
  <2>4. Waiting(e)
    BY <2>1, <2>3 DEF Waiting
  <2>5. \A y \in TaskIds : y[1] = e.inst.visit => e.task[y].status # "Rejected"
    <3> SUFFICES ASSUME NEW y \in TaskIds, y[1] = e.inst.visit
                 PROVE  e.task[y].status # "Rejected"
      OBVIOUS
    <3>1. CASE y = k
      BY <1>3, <1>13, <3>1
    <3>2. CASE y # k
      BY <1>2, <1>3, <1>4, <1>6, <3>2
    <3> QED
      BY <3>1, <3>2
  <2> QED
    BY <1>3, <1>4, <2>3, <2>4, <2>5 DEF Place
<1> QED
  BY <1>3, <1>4, <1>7, <1>8, <1>9, <1>11, <1>12, <1>13 DEF Rows

LEMMA DecideAlone ==
  ASSUME NEW v \in Database, NEW c, Good(c), v.inst = c.inst, v.req = c.req, v.task = c.task,
         NEW k \in TaskIds, c.task[k].status = "Open", NEW action \in Decisions,
         NEW d \in Decide(v, c, k, c.task[k].owner, action)
  PROVE  /\ Good(d) /\ d.req.edits = c.req.edits
         /\ k[1] = c.inst.visit /\ Decided(d.task[k]) /\ c.inst.status = "Running"
<1> DEFINE who == c.task[k].owner
           row == Decision(v, c, k, who, action)
           clock == c.clock + 1
           v1 == [v EXCEPT !.task[k] = row]
           c1 == [c EXCEPT !.task[k] = row, !.clock = clock]
<1>1. /\ c \in Database /\ Consistent(c) /\ v.task[k] \in Task /\ who \in Users
      /\ clock \in Nat
  BY DEF Good, Consistent, Database, Task
<1>2. /\ row \in Task /\ row.ver = v.task[k].ver + 1
      /\ row.owner = who /\ row.actor = who /\ row.stage = c.task[k].stage
  BY <1>1, DecisionType
<1>3. /\ row.status = (IF action = "Reject" THEN "Rejected" ELSE "Completed")
      /\ row.action = action /\ row.at = clock
      /\ row.output <=> MakesOutput(c, k, action)
  <2>1. MakesOutput(v, k, action) <=> MakesOutput(c, k, action)
    BY DEF MakesOutput
  <2> DEFINE made == MakesOutput(v, k, action)
  <2>2. row = [v.task[k] EXCEPT !.status = IF action = "Reject" THEN "Rejected" ELSE "Completed",
                    !.action = action, !.actor = who, !.at = clock,
                    !.output = made, !.ver = @ + 1]
    BY DEF Decision
  <2> HIDE DEF made
  <2>3. /\ row.status = (IF action = "Reject" THEN "Rejected" ELSE "Completed")
        /\ row.action = action /\ row.at = clock /\ row.output = made
    BY <1>1, <2>2 DEF Task
  <2> QED
    BY <2>1, <2>3 DEF made
<1>4. Unmodified(v.task[k], c.task[k]) /\ d \in Onward(v1, c1, k, action)
  BY DEF Decide
<1> HIDE DEF row, clock
<1>5. Consistent(c1) /\ Later(c, c1)
  <2>1. /\ c1 \in Database /\ c1.inst = c.inst /\ c1.req = c.req
        /\ \A x \in TaskIds : c1.task[x] = IF x = k THEN row ELSE c.task[x]
    BY <1>1, <1>2 DEF Database
  <2> DEFINE a == v.task[k]
  <2>2. a \in Task /\ RowLater(a, c.task[k]) /\ a.status = "Open"
    BY <1>1, LaterReflexive DEF Later
  <2>3. Unmodified(a, c.task[k]) /\ row.ver = a.ver + 1
    BY <1>2, <1>4
  <2> HIDE DEF a, c1
  <2> QED
    BY <1>1, <1>2, <2>1, <2>2, <2>3, SaveOpenRowLemma
<1>6. SavesDecision(c, c1, k, action)
  <2>1. /\ c1.inst = c.inst /\ c1.req = c.req /\ c1.clock = c.clock + 1
        /\ \A x \in TaskIds : c1.task[x] = IF x = k THEN row ELSE c.task[x]
    BY <1>1 DEF Database, clock
  <2> HIDE DEF c1
  <2> QED
    BY <1>2, <1>3, <2>1 DEF SavesDecision, clock
<1>7. v1 \in Database /\ v1.inst = c.inst /\ v1.req = c.req /\ v1.task = c1.task
  BY <1>1, <1>2 DEF Database
<1> HIDE DEF v1, c1
<1>8. /\ Rows(c1) /\ k[1] = c.inst.visit /\ c.inst.status = "Running" /\ Decided(c1.task[k])
      /\ (action # "Reject" /\ ~NothingOpen(c1)) => Place(c1)
  BY <1>6, DecisionRows
<1>9. /\ c1.inst = c.inst /\ c1.req = c.req /\ c.req.native = "None"
  BY <1>6, <1>8 DEF SavesDecision, Good, Place
<1>10. \A x \in TaskIds : c1.task[x].status = "Open" => c1.task[x].stage = c1.task[k].stage
  <2>1. \A x \in TaskIds : c.task[x].status = "Open" => c.task[x].stage = c.task[k].stage
    BY DEF Good, Place
  <2> QED
    BY <1>6, <1>8, <2>1 DEF SavesDecision, Decided
<1>11. Left(c1, d) \/ (d = c1 /\ action # "Reject" /\ ~NothingOpen(c1))
  BY <1>4, <1>5, <1>7, <1>8, <1>9, <1>10, OnwardAlone
<1>12. Consistent(d) /\ Later(c1, d)
  <2>1. InstanceLater(v1, c1)
    BY <1>7, <1>9, VisitIsNumber, <1>5 DEF InstanceLater
  <2> QED
    BY <1>4, <1>5, <1>7, <2>1, OnwardLemma
<1>13. Rows(d) /\ Place(d)
  BY <1>5, <1>8, <1>11, <1>12, LeftIsGood
<1>14. d.req.edits = c.req.edits
  BY <1>9, <1>11 DEF Left
<1>15. Decided(d.task[k])
  BY <1>8, <1>12 DEF Later, RowLater
<1> QED
  BY <1>8, <1>12, <1>13, <1>14, <1>15 DEF Good

-----------------------------------------------------------------------------
(* The other calls, alone.                                                 *)

SameFields(a, b) ==
  /\ b.status = a.status /\ b.stage = a.stage /\ b.at = a.at
  /\ b.action = a.action /\ b.output = a.output

\* A write that changes nothing a decision is about.
LEMMA SameFieldsGood ==
  ASSUME NEW c, NEW d, Good(c), Consistent(d), d.clock = c.clock,
         d.inst.status = c.inst.status, d.inst.stage = c.inst.stage,
         d.inst.visit = c.inst.visit, d.req.native = c.req.native,
         \A x \in TaskIds : SameFields(c.task[x], d.task[x])
  PROVE  Good(d)
<1>1. OneStage(d)
  BY DEF Good, Rows, OneStage, SameFields
<1>2. Dated(d)
  BY DEF Good, Rows, Dated, SameFields, Decided
<1>3. RejectedLast(d)
  BY DEF Good, Rows, RejectedLast, SameFields, Decided
<1>4. OutputEnds(d)
  BY DEF Good, Rows, OutputEnds, SameFields
<1>5. OutputMade(d)
  <2> SUFFICES ASSUME NEW x \in TaskIds, d.task[x].status # "None", AllComplete(d, x[1])
               PROVE  \E y \in TaskIds : y[1] = x[1] /\ d.task[y].output
    BY DEF OutputMade
  <2>1. c.task[x].status # "None" /\ AllComplete(c, x[1])
    BY DEF AllComplete, SameFields
  <2>2. PICK y \in TaskIds : y[1] = x[1] /\ c.task[y].output
    BY <2>1 DEF Good, Rows, OutputMade
  <2> QED
    BY <2>2 DEF SameFields
<1>6. Place(d)
  BY DEF Good, Place, Waiting, SameFields
<1> QED
  BY <1>1, <1>2, <1>3, <1>4, <1>5, <1>6 DEF Good, Rows

LEMMA CancelAlone ==
  ASSUME NEW c, Good(c), c.inst.status = "Running", NEW d \in CancelRequest(c, c)
  PROVE  Good(d) /\ d.req.edits = c.req.edits /\ d.inst.visit = c.inst.visit
<1> DEFINE ks == {k \in TaskIds : c.task[k].status = "Open"}
           e == CancelOpen(c, ks)
<1>1. c \in Database /\ Consistent(c) /\ c.req.native = "None"
  BY VisitIsNumber DEF Good, Place
<1>2. Consistent(e) /\ e.inst = c.inst /\ e.req = c.req
  BY <1>1, CancelOpenLemma
<1>3. NothingOpen(e)
  BY <1>1, NothingStaysOpen
<1>4. d \in SaveInstance(c, e, [c.inst EXCEPT !.status = "Cancelled"])
  BY DEF CancelRequest
<1> HIDE DEF e
<1>5. Left(e, d) /\ d.inst.visit = c.inst.visit
  <2>1. e.inst.status = "Running" /\ e.req.native = "None"
    BY <1>1, <1>2
  <2>2. Left(e, d) /\ d.inst.visit = e.inst.visit
    BY <1>1, <1>2, <1>3, <1>4, <2>1, EndLeft
  <2> QED
    BY <1>2, <2>2
<1>6. Left(c, d)
  BY <1>1, <1>5, ClosedLeft DEF e
<1>7. Consistent(d)
  BY <1>1, CancelRequestLemma, LaterReflexive DEF Later
<1>8. Rows(d) /\ Place(d)
  BY <1>1, <1>6, <1>7, LeftIsGood DEF Good
<1> QED
  BY <1>5, <1>6, <1>7, <1>8 DEF Good, Left

\* An edit is refused once somebody has acted, unless the request was returned;
\* what a resubmission adds is the decision on the form task.
LEMMA UpdateAlone ==
  ASSUME NEW c, Good(c), c.inst.status = "Running", NEW d \in UpdateRequest(c, c)
  PROVE  /\ Good(d)
         /\ c.req.key = "returned" \/ ~HasActed(c.task)
         /\ \/ d.inst.visit = c.inst.visit
            \/ \E k \in TaskIds : /\ k[1] = c.inst.visit
                                  /\ ~Decided(c.task[k]) /\ Decided(d.task[k])
<1> DEFINE v0 == [c EXCEPT !.req = c.req]
           c0 == [c EXCEPT !.req.edits = @ + 1]
<1>1. c \in Database /\ Consistent(c) /\ c.inst \in Instance /\ c.req \in Request
      /\ c.req.native = "None" /\ Later(c, c)
  BY VisitIsNumber, LaterReflexive DEF Good, Place, Database
<1>2. PICK x \in SaveInstance(v0, c0, c.inst) :
        \/ d = x
        \/ \E k \in OwnFormTasks(c.task) :
             d \in Decide([c EXCEPT !.inst = x.inst, !.req = x.req], x, k, Initiator, "Complete")
  BY UpdateShape
<1>3. c.req.key = "returned" \/ ~HasActed(c.task)
  BY DEF UpdateRequest
<1>4. Consistent(x) /\ x.task = c.task /\ x.inst.visit = c.inst.visit
  BY <1>1, <1>2, EditLemma
<1>5. /\ x.inst.status = c.inst.status /\ x.inst.stage = c.inst.stage
      /\ x.clock = c.clock /\ x.req.native = c.req.native
  <2>1. c0.inst = c.inst /\ c0.clock = c.clock /\ c0.req = [c.req EXCEPT !.edits = @ + 1]
    BY <1>1 DEF Database
  <2>2. c0.req.native = "None" /\ c0.req \in Request
    BY <1>1, <2>1 DEF Request
  <2>3. c0 \in Database /\ c0.inst.status = "Running"
    BY <1>1, <2>1, <2>2 DEF Database
  <2> HIDE DEF v0, c0
  <2>4. /\ x.inst = [c.inst EXCEPT !.ver = c0.inst.ver + 1] /\ x.clock = c0.clock
        /\ x.req.native # "None" => c.inst.status = "Completed"
    BY <1>2, <2>2, <2>3, SaveFields
  <2> QED
    BY <1>1, <2>1, <2>4 DEF Instance
<1>6. Good(x)
  BY <1>4, <1>5, SameFieldsGood DEF SameFields
<1>7. ASSUME NEW k \in OwnFormTasks(c.task),
             d \in Decide([c EXCEPT !.inst = x.inst, !.req = x.req], x, k, Initiator, "Complete")
      PROVE  /\ Good(d) /\ k \in TaskIds /\ k[1] = c.inst.visit
             /\ ~Decided(c.task[k]) /\ Decided(d.task[k])
  <2> DEFINE v2 == [c EXCEPT !.inst = x.inst, !.req = x.req]
  <2>1. k \in TaskIds /\ c.task[k].status = "Open" /\ x.task[k].owner = Initiator
    BY <1>4 DEF OwnFormTasks, OpenAt
  <2>2. v2 \in Database /\ v2.inst = x.inst /\ v2.req = x.req /\ v2.task = x.task
    BY <1>1, <1>4 DEF Consistent, Database
  <2>3. d \in Decide(v2, x, k, x.task[k].owner, "Complete")
    BY <1>7, <2>1
  <2> HIDE DEF v2
  <2>4. Good(d) /\ k[1] = x.inst.visit /\ Decided(d.task[k])
    BY <1>4, <1>6, <2>1, <2>2, <2>3, DecideAlone DEF Decisions
  <2> QED
    BY <1>4, <2>1, <2>4 DEF Decided
<1> QED
  BY <1>2, <1>3, <1>4, <1>6, <1>7

LEMMA DraftAlone ==
  ASSUME NEW c, Good(c), NEW k \in TaskIds, c.task[k].status = "Open",
         NEW d \in SaveDraft(c, c, k)
  PROVE  Good(d) /\ d.inst = c.inst /\ d.req = c.req
<1>1. c \in Database /\ Consistent(c) /\ c.task[k] \in Task /\ Later(c, c)
  BY VisitIsNumber, LaterReflexive DEF Good
<1> DEFINE row == [c.task[k] EXCEPT !.ver = @ + 1]
<1>2. SameFields(c.task[k], row)
  BY <1>1 DEF SameFields, Task
<1>3. /\ d.inst = c.inst /\ d.req = c.req /\ d.clock = c.clock
      /\ \A x \in TaskIds : d.task[x] = IF x = k THEN row ELSE c.task[x]
  BY <1>1 DEF SaveDraft, SaveRow, Database
<1> HIDE DEF row
<1>4. Consistent(d)
  BY <1>1, SaveDraftLemma
<1>5. \A x \in TaskIds : SameFields(c.task[x], d.task[x])
  BY <1>2, <1>3 DEF SameFields
<1> QED
  BY <1>3, <1>4, <1>5, SameFieldsGood

LEMMA DeadlinesAlone ==
  ASSUME NEW c, Good(c), NEW ks \in SUBSET TaskIds, \A k \in ks : c.task[k].status = "Open",
         NEW late, NEW to \in [ks -> Users]
  PROVE  LET d == Deadlines(c, c, ks, late, to) IN
         Good(d) /\ d.inst = c.inst /\ d.req = c.req
<1> DEFINE d == Deadlines(c, c, ks, late, to)
           row(k) == [IF k \in late THEN Escalated(c.task[k], to[k]) ELSE Reminded(c.task[k])
                        EXCEPT !.ver = @ + 1]
<1>1. c \in Database /\ Consistent(c) /\ Later(c, c)
      /\ \A x \in TaskIds : c.task[x] \in Task
  BY VisitIsNumber, LaterReflexive DEF Good
<1>2. /\ d.inst = c.inst /\ d.req = c.req /\ d.clock = c.clock
      /\ \A x \in TaskIds : d.task[x] = row(x) \/ d.task[x] = c.task[x]
  BY <1>1 DEF Deadlines, Database
<1>3. ASSUME NEW k \in TaskIds PROVE SameFields(c.task[k], row(k))
  <2>1. c.task[k] \in Task
    BY <1>1
  <2> DEFINE owner == IF Config[c.task[k].stage].reassign THEN to[k] ELSE c.task[k].owner
             r == [c.task[k] EXCEPT !.escalated = TRUE, !.owner = owner]
             m == [c.task[k] EXCEPT !.reminded = TRUE]
  <2>2. row(k) = [IF k \in late THEN r ELSE m EXCEPT !.ver = @ + 1]
    BY DEF Escalated, Reminded
  <2> HIDE DEF owner, row
  <2>3. CASE k \in late
    BY <2>1, <2>2, <2>3 DEF Task, SameFields
  <2>4. CASE k \notin late
    BY <2>1, <2>2, <2>4 DEF Task, SameFields
  <2> QED
    BY <2>3, <2>4
<1> HIDE DEF row
<1>4. Consistent(d)
  BY <1>1, DeadlinesLemma
<1> HIDE DEF d
<1>5. \A x \in TaskIds : SameFields(c.task[x], d.task[x])
  BY <1>2, <1>3 DEF SameFields
<1>6. Good(d)
  BY <1>2, <1>4, <1>5, SameFieldsGood
<1> QED
  BY <1>2, <1>6 DEF d

-----------------------------------------------------------------------------
(* The initial states and every step.                                      *)

LEMMA CreatedGood ==
  ASSUME NEW d \in Created
  PROVE  Good(d)
<1>1. ASSUME NEW x \in Started PROVE Good(x)
  <2>1. PICK s \in Stages : x \in Activate(Blank, Blank, s)
    BY <1>1, RoutesStay DEF Started
  <2>2. Consistent(Blank) /\ Blank \in Database /\ InstanceLater(Blank, Blank)
    BY BlankConsistent, LaterReflexive DEF Consistent, Later
  <2>3. /\ Blank.inst.status = "Running" /\ Blank.req.native = "None" /\ Blank.clock = 0
        /\ \A y \in TaskIds : Blank.task[y] = NoTask
    BY DEF Blank
  <2>4. NothingOpen(Blank)
    BY <2>3, EmptyFields DEF NothingOpen
  <2>5. Rows(Blank)
    BY <2>3, EmptyFields
       DEF Rows, OneStage, Dated, RejectedLast, OutputEnds, OutputMade, Decided
  <2>6. Left(Blank, x)
    BY <2>1, <2>2, <2>3, <2>4, ActivateLeft
  <2>7. Consistent(x)
    BY <2>1, <2>2, ActivateLemma
  <2> QED
    BY <2>2, <2>5, <2>6, <2>7, LeftIsGood DEF Good
<1>2. PICK x \in Started :
        \/ d = x
        \/ \E k \in OwnFormTasks(x.task) : d \in Decide(x, x, k, Initiator, "Complete")
  BY DEF Created
<1>3. CASE \E k \in OwnFormTasks(x.task) : d \in Decide(x, x, k, Initiator, "Complete")
  <2>1. PICK k \in OwnFormTasks(x.task) : d \in Decide(x, x, k, Initiator, "Complete")
    BY <1>3
  <2>2. k \in TaskIds /\ x.task[k].status = "Open" /\ x.task[k].owner = Initiator
    BY DEF OwnFormTasks, OpenAt
  <2>3. d \in Decide(x, x, k, x.task[k].owner, "Complete")
    BY <2>1, <2>2
  <2>4. Good(x) /\ x \in Database
    BY <1>1 DEF Good, Consistent
  <2> QED
    BY <2>2, <2>3, <2>4, DecideAlone DEF Decisions
<1> QED
  BY <1>1, <1>2, <1>3

LEMMA InitialAlone == Init => SerialInv
<1> SUFFICES ASSUME Init PROVE SerialInv
  OBVIOUS
<1>1. Rows(db) /\ Place(db)
  BY CreatedGood DEF Init, Good
<1> QED
  BY <1>1, InitialInvariant DEF SerialInv, Init

\* What a step may do to the rows when no call meets another.
Advances(c, d) ==
  /\ Good(d)
  /\ d.req.edits # c.req.edits => c.req.key = "returned" \/ ~HasActed(c.task)
  /\ d.inst.visit # c.inst.visit =>
       \E k \in TaskIds : k[1] = c.inst.visit /\ ~Decided(c.task[k]) /\ Decided(d.task[k])
  /\ c.inst.status # "Running" => d.inst = c.inst /\ d.req.key = c.req.key

LEMMA AdvancesReflexive ==
  ASSUME NEW c, Good(c)
  PROVE  Advances(c, c)
  BY DEF Advances

LEMMA BeginAlone ==
  ASSUME Alone, SerialInv, NEW w \in Workers, NEW op, NEW on, NEW action,
         Begin(w, op, on, action), IndInv',
         op \in {"cancel", "update"} => db.inst.status = "Running"
  PROVE  SerialInv' /\ Advances(db, db')
<1> DEFINE t == [op |-> op, on |-> on, action |-> action, snap |-> db]
<1>1. /\ db' = db /\ txn' = [txn EXCEPT ![w] = t] /\ Good(db)
      /\ txn \in [Workers -> {Idle} \cup Transaction]
  BY DEF Begin, SerialInv, IndInv, TypeOK, Good
<1>2. ASSUME NEW x \in Workers
      PROVE  txn'[x].snap = db' /\ (txn'[x].op \in {"cancel", "update"} => db'.inst.status = "Running")
  <2>1. x = w
    BY DEF Alone
  <2>2. txn'[x] = t
    BY <1>1, <2>1
  <2>3. t.snap = db /\ t.op = op
    OBVIOUS
  <2> HIDE DEF t
  <2> QED
    BY <1>1, <2>2, <2>3
<1>3. Rows(db') /\ Place(db')
  BY <1>1 DEF Good
<1> QED
  BY <1>1, <1>2, <1>3, AdvancesReflexive DEF SerialInv

\* A call that ends leaves no other in flight.
LEMMA EndAlone ==
  ASSUME Alone, SerialInv, NEW w \in Workers, IndInv', txn' = [txn EXCEPT ![w] = Idle],
         Advances(db, db')
  PROVE  SerialInv'
<1>1. ASSUME NEW x \in Workers PROVE txn'[x] = Idle
  BY DEF Alone, SerialInv, IndInv, TypeOK
<1>2. Rows(db') /\ Place(db')
  BY DEF Advances, Good
<1> QED
  BY <1>1, <1>2 DEF SerialInv

LEMMA StepAlone ==
  ASSUME Alone, SerialInv, NEW w \in Workers, Step(w)
  PROVE  SerialInv' /\ Advances(db, db')
<1>1. IndInv' /\ Good(db) /\ db \in Database
  BY StepLemma DEF SerialInv, IndInv, Good, TypeOK
<1>2. ASSUME txn[w].op # "idle"
      PROVE  /\ txn[w].snap = db /\ txn[w].on \in SUBSET TaskIds
             /\ \A k \in txn[w].on : db.task[k].status = "Open"
             /\ txn[w].op = "decide" => txn[w].action \in Decisions
             /\ txn[w].op \in {"cancel", "update"} => db.inst.status = "Running"
  <2>1. txn[w] # Idle
    BY <1>2 DEF Idle
  <2> QED
    BY <1>2, <2>1, InFlight DEF SerialInv
<1>3. ASSUME txn' = [txn EXCEPT ![w] = Idle], Advances(db, db')
      PROVE  SerialInv' /\ Advances(db, db')
  BY <1>1, <1>3, EndAlone
<1>4. \A k \in TaskIds : db.task[k].status = "Open" => db.inst.status = "Running"
  BY <1>1 DEF Good, Place
<1>5. CASE BeginDecide(w)
  BY <1>1, <1>5, BeginAlone DEF BeginDecide
<1>6. CASE BeginDraft(w)
  BY <1>1, <1>6, BeginAlone DEF BeginDraft
<1>7. CASE BeginDeadlines(w)
  BY <1>1, <1>7, BeginAlone DEF BeginDeadlines
<1>8. CASE BeginCancel(w)
  BY <1>1, <1>8, BeginAlone DEF BeginCancel
<1>9. CASE BeginUpdate(w)
  BY <1>1, <1>9, BeginAlone DEF BeginUpdate
<1>10. CASE txn[w].op = "decide" /\ FinishDecide(w)
  <2>1. PICK k \in txn[w].on :
          Commit(w, "decide", Decide(db, db, k, db.task[k].owner, txn[w].action))
    BY <1>2, <1>10 DEF FinishDecide
  <2>2. k \in TaskIds /\ db.task[k].status = "Open" /\ txn[w].action \in Decisions
    BY <1>2, <1>10, <2>1
  <2> DEFINE action == txn[w].action
  <2>3. db' \in Decide(db, db, k, db.task[k].owner, action) /\ txn' = [txn EXCEPT ![w] = Idle]
    BY <2>1 DEF Commit
  <2>4. action \in Decisions
    BY <2>2
  <2> HIDE DEF action
  <2>5. /\ Good(db') /\ db'.req.edits = db.req.edits
        /\ k[1] = db.inst.visit /\ Decided(db'.task[k]) /\ db.inst.status = "Running"
    BY <1>1, <2>2, <2>3, <2>4, DecideAlone
  <2>6. Advances(db, db')
    BY <2>2, <2>5 DEF Advances, Decided
  <2> QED
    BY <1>3, <2>3, <2>6
<1>11. CASE txn[w].op = "draft" /\ FinishDraft(w)
  <2>1. PICK k \in txn[w].on : Commit(w, "draft", SaveDraft(db, db, k))
    BY <1>2, <1>11 DEF FinishDraft
  <2>2. k \in TaskIds /\ db.task[k].status = "Open"
    BY <1>2, <1>11, <2>1
  <2>3. db' \in SaveDraft(db, db, k) /\ txn' = [txn EXCEPT ![w] = Idle]
    BY <2>1 DEF Commit
  <2>4. Good(db') /\ db'.inst = db.inst /\ db'.req = db.req
    BY <1>1, <2>2, <2>3, DraftAlone
  <2>5. Advances(db, db')
    BY <2>4 DEF Advances
  <2> QED
    BY <1>3, <2>3, <2>5
<1>12. CASE txn[w].op = "deadlines" /\ FinishDeadlines(w)
  <2> DEFINE on == txn[w].on
  <2>1. PICK late \in SUBSET on, to \in [on -> Users] :
          Commit(w, "deadlines", {Deadlines(db, db, on, late, to)})
    BY <1>2, <1>12 DEF FinishDeadlines
  <2>2. on \in SUBSET TaskIds /\ \A k \in on : db.task[k].status = "Open"
    BY <1>2, <1>12
  <2>3. db' = Deadlines(db, db, on, late, to) /\ txn' = [txn EXCEPT ![w] = Idle]
    BY <2>1 DEF Commit
  <2> HIDE DEF on
  <2>4. Good(db') /\ db'.inst = db.inst /\ db'.req = db.req
    BY <1>1, <2>1, <2>2, <2>3, DeadlinesAlone
  <2>5. Advances(db, db')
    BY <2>4 DEF Advances
  <2> QED
    BY <1>3, <2>3, <2>5
<1>13. CASE txn[w].op = "cancel" /\ FinishCancel(w)
  <2>1. /\ db.inst.status = "Running" /\ db' \in CancelRequest(db, db)
        /\ txn' = [txn EXCEPT ![w] = Idle]
    BY <1>2, <1>13 DEF FinishCancel, Commit
  <2>2. Good(db') /\ db'.req.edits = db.req.edits /\ db'.inst.visit = db.inst.visit
    BY <1>1, <2>1, CancelAlone
  <2>3. Advances(db, db')
    BY <2>1, <2>2 DEF Advances
  <2> QED
    BY <1>3, <2>1, <2>3
<1>14. CASE txn[w].op = "update" /\ FinishUpdate(w)
  <2>1. /\ db.inst.status = "Running" /\ db' \in UpdateRequest(db, db)
        /\ txn' = [txn EXCEPT ![w] = Idle]
    BY <1>2, <1>14 DEF FinishUpdate, Commit
  <2>2. Advances(db, db')
    BY <1>1, <2>1, UpdateAlone DEF Advances
  <2> QED
    BY <1>3, <2>1, <2>2
<1>15. CASE Abort(w)
  <2>1. txn' = [txn EXCEPT ![w] = Idle] /\ db' = db
    BY <1>15 DEF Abort
  <2> QED
    BY <1>1, <1>3, <2>1, AdvancesReflexive
<1> QED
  BY <1>5, <1>6, <1>7, <1>8, <1>9, <1>10, <1>11, <1>12, <1>13, <1>14, <1>15 DEF Step

LEMMA NextAlone == Alone /\ SerialInv /\ [Next]_vars => SerialInv' /\ [Advances(db, db')]_vars
<1> SUFFICES ASSUME Alone, SerialInv, [Next]_vars
             PROVE  SerialInv' /\ [Advances(db, db')]_vars
  OBVIOUS
<1>1. CASE Next
  BY <1>1, StepAlone DEF Next
<1>2. CASE UNCHANGED vars
  <2>1. IndInv'
    BY NextLemma DEF SerialInv
  <2>2. db' = db /\ txn' = txn
    BY <1>2 DEF vars
  <2> QED
    BY <1>2, <2>1, <2>2 DEF SerialInv
<1> QED
  BY <1>1, <1>2

LEMMA AloneInvariance == ASSUME Alone PROVE Spec => []SerialInv
<1>1. SerialInv /\ [Next]_vars => SerialInv'
  BY NextAlone
<1> QED
  BY <1>1, InitialAlone, PTL DEF Spec

\* complete_workflow_task and cancel_request, for any definition, when calls on
\* a request do not overlap: a running instance waits for somebody, nothing but
\* what it waits for can be decided, a rejection is the last word of its visit
\* and an ERPNext document is there for approved requests only.
THEOREM InstanceTellsHolds == ASSUME Alone PROVE Spec => []InstanceTells
<1>1. SerialInv => InstanceTells
  <2> SUFFICES ASSUME SerialInv PROVE InstanceTells
    OBVIOUS
  <2>1. Place(db) /\ Rows(db) /\ Consistent(db)
    BY DEF SerialInv, IndInv
  <2>2. RunningHasOpenTask
    BY <2>1 DEF RunningHasOpenTask, Place, Waiting, OpenAt
  <2>3. OpenTasksAreCurrent
    BY <2>1 DEF OpenTasksAreCurrent, Place
  <2>4. NoDecisionAfterReject
    BY <2>1 DEF NoDecisionAfterReject, Rows, RejectedLast
  <2>5. NativeOnlyIfApproved
    <3>1. db.inst.status = "Completed" => StatusKey(db.inst, db.task) = "approved"
      BY DEF StatusKey
    <3> QED
      BY <2>1, <3>1 DEF NativeOnlyIfApproved, Place, Consistent
  <2> QED
    BY <2>2, <2>3, <2>4, <2>5 DEF InstanceTells
<1> QED
  BY <1>1, AloneInvariance, PTL

\* The same: of a visit that all its assignees complete, exactly one makes the
\* output, also where drafts and the deadline job save its tasks.
THEOREM LastAssigneeMakesOutputHolds == ASSUME Alone PROVE Spec => []LastAssigneeMakesOutput
<1>1. SerialInv => LastAssigneeMakesOutput
  <2> SUFFICES ASSUME SerialInv, NEW n \in Visits,
                      NEW ks, ks = {k \in TaskIds : k[1] = n /\ db.task[k].status # "None"},
                      ks # {},
                      \A k \in ks : Config[db.task[k].stage].output /\ db.task[k].action = "Complete"
               PROVE  Cardinality({k \in ks : db.task[k].output}) = 1
    BY DEF LastAssigneeMakesOutput
  <2>1. Rows(db)
    BY DEF SerialInv
  <2>2. PICK x \in ks : TRUE
    OBVIOUS
  <2>3. AllComplete(db, x[1])
    BY <2>2 DEF AllComplete
  <2>4. PICK y \in TaskIds : y[1] = x[1] /\ db.task[y].output
    BY <2>1, <2>2, <2>3 DEF Rows, OutputMade
  <2>5. y \in ks
    BY <2>1, <2>2, <2>4 DEF Rows, Dated, Decided, OutputMade, OutputEnds
  <2>6. {k \in ks : db.task[k].output} = {y}
    BY <2>1, <2>4, <2>5 DEF Rows, OutputEnds
  <2> QED
    BY <2>6, FS_Singleton
<1> QED
  BY <1>1, AloneInvariance, PTL

\* The same: the instance moves on by decisions on what it waits at, its outcome
\* is final, and its requester edits nothing that has been decided on.
THEOREM HistoryIsKept == ASSUME Alone PROVE Spec => HistoryHolds
<1> DEFINE A == db'.req.edits # db.req.edits => db.req.key = "returned" \/ ~HasActed(db.task)
           B == db'.inst.visit # db.inst.visit =>
                  \E k \in TaskIds : /\ k[1] = db.inst.visit
                                     /\ ~Decided(db.task[k]) /\ Decided(db'.task[k])
           C == db.inst.status # "Running" => db'.inst = db.inst /\ db'.req.key = db.req.key
<1>1. SerialInv /\ [Next]_vars => [A]_vars /\ [B]_vars /\ [C]_vars
  BY NextAlone DEF Advances
<1>2. Spec => [][A]_vars
  BY <1>1, AloneInvariance, PTL DEF Spec
<1>3. Spec => [][B]_vars
  BY <1>1, AloneInvariance, PTL DEF Spec
<1>4. Spec => [][C]_vars
  BY <1>1, AloneInvariance, PTL DEF Spec
<1> QED
  BY <1>2, <1>3, <1>4 DEF HistoryHolds, EditedBeforeActed, MovesFromCurrentVisit, OutcomeFinal

=============================================================================
