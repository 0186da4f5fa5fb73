-------------------------- MODULE AutomaticActions --------------------------
(***************************************************************************)
(* Durable automatic actions of one workflow instance: the execution       *)
(* receipts (ASOUD Action Execution), the background job of each, the      *)
(* dispatcher that runs every minute, workers that fail or are killed, and *)
(* the requester who withdraws the request meanwhile                       *)
(* (services/automatic_action_runtime; _activate_stage and _system_route   *)
(* of api/v1/workflow_runtime).                                            *)
(*                                                                         *)
(* run() is up to three transactions: one claims the receipt and commits   *)
(* the attempt, one performs the action and advances the instance, and     *)
(* after an exception one records the failure.  Each takes the row locks   *)
(* of the receipt and the instance first, so each is one step; the worker  *)
(* may be killed between any two.                                          *)
(***************************************************************************)
EXTENDS Naturals, FiniteSets

CONSTANTS
  Stages,       \* stages of the definition
  Kind,         \* kind of each stage
  Success,      \* routes of a stage: the targets of its Success or only route,
                \* of both results of a condition, of every decision of a person
  Error,        \* the target of the Error route, as a set of at most one
  First,        \* the stage after Start
  Workers,      \* background workers
  ExtraAttempts,\* execution.extra_attempts of every action
  MaxVisits,    \* bound: decisions people take
  MaxFaults,    \* bound: killed workers and lost jobs
  Overrun       \* whether a worker may outlive timeout_seconds + 60

\* "Queued" is a System Action of schema 2, "Inline" one without a version.
Kinds == {"Person", "Queued", "Inline", "Condition", "End"}

ASSUME GraphTypes ==
  /\ First \in Stages
  /\ Kind \in [Stages -> Kinds]
  /\ Success \in [Stages -> SUBSET Stages]
  /\ Error \in [Stages -> SUBSET Stages]
  /\ \A s \in Stages : Kind[s] \in {"Queued", "Inline"} => Cardinality(Success[s]) = 1
  /\ \A s \in Stages : Kind[s] = "Queued" => \A x \in Error[s] : Kind[x] = "Person"

ASSUME BoundTypes ==
  ExtraAttempts \in Nat /\ MaxVisits \in Nat /\ MaxFaults \in Nat /\ Overrun \in BOOLEAN

VARIABLES
  db,      \* committed rows: the instance, the receipts and what they did
  jobs,    \* receipts with a job waiting in the queue
  worker,  \* the job each worker runs, and how far it is
  faults   \* killed workers and lost jobs so far

vars == <<db, jobs, worker, faults>>

-----------------------------------------------------------------------------
(* Rows.                                                                   *)

\* A receipt is named by its stage and its trigger: the task whose decision
\* led there (they are counted), or 0 for "start".
Triggers == 0..MaxVisits

Receipts == {s \in Stages : Kind[s] = "Queued"} \X Triggers

Active == {"Pending", "Running", "Retry Pending"}

Terminal == {"Succeeded", "Failed", "Cancelled"}

\* due: next_attempt has come.  effects: how often they were committed.
Receipt == [status : {"None"} \cup Active \cup Terminal, attempts : Nat,
            due : BOOLEAN, effects : Nat]

Instance == [status : {"Running", "Completed", "Failed", "Cancelled"},
             stage : Stages, visit : Nat]

NoReceipt == [status |-> "None", attempts |-> 0, due |-> FALSE, effects |-> 0]

Waits(d, id) == d.inst.status = "Running" /\ d.inst.stage = id[1]

-----------------------------------------------------------------------------
(* _activate_stage.                                                        *)

PassOn(s) ==
  CASE Kind[s] = "Condition" -> Success[s]
    [] Kind[s] = "Inline" -> Success[s] \cup Error[s]
    [] OTHER -> {}

\* Every stage one call may reach, and whether an inline action was passed on
\* the way: within[n] follows n stages.
Reached ==
  LET steps == 2 * Cardinality(Stages)
      within[n \in 0..steps] ==
        IF n = 0 THEN [s \in Stages |-> {<<s, FALSE>>}]
        ELSE [s \in Stages |-> within[n - 1][s] \cup
                UNION {{<<x, q[2] \/ Kind[q[1]] = "Inline">> : x \in PassOn(q[1])}
                         : q \in within[n - 1][s]}]
  IN [s \in Stages |-> within[steps][s] \cap (Stages \X BOOLEAN)]

\* schedule: a receipt still active is left alone, one that has ended refuses
\* the activation; without a service user the new one fails at once.
Schedule(d, s, t) ==
  IF d.rec[<<s, t>>].status \in Active THEN {d}
  ELSE IF d.rec[<<s, t>>].status \in Terminal THEN {}
  ELSE LET made == [NoReceipt EXCEPT !.status = "Pending", !.due = TRUE]
       IN {[d EXCEPT !.inst.stage = s, !.rec[<<s, t>>] = made],
           [d EXCEPT !.inst.stage = s, !.rec[<<s, t>>] = [made EXCEPT !.status = "Failed"],
                     !.inst.status = "Failed"]}

\* The trigger t reaches a queued stage, unless it is not the task itself that
\* is passed on (byTask) and an inline action on the way has dropped it.
TriggerAt(p, t, byTask) == IF p[2] /\ ~byTask THEN 0 ELSE t

\* _activate_stage(s) for every way through the conditions and the inline
\* actions, all of which are possible.
Activate(d, s, t, byTask) ==
  UNION {LET x == p[1] IN
         CASE Kind[x] = "Person" -> {[d EXCEPT !.inst.stage = x]}
           [] Kind[x] = "End" -> {[d EXCEPT !.inst.stage = x, !.inst.status = "Completed"]}
           [] Kind[x] = "Queued" -> Schedule(d, x, TriggerAt(p, t, byTask))
           [] Kind[x] = "Inline" /\ Error[x] = {} ->
                {[d EXCEPT !.inst.stage = x, !.inst.status = "Failed"]}
           [] OTHER -> {}
         : p \in Reached[s]}

-----------------------------------------------------------------------------
(* run, from the second transaction on.                                    *)

\* What a successful action commits: its effects, the result and the advance.
\* "Completed With Errors", a loop some of whose items failed, is a success.
Advance(d, id) ==
  UNION {Activate([d EXCEPT !.rec[id].status = "Succeeded", !.rec[id].effects = @ + 1],
                  s, id[2], FALSE) : s \in Success[id[1]]}

\* _final_failure: the Error route, or a Failed instance when there is none or
\* its activation throws.
FinalFailure(d, id) ==
  {[d EXCEPT !.inst.status = "Failed"]} \cup UNION {Activate(d, s, id[2], FALSE) : s \in Error[id[1]]}

\* Mutation of MayRetry: attempts are compared one too late.
MayRetryOnceMore(attempts, transient) == transient /\ attempts <= ExtraAttempts + 1

\* retry_delay.
MayRetry(attempts, transient) == transient /\ attempts <= ExtraAttempts

\* Mutation of Retrying: a status the DocType does not know.
RetryingMisspelt(d, id) ==
  [d EXCEPT !.rec[id].status = "Retry", !.rec[id].due = FALSE]

Retrying(d, id) ==
  [d EXCEPT !.rec[id].status = "Retry Pending", !.rec[id].due = FALSE]

Failing(d, id) == [d EXCEPT !.rec[id].status = "Failed"]

\* The failure of run: the instance is locked but not looked at again.
RecordFailure(d, id, transient) ==
  IF MayRetry(d.rec[id].attempts, transient) THEN {Retrying(d, id)}
  ELSE FinalFailure(Failing(d, id), id)

\* Mutation of RecordInterrupted: the instance is forgotten.
RecordReceiptOnly(d, id) ==
  IF MayRetry(d.rec[id].attempts, TRUE) THEN {Retrying(d, id)} ELSE {Failing(d, id)}

\* The failure the dispatcher records for a worker that was interrupted.
RecordInterrupted(d, id) ==
  IF MayRetry(d.rec[id].attempts, TRUE) THEN {Retrying(d, id)}
  ELSE IF Waits(d, id) THEN FinalFailure(Failing(d, id), id) ELSE {Failing(d, id)}

-----------------------------------------------------------------------------
(* Workers.                                                                *)

Idle == [pc |-> "idle"]

Job == [pc : {"claimed", "raised"}, id : Receipts, transient : BOOLEAN]

Runs(w, id) == worker[w].pc # "idle" /\ worker[w].id = id

Release(w) == worker' = [worker EXCEPT ![w] = Idle]

Claimable(r) == r.status \in {"Pending", "Retry Pending"} /\ r.due

\* The first transaction: persist the attempt, or leave at once.
Take(w, id) ==
  /\ worker[w] = Idle
  /\ id \in jobs
  /\ jobs' = jobs \ {id}
  /\ IF Claimable(db.rec[id])
     THEN /\ db' = [db EXCEPT !.rec[id].attempts = @ + 1, !.rec[id].status = "Running"]
          /\ worker' = [worker EXCEPT ![w] = [pc |-> "claimed", id |-> id, transient |-> FALSE]]
     ELSE UNCHANGED <<db, worker>>
  /\ UNCHANGED faults

\* Mutation of StillRunning: the status is not read again after the commit.
NotReadAgain(d, id) == d.rec[id].status # "None"

\* The receipt as it is after taking its lock again.
StillRunning(d, id) == d.rec[id].status = "Running"

\* The second transaction, when the action succeeds or has become pointless.
Work(w) ==
  /\ worker[w].pc = "claimed"
  /\ LET id == worker[w].id IN
     IF ~StillRunning(db, id) THEN db' = db
     ELSE IF ~Waits(db, id) THEN db' = [db EXCEPT !.rec[id].status = "Cancelled"]
     ELSE db' \in Advance(db, id)
  /\ Release(w)
  /\ UNCHANGED <<jobs, faults>>

\* The second transaction, when it raises: everything is rolled back, the
\* locks are gone.
Raise(w, transient) ==
  /\ worker[w].pc = "claimed"
  /\ StillRunning(db, worker[w].id)
  /\ Waits(db, worker[w].id)
  /\ worker' = [worker EXCEPT ![w].pc = "raised", ![w].transient = transient]
  /\ UNCHANGED <<db, jobs, faults>>

\* The third transaction.
Recover(w) ==
  /\ worker[w].pc = "raised"
  /\ LET id == worker[w].id IN
     IF ~StillRunning(db, id) THEN db' = db
     ELSE db' \in RecordFailure(db, id, worker[w].transient)
  /\ Release(w)
  /\ UNCHANGED <<jobs, faults>>

\* The process is killed between two transactions, or inside one.
Kill(w) ==
  /\ worker[w] # Idle
  /\ faults < MaxFaults
  /\ faults' = faults + 1
  /\ Release(w)
  /\ UNCHANGED <<db, jobs>>

-----------------------------------------------------------------------------
(* The queue, the clock and the dispatcher.                                *)

LoseJob(id) ==
  /\ id \in jobs
  /\ faults < MaxFaults
  /\ faults' = faults + 1
  /\ jobs' = jobs \ {id}
  /\ UNCHANGED <<db, worker>>

\* next_attempt comes.
Elapse(id) ==
  /\ db.rec[id].status = "Retry Pending"
  /\ ~db.rec[id].due
  /\ db' = [db EXCEPT !.rec[id].due = TRUE]
  /\ UNCHANGED <<jobs, worker, faults>>

\* No worker holds the job any more as far as the queue knows: it ended, or it
\* has been given up timeout_seconds + 60 after its start.
GivenUp(id) == Overrun \/ \A w \in Workers : ~Runs(w, id)

\* started_on is more than timeout_seconds + 60 ago.
Interrupted(id) == db.rec[id].status = "Running" /\ GivenUp(id)

\* First half of dispatch.
RecoverInterrupted(id) ==
  /\ Interrupted(id)
  /\ db' \in RecordInterrupted(db, id)
  /\ UNCHANGED <<jobs, worker, faults>>

\* Mutation of Enqueueable: only receipts that were never tried.
OnlyPending(r) == r.status = "Pending" /\ r.due

Enqueueable(r) == r.status \in {"Pending", "Retry Pending"} /\ r.due

\* Second half: deduplicate=True skips a job that is queued or started.
Enqueue(id) ==
  /\ Enqueueable(db.rec[id])
  /\ id \notin jobs
  /\ GivenUp(id)
  /\ jobs' = jobs \cup {id}
  /\ UNCHANGED <<db, worker, faults>>

-----------------------------------------------------------------------------
(* People.                                                                 *)

\* complete_workflow_task: the task decided on is the new trigger.
Decide ==
  /\ db.inst.status = "Running"
  /\ Kind[db.inst.stage] = "Person"
  /\ db.inst.visit < MaxVisits
  /\ LET d == [db EXCEPT !.inst.visit = @ + 1] IN
     \E s \in Success[db.inst.stage] : db' \in Activate(d, s, d.inst.visit, TRUE)
  /\ UNCHANGED <<jobs, worker, faults>>

\* cancel_request does not touch the receipts.
Cancel ==
  /\ db.inst.status = "Running"
  /\ db' = [db EXCEPT !.inst.status = "Cancelled"]
  /\ UNCHANGED <<jobs, worker, faults>>

-----------------------------------------------------------------------------

Blank == [inst |-> [status |-> "Running", stage |-> First, visit |-> 0],
          rec  |-> [id \in Receipts |-> NoReceipt]]

Init ==
  /\ db \in Activate(Blank, First, 0, FALSE)
  /\ jobs = {}
  /\ worker = [w \in Workers |-> Idle]
  /\ faults = 0

Perform(w) == Work(w) \/ (\E transient \in BOOLEAN : Raise(w, transient)) \/ Recover(w)

Next ==
  \/ \E w \in Workers : Perform(w) \/ Kill(w) \/ \E id \in Receipts : Take(w, id)
  \/ \E id \in Receipts : \/ LoseJob(id) \/ Elapse(id)
                          \/ RecoverInterrupted(id) \/ Enqueue(id)
  \/ Decide \/ Cancel

Spec == Init /\ [][Next]_vars

\* The scheduler keeps dispatching, time passes, a queued job is taken by some
\* worker, and a job ends (it has a timeout).  Nobody owes a decision.
Fairness ==
  /\ \A id \in Receipts : /\ WF_vars(Elapse(id))
                          /\ WF_vars(RecoverInterrupted(id))
                          /\ WF_vars(Enqueue(id))
                          /\ WF_vars(\E w \in Workers : Take(w, id))
  /\ \A w \in Workers : WF_vars(Perform(w))

FairSpec == Spec /\ Fairness

-----------------------------------------------------------------------------
(* Properties.                                                             *)

TypeOK ==
  /\ db \in [inst : Instance, rec : [Receipts -> Receipt]]
  /\ jobs \subseteq Receipts
  /\ worker \in [Workers -> {Idle} \cup Job]
  /\ faults \in 0..MaxFaults

\* The effects of an action are committed exactly when its receipt succeeds,
\* and never twice: not by a second worker, a retry, or a worker that the
\* dispatcher had already given up.
EffectsExactlyOnce ==
  \A id \in Receipts :
    db.rec[id].effects = IF db.rec[id].status = "Succeeded" THEN 1 ELSE 0

\* A receipt that has ended keeps its result, whatever late worker comes back.
ResultsStand ==
  [][\A id \in Receipts : db.rec[id].status \in Terminal => db'.rec[id] = db.rec[id]]_vars

\* Kills, recoveries and late workers never add to the budget of attempts.
WithinBudget == \A id \in Receipts : db.rec[id].attempts <= ExtraAttempts + 1

\* While the instance waits at a queued action exactly one active receipt
\* stands for it: otherwise no worker would ever move it on.
WaitsForReceipt ==
  (db.inst.status = "Running" /\ Kind[db.inst.stage] = "Queued") =>
    Cardinality({id \in Receipts : id[1] = db.inst.stage /\ db.rec[id].status \in Active}) = 1

\* Rows keep their shape, and the effects are there once, within the budget of
\* attempts.
EffectsInBudget == TypeOK /\ EffectsExactlyOnce /\ WithinBudget

\* Every receipt ends: it succeeds, fails for good, or is found pointless after
\* the request was withdrawn.
EveryReceiptEnds ==
  \A id \in Receipts : (db.rec[id].status \in Active) ~> (db.rec[id].status \in Terminal)

\* Every receipt ends, with a result that no late worker changes.
ReceiptsEnd == EveryReceiptEnds /\ ResultsStand

\* A withdrawn request stays withdrawn: no worker that comes back moves it.
CancelStands == [][db.inst.status = "Cancelled" => db'.inst = db.inst]_vars
=============================================================================
