# TLA+ models of the ASOUD ERP backend

This directory models what `src/asoud_erp` decides: what happens to a request from the form it is
submitted with to the ERPNext document it leaves behind, the papers of the personnel office, directives, vouchers and
sales, the calendar, and the administration of a site. TLC checks the models on small instances; TLAPS proves the most
important properties for every value of the constants.

`tlc -workers 2 -config <run>.cfg <module>` repeats a run, `tlapm <module>.tla` a proof.
`PROJECT.json` lists the components, the runs, the source lines of every definition, the mutations that break
each property, the hazards, the disagreements found and the theorems.

## 1. The system

The repository is a Frappe application on top of ERPNext and HRMS. Web requests and background
jobs are Python processes that share one MariaDB database and Redis (queues, caches, tokens); there is no other
shared state. A call is one database transaction, committed when it returns and rolled back when it raises.

| Component | State | Operations | Interacts through |
|---|---|---|---|
| Workflow definition (`services/workflow_stage_policy`, `workflow_contract`, `workflow_condition`) | stages, routes, `config_json`, fixed once Active | routing, assignees, conditions | read by the engine |
| Workflow engine (`api/v1/workflow_runtime`) | instance (status, stage), tasks, activities | draft, complete, hourly deadlines | task rows, `on_update` of the instance |
| Workflow requests (`api/v1/workflow_request`, `services/request_status`, `request_templates/lifecycle`) | values, `status_key`, `native_*` | create, edit, cancel, retry, void, reissue | locks the request, drives the engine |
| User actions (`services/workflow_user_action`, `_policy`) | a task offered to a set of people | claim, pass on, complete, remind, escalate | instance and task rows |
| Automatic actions (`services/automatic_action_runtime`, `_policy`) | receipts (attempts, status, next attempt) | schedule, run, dispatch every minute | Redis jobs, the instance |
| Native documents (`services/request_native_documents`, `form_execution/*`, `request_void*`) | ERPNext documents, `native_status` | dispatch, retry, void, reissue | `on_update` hook; savepoints |
| Receipt of equipment (`services/request_followup*`) | the receipt task of an Asset Movement | confirm, reject, cancel with the movement | task rows, hooks of Asset Movement |
| Forms (`api/v1/forms`, `services/form_schema`) | forms, revisions, entries | draft, publish, submit; evaluation of values | bound definitions |
| Start and routing (`services/workflow_submission_source`, `workflow_start_*`, `workflow_lifecycle`) | binding of a definition to a form revision | bind, activate, start, restart | form lock, instances |
| Designer (`api/v1/workflow`, `services/workflow_step_validation`, `workflow_response`) | stages, routes, stage forms | edit, activate, summarise, normalise responses | the definition |
| HR documents (`api/v1/hiring_orders`, `salary_change_orders`, `employment_*`, `personnel_introduction_letters`) | entries of five kinds, templates, numbers | draft, send, review, issue, apply to payroll | instances, `on_update` hook |
| Leave (`services/leave_*`, `request_templates/leave_rules`) | requests, Leave Applications, ledger | request, edit, approve, self service | native documents |
| Directives (`api/v1/directives`) | communication, recipients, tasks, receipts | issue, accept, report, review, pass on, remind | tasks of the engine's store |
| Calendar (`api/v1/calendar`) | scopes with Events, mutations | edit from devices, import holidays, remind | Event rows, a job |
| Writes and their queue (`api/v1/sync`, `voucher`, `hr`, `pos`, `selling`, `buying`, ...) | API requests with their answer; ERPNext documents | save, approve, reverse, open and close a till, make one document from another | links between documents |
| Roles and administrators (`api/v1/role_management`, `user_access`, `services/role_assignment*`, `system_admin`) | definitions, assignments, `User.roles` | define, assign, withdraw | the save of a user |
| Personnel and logins (`api/v1/personnel`, `party`, `auth`, `services/personnel_*`, `hr_onboarding`) | profile, Employee, User, records | register, invite, withdraw, edit | hooks of Employee |
| Organization (`api/v1/organization`, `services/organization_*`) | Departments, the chart | edit, import, move, guards | text in columns |
| First office (`api/v1/onboarding`, `setup`, `services/first_office_setup`) | company, its setup, the lead's account | create, save sections, complete | a lock, two commits |
| Setup reset (`services/setup_reset`) | preview tokens, receipts, barrier | preview, start, run, status | Redis and the database |
| Demo data (`demo/seed`, `demo/markers`) | all records of a demo company | seed, reset | DDL commits, links |

What makes each of them correct:

* **Engine.** A running instance always has somebody who can act on it, at the stage and visit it
  waits at. Decisions stand, are taken by the assignee, and only once. What has ended, or has been
  left, can no longer be decided on. The mirrored key says what the instance says. An output is
  made once, by the last assignee.
* **User actions.** An action is done once, by who has it.
* **Automatic actions.** The effects of an action are committed exactly once, whatever is killed or
  late; attempts stay within the budget; every receipt ends; the instance never waits without a receipt.
* **Native documents.** Each approval, and each reissue, makes at most one document; a document that
  counts is named by its request or voided on record; a void leaves nothing in force; an approved
  request always shows a result somebody can act on.
* **Receipt.** An open task means a movement that can still be received; an answer stands.
* **Forms and routing.** Revisions are numbered in order; what runs is bound to what was submitted; an entry and
  its instance appear together and once. Evaluation settles, and a client decides nothing it does not own.
* **Designer and stage forms.** What is activated runs; what was accepted is accepted again.
* **HR documents.** A paper is issued at most once, under a number of its own, as its review decided, and reaches payroll once from one day.
* **Leave.** Neither booked twice nor beyond the balance.
* **Directives.** The open duties tell the state; nothing a call or the job asks for is done twice.
* **Calendar.** No edit is lost or applied twice; of the range of an import only its days are official.
* **Writes.** A write is executed once per key; papers stand as approved.
* **Administration.** The last administrator stays; users hold what is assigned; a reset deletes what was shown and says what it did; seeds and resets
  are complete wherever they are killed; edits replace what their client saw; the chart stands on units that are there; an office is set up once.

### Behaviours that are hard

*Concurrency under REPEATABLE READ.* Frappe v15 on MariaDB runs each call in a REPEATABLE READ
transaction. A plain `SELECT` reads the snapshot fixed at the first read of the call, plus the call's
own writes; `SELECT ... FOR UPDATE`, `UPDATE` and the stamp check of `doc.save` (`check_if_latest`)
read the last committed row and hold it until the commit. So taking a lock does *not* refresh what
plain reads show. Most of the hazards come from a plain read after a lock. The repository
knows the pattern: `services/detail_code_service.py:31-33` explains it in a comment.

*Bulk updates without a stamp* (`db.set_value(..., update_modified=False)`) do not make a later
`doc.save` of a stale row fail.

*Crashes and lost jobs* (automatic actions, setup reset, demo data, first office), *retries and repeated keys*
(native documents, HR documents, directives, the mutation queue), *offline clients* (calendar), *deadlines*
racing with decisions, *hooks* that act on other people's rows, and long sequences of returns and visits.

## 2. How transactions are modelled

A call is two steps:

* **Begin** takes the snapshot (`txn[w].snap`, `.v` or `seen`) and makes the checks that only read it;
* **Finish** does everything else, against the committed rows and the snapshot, and commits.

Between the two, any other call may commit. `Abort` (or `GiveUp`) stands for every refusal, error, deadlock victim
and lost connection: it leaves no trace. Merging all writes of a call into one step is exact, not a
simplification: writes are locked until the commit, so nobody sees part of them, and what a locking
read returns is the state at the commit because nobody can change a row once it is held. A call that
has to wait for a lock is a call whose `Finish` comes later.

In the operators, `v` or `r` is what the call sees (its snapshot, with its own writes in it) and `c` the
committed rows with those writes. `v.x` in a definition is a plain read in the code, `c.x` a locking
read or an update; this is the one thing to compare when reading a definition beside its lines. An
operator returns the *set* of rows the call may commit, empty when the code throws.

Assumed: MariaDB with REPEATABLE READ as Frappe sets it, without `innodb_snapshot_isolation` (which
would turn stale locking reads into errors), and a snapshot that may be older than the first lock of
the call. It may: authentication, session and guard hooks (`session_guard` reads `must_change_password`,
`services/account_state.py:33-43`) read before the endpoint runs.

`AutomaticActions` needs no snapshots: `run` and `dispatch` take the row locks of the receipt and the
instance first and decide by those rows, each in a transaction that has just begun. There each
transaction is one step, and a worker may be killed between any two of them. `DemoSeed`, `SetupReset` and `Office` have
commits inside a command, and their steps end at those. `FormValues`, `Leave`, `Designer` and `StageForm`
are about one call at a time.

## 3. Modules

| Module | Models | Source |
|---|---|---|
| `WorkflowDefinition` | a published graph: `NextStage`, `SystemRoute`, `Landings` of `_activate_stage`, `Assignees`, `MayDecide` | `workflow_runtime.py`, `workflow_contract.py`, `workflow_stage_policy.py` |
| `WorkflowEngine` | one instance: `Decide`, `SaveDraft`, `Deadlines`, `CancelRequest`, `UpdateRequest`, `Created`, and the hook in `SaveInstance` | `workflow_runtime.py` 346-1538, `workflow_request.py`, `lifecycle.py` |
| `UserAction` | the task that is offered, claimed, passed on, escalated | `workflow_user_action.py`, `_policy.py` |
| `AutomaticActions` | receipts, jobs, workers, dispatcher, with fairness | `automatic_action_runtime.py` 386-587 |
| `NativeDocument` | `Dispatch`, `Retry`, `Void`, `Reissue`, `Confirm`, `Reject`, and the desk | `request_native_documents.py`, `request_void*.py`, `request_followup_runtime.py`, `form_execution/` |
| `FormRouting` | forms, revisions, bindings, entries, starts and restarts | `forms.py`, `workflow.py`, `workflow_submission_source.py`, `workflow_start_*.py` |
| `FormValues` | published schemas and what a submission stores | `form_schema.py` |
| `Designer` | edits of the graph, the summary, the activation | `workflow.py`, `workflow_contract.py` |
| `StageForm` | the form of a stage, normalised, activated, filled in, sent again | `workflow_stage_policy.py`, `workflow_response.py`, `workflow_step_validation.py` |
| `HrDocument`, `OfficialRegister` | the five kinds of papers, and what an office promises of them | `hiring_orders.py`, `salary_change_orders.py`, `employment_*.py`, `personnel_introduction_letters.py` |
| `Leave` | leave by day, by hour, by a custom form, in self service | `leave_hours.py`, `leave_balance.py`, `leave_rules.py`, `hr_self_service.py` |
| `Directive` | issuer, executors, scheduler and keys | `directives.py` |
| `Trade` | vouchers, work reports, a till, chains of documents, through the queue | `sync.py`, `voucher.py`, `hr.py`, `pos.py`, `selling.py`, `buying.py`, `erp_documents.py` |
| `Calendar` | devices that may be offline, the job, official days | `calendar.py` |
| `Roles` | definitions, assignments, applied roles, the last administrator | `role_management.py`, `role_assignment*.py`, `user_access.py`, `system_admin.py` |
| `Personnel` | profile, Employee, login and a record of a person | `personnel.py`, `party.py`, `auth.py`, `hr_onboarding.py` |
| `Organization` | units and the chart | `organization.py`, `organization_*.py` |
| `Office` | first and further offices, set-up, the lead | `onboarding.py`, `setup.py`, `first_office_setup.py` |
| `SetupReset` | preview, confirmation, receipt, queue, barrier, worker, status | `setup_reset.py` |
| `DemoSeed` | the order of the seed and of the reset, killed anywhere, and the commits inside | `demo/seed.py`, `demo/markers.py`, `request_templates/seed.py` |
| `*Proofs` | proofs, section 7 | |
| `MC*` | graphs and model values for TLC; compositions of components | |

How they compose. `WorkflowEngine` extends `WorkflowDefinition`. `AutomaticActions` looks at the same `_activate_stage`
from the side of the queued stages and keeps of a definition only the kinds and the targets of its
stages. `UserAction` is what a stage of the kind User Action does between its activation and the decision that moves the instance.
`NativeDocument` starts where `WorkflowEngine` sets the instance to Completed: `Approve` is
the decision whose save runs the hook. `FormRouting` ends where `WorkflowEngine` begins, with an instance at its first stage.
`Designer` decides which graphs `WorkflowDefinition` may be given. `HrDocument` implements `OfficialRegister`: the refinement mapping
keeps of a document its stage, its number and the number the series has reached.
Components that share no rows are checked side by side in one run: the `MC` module instantiates each, and a behaviour is about
one (`component`). This is exact, since none of them reads or writes what another has.

State and code:

* `db.inst`, `db.task`, `db.req` are the DocTypes ASOUD Workflow Instance, Task and Request. `ver` is the
  `modified` stamp. `visit` counts the activations of stages; a task is named by the visit and the
  first assignee. `at` orders completions as `completed_on` does.
* `db.rec` are the rows of ASOUD Action Execution, `jobs` the Redis queue, `worker` the processes.
* `db.doc` of `NativeDocument` are the ERPNext documents (`docstatus`), `db.req[r].native`/`.doc` are `native_status` and
  `native_name`, `db.log` is what the Voided and Reissued activities tell, `db.task` the receipt tasks.
* `db.form`, `db.def`, `db.entry`, `db.inst` of `FormRouting` are ASOUD Form with its Revisions, Workflow Definition, Form Entry and Instance.
* `db.doc` of `HrDocument` are the Form Entries of the kind, `db.form` its template, `db.assigned` the Salary Structure Assignments
  by the day they start, `today` is `nowdate()`, and `date` the `effective_date`, 0 when the order names none.
* `doc`, `tasks`, `receipts` of `Directive` are ASOUD Internal Communication with its recipients, the tasks of its instance and ASOUD Directive Receipt.
* `requests` of `Trade` is ASOUD API Request, `docs` the ERPNext documents of the subject; `ran` counts executions and `answers` collects what clients were told: both are history.
* `holidays` of `Calendar` are the rows of the kind Official; `asked` (what the import that covered a day last had) and `missed` (what another import
  entered in the meantime) are history. An import in `handled` keeps its range, its days, the rows of the range its snapshot shows and those written since.
* `receiptOf`, `busy`, `accepted`, `previews`, `latest` of `SetupReset` are keys of Redis, `durable` the rows of ASOUD Security Audit, `queue` what RQ says of a job, `confirming`, `run` and
  `asking` the places in `perform`, `run` and `status`, `writing` the transactions between their `_guard_commit` and their commit. `told` and `overtaken` are history.
* The other modules name their variables for the DocTypes in a comment at the declaration.

Abstractions of the engine: form values, conditions, notifications, activities nobody reads back, permissions and
attachments are left out; a condition may go either way, an inline action may succeed or fail, an
executor may fail at any time. `update_request` also rewrites the response of an already completed form
task, which moves the stamp of a task no call can save any more. The status "Completed With Errors"
of a receipt is a success. A form without an execution leaves `native_status` empty and is not in
`NativeDocument`; nor are the exit, training, certificate and overtime executors. Employees and days
are abstracted to the case that matters: the requests of one kind in `NativeDocument` are of one employee
and ask for the same thing, those of different kinds have nothing in common. What each other component leaves out is in section 8.

## 4. Runs

Every run sets `CHECK_DEADLOCK FALSE` because all of these systems may come to rest: an ended
instance with the bounds used up, no request left to act on, or nothing more a client asks for.

| Run | Instance | Shows |
|---|---|---|
| `engine_serial` | unanimous board with an issue stage, 1 worker, 4 visits, 1 edit, 2 saves | without overlap: never stuck, nothing decided after the end, exactly one output, history and outcomes hold |
| `engine_concurrent` | the same board, 2 workers, 3 visits, 2 saves | what survives overlap: decisions stand, owners decide, the key is the outcome, at most one output |
| `actions` | two queued actions with a condition, an inline action and an Error route, 2 workers, 2 faults, workers may outlive their timeout | effects exactly once, the budget, results stand, never waiting without a receipt, every receipt ends |
| `native_receipt` | one delivery, 2 workers, 2 documents, the desk; four requests of several kinds served in turn; a user action with a boss and two users | no document without an owner, rows tell the truth, one document per issue, a void is effective, no double booking, an action is done once |
| `hr` | two documents of each of the five kinds, 2 workers, 2 days; salary and hiring orders served in turn | the review decides, payroll is reached once from one day, one document per key, the register is kept |
| `routing` | one form of two contents, two definitions, 2 workers; work on the form, submissions and changes of status overlap | what runs is bound to what was submitted, starts once, entry and instance appear together |
| `office` | vouchers, a report, a till and a chain of documents through the queue; a calendar on two devices; the demo data; a chart; two offices | nothing twice, papers stand, no edit lost, seeds and resets complete and clean, the chart stands, an office is set up once |
| `admin` | a directive with two executors; roles and assignments; a reset; logins; a personnel file | duties tell the state and nothing is done twice; the last administrator stays, a reset deletes what was shown and is told truly, edits replace what their client saw |
| `rules` | 3 fields with formulas, rules, fetches and filters; two days of leave; all graphs of up to 4 stages and 3 routes; stage forms of 3 fields | evaluation settles, leave is kept, what is activated runs, what is accepted stands |

Bounds. `MaxVisits` bounds the activations of an instance; 3 lets the board be visited, returned from
and reached again or passed to the issue stage, 4 lets it be returned twice. `MaxEdits`
and `MaxSaves` bound what could be repeated without an effect on anything else. Two workers are enough
for the hazards listed: each is a pair of calls, one with an old snapshot; a third call may commit in
between because the second worker is free again. `MaxDocs` of `NativeDocument` is 2 for one delivery, which allows one
reissue, and 4 for the requests served in turn, of which any one may be reissued while another
waits. `MaxFaults` bounds killed workers and lost jobs; two faults meet every pair of points of `run`, one
of a first and one of a second attempt. In `actions` people decide once (`MaxVisits`), so each
action has a receipt of the start and one of the decision. In `hr` the first document may reach revision 4 and the second, which stays as
it was made, is there for keys and numbers (`MaxRev`); two days (`MaxDay`) let an order be carried to payroll, and retried, on the day it names, before it and after it. In `routing`, two revisions and one entry let a form be published
again while its entry runs; the constraint `Short` leaves a run that has started instances fewer changes of the form (version plus
instances at most 4), and prunes nothing of the calls in between. `MaxTasks` and `MaxVersion` of `Directive` allow a return and a transfer of each duty;
`MaxEdits` of `Calendar` an edit on each device and a conflicting third; two official days give three ranges, which
two processes import one after the other or at once. `MaxWrites`, `MaxPreviews` and `MaxJobs` of `SetupReset` let one write pass its last look before the barrier, and a reset be confirmed after one that
failed, that was overtaken or that nobody has heard of any more; the theorem has any number of writes. The seed of `DemoSeed` wants one or two records of a group, so that a killed seed leaves some or none. `MaxChanges` of the administrative components counts
committed calls, 3 to 5 of them, in any order and overlap. Nothing in the proofs depends on these bounds being small.
Symmetry sets permute workers, keys and users that are only compared; the runs that use them check no liveness.

Why properties appear in the runs they do: with two workers on an all-of stage, several strong
properties are violated by the code (section 6), so `engine_serial` checks them without overlap. For the
same reason the requests of several kinds are served in turn in `native_receipt` (one worker); there staff do not submit by hand, for
a draft that was voided on record may still be submitted at the desk. `Overlap`, `Serial`, `Overlapping` and `RolesOverlap` name the calls
that meet in the other runs, and section 6 says what goes wrong with those left out.

## 5. Fairness

Only `actions` uses it. The cron entry (`hooks.py:59-65`) calls the dispatcher every minute, so
the recovery of an interrupted receipt, the enqueueing of a due one and the coming of `next_attempt` are
weakly fair; a queued job is taken by some worker; a job that runs ends because the queue gives it a
timeout. No decision of a person is fair, nor any fault. `Overrun = TRUE` lets the dispatcher give up a worker
that is still at work, as happens when it outlives `timeout_seconds + 60`; safety and liveness hold all the
same. Elsewhere liveness would need fairness of people, which nothing in the code justifies; "never stuck" is
stated as a safety property instead: what the system waits for can be done (`InstanceTells`, `TasksTellState`).

## 6. Where code and documents disagree

Three runs expect a violation of one property, which states what a document or comment says:

| Run | The code |
|---|---|
| `engine_all_output` | `workflow_runtime.py:1353` two last assignees each see the other open: no output, and the instance is stuck |
| `admin_race` | `system_admin.py:91` two administrators who take the role from each other each count two, and none is left |
| `leave_day` | `leave_hours.py:116` hours of a returned and edited request are not in the total of the day |

The models show more; each of the following is excluded from a run by a bound, a set of calls that are served alone, or a hypothesis of a theorem.

*Engine and requests*

* `workflow_request.py:718`: a draft or deadline save that read a task before `cancel_request` reopens it, though `docs/workflow-runtime-v1.md:122`
  says that cancelling closes the open tasks. Two drafts in flight at that moment reopen both tasks of an output stage, whose decisions then
  each make the output; `OutputAtMostOnce` therefore speaks of the stages whose tasks only decisions save (`OnlyDecided`).
* `workflow_history.py:16`: the task a return has left looks like a completed one, so a return may go forward to a stage that was itself left by a
  return (`docs/workflow-runtime-v1.md:54-55`).
* `workflow_runtime.py:1387`: a sibling on an all-of stage completes after a rejection that overlapped it. `workflow_request.py:759`: an edit that
  began before the first approval of a board commits after it. `workflow_runtime.py:1431`: the first approval of a board does not save the
  instance, so the request stays `submitted` and not `in_review`, as `request_status.py:57-60` has it.
* `workflow_runtime.py:633`: a queued action behind an inline one is scheduled under the trigger `start` at
  every visit and refused at the second (`Advance` is then empty and the instance fails).
* `automatic_action_runtime.py:516`: between the rollback of a failed action and the record of its failure the request may be cancelled, and the
  failure moves the cancelled instance.

*Native documents*

* `request_void_actions.py:144`: a voided draft movement can still be received (`docs/api/form-execution.md:515`).
* `request_void_actions.py:110`: a void that began before a reissue does not see the new document, and
  records it as voided while it stays in force. `:201`: a reissue that began before the void does not see its blocker.
* `form_execution/attendance_correction.py:82` and `:96`: two overlapping approvals insert the same punch.

*User actions.* A reminder save that loaded a task before `cancel_request` reopens it; the properties speak of running requests. A claimed action whose holder
leaves the unit waits until an overdue reassignment, if one is configured (`workflow_user_action.py:283`), and a claim reads eligibility from a
snapshot older than its lock, while `docs/api/workflow-user-actions.md` says "Former owner loses access immediately". `cancel_request` locks tasks before
the instance and the others the instance first; the deadlock this can make is a `GiveUp`.

*Routing.* A submission that overlaps a binding runs a definition bound to another revision, though `workflow_submission_source.py:26-27` says "Form
submission takes the same form lock, so source changes cannot race it."; two overlapping restarts both start. Un-archiving a definition leaves two workflows bound to
one form (`asoud_workflow_definition.py:30`; `docs/api/workflow-submission-source.md:9`).
These calls are served alone in `routing`, and the theorems about it say so in a hypothesis (`OnlyThoseMeet`).

*Forms.* A fetched field and a rule that needs it form a cycle that passes the publication and fails every submission. What is sent for a fetched field that is hidden is
kept, against `form_schema.py:850` ("never from the client"), at line 337. A rule of a stage form compares raw values, so "5" the text and 5 the number
differ until the response was sent twice. A table that is left out is seeded without a column the handler is required to fill, rows without their read-only columns are refused, and a hidden table
of the request is seeded all the same.

*HR documents.* A hiring order saved while it is sent writes back the draft (`hiring_orders.py:515`). Hiring and salary orders are served in turn in `hr`;
the theorems have `Kinds \cap Unlocked \subseteq Serial` as hypothesis where that matters.
A salary order that names no day takes effect on the day it is applied (`salary_change_orders.py:823`): retried on another day under another `operation_id` it makes a second assignment, though the docstring at `:798` says
"idempotently"; only the same-day check of HRMS stops the others. Where there is no salary structure the order is marked applied and nothing is assigned (`:860`). `ReviewDecides` therefore counts assignments by the day they start.

*Leave.* Overlapping approvals may overspend or book the same days, though `form_execution/period.py:91` says "row-locked so two
approvals of one person serialise": the lock comes after the snapshot. Calls are served one at a time in `Leave`. Self service over an approved hourly leave is not
refused; an open self-service application cannot be withdrawn when the balance has become insufficient.

*Designer.* A main route does not replace the default route as `workflow.py:793-794` says. The graph of an Active definition can be edited until it stops. A Persian and an English label may name the same
decision twice. An End that is inserted keeps an exit. `sequence_no` is not renumbered.

*Directives.* With users who send a second call before the first is answered (`Impatient`), tasks stop telling the state: the snapshot may be older than the lock on the user.
An overlapping repeat of a key is answered with a duplicate-key error, not with the answer (`docs/directives-implementation.md`). Someone who has just left may still be directed.

*Writes.* A sale that overlaps the closing of its session is taken in by no closing (`pos.py:123`; `docs/api/pos.md:4-5`). Two overlapping `create_pos_session` open two
sessions. `review_report` and `close_pos_session` cannot be queued, though `docs/api/README.md:79` lists them. `save_report` accepts any status, though `hr.py:189` reviews what is submitted. A rejected voucher
cannot be edited. `stuck_requests` of the dashboard (`dashboard.py:124-141`) can never count anything. Sales calls are served one at a time.

*Calendar.* `dispatch_reminders` does not look again at the kind of an entry after locking it. An import lists the rows of its range in a snapshot that may be older than its lock on Administrator
(`calendar.py:230-231`): a day another import has just entered stays official, although the range of the later import covers it and its days omit it (`missed`). Imports whose rows meet otherwise are told apart by stamps and names, and the second fails.

*Roles.* Overlapping saves can close a ring of parents, though `role_management.py:26` says "Serialize parent graph edits"; `role_assignment.py` says "The same lock as role management prevents
disable/assign races." and the lock comes after the snapshot. `user_access.apply` ignores the scope, so the base roles of an office reach `User.roles`, although
`role_assignment_service.py:5-7` says "never written to User.roles". Withdrawing a definition drops a base role that was also given by hand.

*Setup reset.* A writer that looked for the barrier before it rose may commit after it, during the deletion or before it, though `setup_reset.py:505-506` says that such a request "must
not commit stale setup writes while deletion is running": the look of `_guard_commit` and the commit are two steps (`writing`, `run.passed`), and what is deleted may be that many writes away from what was shown. If `enqueue` fails after the queue has
the job, `perform` writes "failed" and «هیچ بازنشانی اجرا نشد» (no reset ran, `:455`) over the receipt while a worker that had taken the job may commit at `:482`; `ToldTruly` excepts these jobs (`overtaken`). A request that began before the reset and
outlives it may commit rows of the deleted office. A worker that dies between its commit and its clean-up leaves the barrier for up to 1200 s.

*Personnel.* `find_person` merges people on the mobile number alone. `disable_party` overlapping a registration disables the new employee's login (`party.py:493-505`, against
`personnel_employee.py:146`). `register` writes `job_title` and `department` to the profile only. A replay compares neither content nor person. `delete_employee_access` leaves
`profile.user`. A request id used by two overlapping calls of different kinds commits both.

*Organization.* `lock_company` comes after the first reads, so an overlapping `delete_unit` and `save_chart` leave a position in a deleted unit, and overlapping moves can close a ring
(`organization.py:120-121` reads the status plainly). A leaver who holds a seat blocks every later save. Calls about units and imports are served alone in `office`.

*First office.* Two overlapping `create_first_office` can make two offices, although `onboarding.py:36-37` says "Serialised by a global lock, so concurrent calls create exactly one
office.": ERPNext commits, and releases the lock, in the middle. Creations are served one after another in `office`. A crash between the two commits leaves a company without its set-up. A status
call, or a repeated `create_hr_lead`, that waited may answer `hr_lead: null`, which `docs/api/first-office-bootstrap.md` excludes. An office made through `save_office` leaves `first_office_company` unset.

*Demo data.* The comment at the retry in `_delete_one` (`seed.py:886-909`) is wrong for deadlocks: MariaDB has rolled back all that was deleted before; the links stop the
reset from committing half of it. On a site without the native Workflow, its Custom Field commits the company in the middle of its creation (`request_templates/seed.py:59`), and ERPNext commits once more
around the accounts: a seed killed in between leaves a company whose accounts, and perhaps templates, are missing. A later seed finds the company there (`seed.py:159`) and makes no accounts, so `_expense_account` fails (`:514`) until a reset
has taken the company away; `Reseeding` speaks of seeds that end. Run again in the next month, the seed can fail; it makes all invoices anew if one was cancelled.

The common cure of most of them is a locking read where a plain read follows a lock, and a stamp (or a
status check on the locked row) where a bulk update leaves one out. Some are only hazards in PROJECT.json with a note, because no property of the models can
tell them apart: `request_followup_runtime.py:220`, `workflow_runtime.py:1519`, `workflow_request.py:592`, `form_execution/exit.py:79`.

## 7. Proofs

The theorems hold for every value of the constants: any users, stages, routes, documents, keys, workers and bounds.
They rest on the named `ASSUME`s of the modules, which say what the constants are (a published graph, kinds and their
executors, bounds that are numbers) and which TLC evaluates in the runs, and on the hypotheses below. Each proof has the
same shape: an inductive invariant, one lemma per action, and for the operators of the model a lemma that says what
it changes, so that no step opens more than one definition of the model.

| Module | Proves | Hypothesis |
|---|---|---|
| `WorkflowEngineProofs` | `TypeOK`, `DecidedByOwner`, `OutcomeMirrored`, `DecisionsStand`, `OutputAtMostOnce`; `InstanceTells`, `LastAssigneeMakesOutput`, `HistoryHolds` | none; for the last three, `Alone`: one call at a time |
| `AutomaticActionsProofs` | `EffectsInBudget`, `WaitsForReceipt`, that results stand | none |
| `NativeDocumentProofs` | `TypeOK`, `NothingLeftBehind`, `ReceiptTells`, that answers stand; `ServedInTurn` | none; for `ServedInTurn`, `InTurn`: one call at a time, no deliveries, no submission by hand |
| `HrDocumentProofs` | `TypeOK`, `RegisterKept` (the refinement of `OfficialRegister`), `ReviewDecides`, `CreatedOnce` | `Kinds \cap Unlocked \subseteq Serial` |
| `FormRoutingProofs` | `RunsItsForm`, `StartedOnce`, `Routed` | `OnlyThoseMeet` |
| `TradeCalendarProofs` | `ExecutedOnce`; `PapersStand`; `CalendarKept` | for the first two, `TradeTypes`; for `PapersStand`, tills and chains served alone; for `CalendarKept`, none |
| `SetupResetProofs` | `ResetAsShown` | none |
| `DirectiveProofs` | `OnceEach`; `TasksTellState` | none; for `TasksTellState`, `~Impatient`: a user waits for an answer before the next call |

No hypothesis is there for the prover's sake: each names the calls whose overlap breaks the property in the code, as section 6 says, and the
run that checks the property has it too. `TradeTypes` only describes the constants; `MCOffice` assumes it, so TLC evaluates it.

The arguments:

* *Engine.* A transaction has a snapshot and may hold rows. `IndInv` adds to the types that rows are consistent, and that a row whose stamp is
  the one of the snapshot was at most cancelled in bulk since: this is what an unchanged stamp is worth, since a bulk update does not move it. A
  save compares stamps, so it writes on what it read, and decisions stand.
* *Output.* The stamp of the instance does not suffice, for the first approvals of a board do not save the instance. `OutputInv` adds that
  all tasks of a visit are of one stage, that tasks no draft or deadline call saves never reopen (`Progress` relates every snapshot to the rows), and
  that who makes an output has seen every other task of the visit decided and moves the instance in the same transaction. Two decisions that
  both made the output of a visit would each have seen the other, decided, in a snapshot from before. Stages whose tasks a
  draft call may write back are left out, because there it is false (section 6).
* *The engine alone.* `SerialInv` says that a call in flight has the committed database for its snapshot, and of the database that decisions are dated in
  order, that an output or a rejection ends its visit, and that only what the running instance stands at is open (`Place`). `Left` is what every way out of a visit does: whatever lands
  afterwards, the visit keeps its decisions and no open task. Who decides last therefore sees all the others decided, and an output that is missing would need a visit all completed without anybody being last.
* *Automatic actions.* Workers remember only the receipt they took. `Accounted` ties attempts and effects of a receipt to its status, `Awaited` the
  active receipts to the stage of a running instance: exactly one, of the trigger of this visit. A late worker finds under the lock that its receipt
  is not running its attempt any more. `Reached` is intersected with its type because the closure of a graph is an induction the provers cannot do, while that
  stages reached are stages holds by the intersection.
* *Native documents.* `Good` says what the committed rows satisfy, `Later` what may have changed between a snapshot and now: answers stay, logs grow, a document
  does not come back to a draft. Every call is shown to take good rows to good and later ones, so what it concludes from its snapshot is still so. `Paired` counts:
  a request that waits for a document has one issue more than it has documents, so there is at most one document per issue, and a delivery that is a draft still
  has somebody to answer it. `Kept` adds, for calls served in turn, that whatever a request has voided is out of force, that its current document exists or its
  failure is on record, and that no two live documents book the same; `DocumentsHold` of `native_receipt` is `AnswerStands` and an instance of `ServedInTurn`.
* *HR documents.* Every call moves at most one document, from where it stands to a stage the register allows: each step of the module is a step of the register or none.
  `Current` (a call that keeps the row it read has the committed one) is needed where the code reads unlocked. The second part of `HrDocumentProofs` adds that a document
  and the instance it waits for name each other, so the hook that ends an instance finds its one document, and that what is in payroll is of an order that is final and marked, from its own day if it has one. An order is carried to payroll only from a day of which its snapshot shows no assignment; served in turn,
  the snapshot is what there is (`PayrollCurrent`), so from each day it is carried once.
* *Routing.* A binding is changed only by calls that `OnlyThoseMeet` keeps alone; for the six that may meet (`MayMeet`) every snapshot has the bindings of now, and
  definitions and instances only grow older (`Relies`). A submission checks the form under its lock, so that the revision is the one offered.
* *Writes.* `QueueInv`: a key is unused, or has one execution and exactly its answer, and what a call in flight found under its key is still there, because keys in flight are
  never forgotten and a taken key is refused. For the papers, lemmas per subject say what a call may do to the rows
  (`Approves`, `Closes`, `Cancels`, ...), whatever it saw; `Posted`, `Cashed` and `Chained` are then properties of tables of rows alone. The stamp carries vouchers and reports
  under any overlap. Tills and chains look at rows they do not save, so there `AloneInv` is needed: all calls in flight are one call that
  came again under its key, and until that is answered, what it saw is what there is, but for what the desk has submitted (`AsSeen`).

* *Directives.* `BaseInv`: rows have their shape, tables of tasks only grow, and a key without a receipt has no activity. A lemma per call says which task it ends and which it adds (`Steps`), so that
  what the tasks tell is followed through one kind of step. `OnceEach` needs no more. For `TasksTellState`, `Tell` says per executor what its open tasks, reports and reviews are in each state; the
  difficulty is that a call ends the task its snapshot shows open. `Held` says of everything a call in flight has read that it is still open, or that the state tells the call so: the state is read under the lock,
  and only the user itself, or the issuer, ends a task of that user. Two calls of one user break this, so `KeyTells` adds that the calls of a user that may still
  act share one key, and its receipt lets one of them act. This is where `~Impatient` enters, and the only place.

* *The calendar.* A call decides by an old snapshot whether its entry exists and by the locked row about the rest. `EditsStand` says that an edit made on a version finds its entry there, and that
  a mutation, once applied, has been outrun by the version of its entry: sent again, it fails the comparison although the entry remembers only its last mutation. An entry is never removed, so a call that
  found none either inserts the entry or fails. `EntriesStand` bounds versions by the number of mutations that were applied (a cardinality that grows by one with each), and says that a notice marks the version it is of, so
  that a job that comes second does not send it again. An import withdraws what its snapshot shows of its range and writes its days. `ImportsStand`
  says what that snapshot is worth: a row of the range that it does not show is not there, or was written by another import since (`since`). If the import writes such a row it fails, and if it does not, the day is one of `missed`; every other day of the range is as the import had it.

* *The reset.* Requests, worker and status share no lock, so `ResetInv` says what each leaves alone. Once the worker is behind the barrier no writer passes its last look, so `AtWork` bounds
  those that can still commit by the number at that moment: the data to be deleted differ from the digest that was compared by these at most. A job in progress has the digest of the preview it was confirmed on (`Confirmed`), which the worker
  keeps. A job whose receipt says "failed", or of which a client was told so, will not be committed (`Doomed`): it is over in the queue, or it waits there, or has still to come, with a receipt no worker runs. That needs
  the places where "failed" is written to know something of the queue; `status` and the worker do, the request does not when `enqueue` failed, and those jobs are set aside (`overtaken`). The last read of `status` is a locking one, without which
  a worker that commits and finishes between the first and the second read would be told to have failed. `Numbered` says that jobs are counted without gaps although receipts get lost; `Counted`, that every change of the data
  is a write or a reset, is where the cardinalities of finite sets come in.

What stays with TLC. `ReceiptsEnd` is liveness. `ActionDoneOnce` rests on folds over the users of an action. The properties of `office` about the demo data, the chart and the set-up, those of `admin` about roles and personnel, and those of
`rules` are checked on their instances only; several rest on recursive or folded definitions (formulas, closures of graphs, sums), about which the provers cannot do the
induction. The three expected violations are counterexamples, not theorems.

Worth proving next: `PersonnelAgrees`, for which the two ends of every link between a login, a profile and an Employee have to be followed through the saves that rewrite all three.

## 8. What is not modelled

Each module leaves out wording, lists, permissions and notifications unless a property is about them. Beyond that:

* *User action.* The resolution of users is a person or a shared set. The mode Any, outputs, attachments and the form are left out.
* *Routing.* Who may start is left out; versions of the source other than its revision too.
* *Forms.* Tables, options of a Select, files, rounding, percent and divide, and dates. The presets of `hr_form_presets.json` have expressions without inputs only where the
  preset itself supplies them, which is not modelled.
* *Stage forms.* Automatic fields, attachments, tables of items, link values, labels. An empty text and a missing value are one.
* *Leave.* One leave type; no half days, unpaid leave, backdating or corrections of custom forms; amounts are slots of a day. That no day is booked twice is stated of requests nobody corrected.
* *Designer.* Deletion of a workflow, copies and templates, overlapping insertions of a stage.
* *HR documents.* Clauses, lists, prints, the amounts in payroll.
* *Directives.* Lists, attachments, texts.
* *Writes.* Submission of pay slips; buying, stock and projects beyond the documents they create. Of the rounding of a voucher line, half to even is modelled.
* *Calendar.* Holidays of an employee (`save_holiday`).
* *Roles.* Disabled roles, the matrices of permissions, delegation, the token of `apply`. Calls are those of the built-in administrator.
* *Reset.* What `_collect` finds is one version of the data, which the digest tells; one administrator and one worker; the five minutes a confirmation is good for and the other terms of keys and locks are choices.
* *Personnel.* Passwords, invitation mails, companies, detail codes, `save_admin_profile` for someone without an Employee, the removal of "Employee" from `roles_text` by `save_party`. A
  person's records are a pair of check-ins.
* *Organization.* Capacity, order of rows, text beside an id, labels, photos and previews; moves of a department to another company or by the desk; deletion of the chart.
* *First office.* User defaults, identity and passwords, codes of accounts. One title of a fiscal year.
* *Demo data.* The desk acts between commands only, with one step; one deadlock in a run. That a fiscal year others share is kept is stated while the row of the other company stays.

Not modelled at all: the exit, training, certificate and overtime executors beyond the kind they are of; access, viewers, comments and attachments of requests; accounts, sessions and recovery; chart
of accounts and detail codes; reports, dashboard and support; patches and fixtures. PROJECT.json gives the reason for each.
