------------------------------ MODULE UserAction ------------------------------
(***************************************************************************)
(* The user action: a stage whose task is offered to a person or to all    *)
(* who qualify, the first of whom takes it.  It may be passed on, is       *)
(* handed to a supervisor after its deadline, and ends with a result.      *)
(*                                                                         *)
(* A call is a REPEATABLE READ transaction that locks the instance, then   *)
(* the task.  Begin takes the snapshot seen, which its plain reads see;    *)
(* Finish does the rest on the rows as committed.  An operator returns the *)
(* rows a call may commit, {} when it is refused.                          *)
(***************************************************************************)
EXTENDS Naturals, FiniteSets, Sequences, SequencesExt, TLC

CONSTANTS
  Users,        \* users of the office
  Supervisor,   \* the first of those with an escalation role
  Rules,        \* the settings of the stage to start with
  Movable,      \* users whose unit, role or account may change
  Workers,      \* processes that serve calls and jobs
  MaxVisits,    \* bound: times the request comes to a stage of each rule
  NoCall        \* no call

Nobody == "nobody"

VARIABLES
  rule,      \* the settings of the stage, fixed once it has run
  instance,  \* the workflow instance
  tasks,     \* its tasks of this stage, in the order of creation
  members,   \* users of the unit or with the role, as they are now
  txn        \* the call each worker serves, with what its plain reads see

vars == <<rule, instance, tasks, members, txn>>

-----------------------------------------------------------------------------
(* Settings and rows.                                                      *)

\* Direct: to the person alone.  supervised: reassign_on_overdue, with somebody
\* in the escalation roles.
Rule == [delivery : {"Direct", "Shared"}, person : Users, allow_reassign : BOOLEAN, supervised : BOOLEAN]

Instance == [status : {"Running", "Cancelled"}, stage : {"action", "next"}, visit : Nat]

Everybody == Users \cup {Supervisor}

\* content names who wrote draft_json and response_json last; passed are the users
\* that an activity Reassigned names, handed tells of an activity Escalated.
Task == [assigned_to : Everybody, status : {"Open", "Completed", "Cancelled"},
         action : {"", "Awaiting Claim", "Claimed", "Follow Up", "Complete", "Claimed Elsewhere"},
         content : Everybody \cup {Nobody}, passed : SUBSET Users, handed : BOOLEAN,
         escalated : BOOLEAN, reminded : BOOLEAN]

\* Who the settings name: those of them who still qualify.
users_for(who) == IF rule.delivery = "Direct" THEN {rule.person} \cap who ELSE who

\* A task may be passed on within the unit of the one person, too.
delegation_users(who) == who

\* The rows as a call leaves them; stamped are those it gave a new stamp, 0 the
\* instance.
Rows(inst, ts) == [instance |-> inst, tasks |-> ts, stamped |-> {}]

Saved(rows, i, t) == [rows EXCEPT !.tasks[i] = t, !.stamped = @ \cup {i}]

\* A document is saved as it was loaded, unless its row has a new stamp since.
SavedAsLoaded(rows, i, t, seen) == {r \in {Saved(rows, i, t)} : i \notin seen.stale}

Moved(rows, status, stage) ==
  [rows EXCEPT !.instance.status = status, !.instance.stage = stage, !.stamped = @ \cup {0}]

\* A task for each of the users; {} when there is nobody to give it to.
Activated(rows, who) ==
  LET order == SetToSeq(users_for(who))
      offer(u) == [assigned_to |-> u, status |-> "Open",
                   action |-> IF rule.delivery = "Shared" THEN "Awaiting Claim" ELSE "",
                   content |-> Nobody, passed |-> {}, handed |-> FALSE, escalated |-> FALSE,
                   reminded |-> FALSE]
  IN {r \in {[Moved(rows, "Running", "action") EXCEPT
                !.instance.visit = @ + 1, !.tasks = @ \o [k \in 1..Len(order) |-> offer(order[k])]]} :
        order # << >>}

-----------------------------------------------------------------------------
(* Who may act.                                                            *)

Waits(inst) == inst.status = "Running" /\ inst.stage = "action"

\* t is the task as the caller loaded it; the rest is read without a lock.
assert_writable(i, t, user, seen) ==
  /\ t.assigned_to = user /\ t.status = "Open" /\ t.action # "Awaiting Claim"
  /\ Waits(seen.instance)
  /\ \/ user \in users_for(seen.members)
     \/ user = Supervisor /\ t.escalated /\ rule.supervised /\ seen.tasks[i].handed
     \/ rule.allow_reassign /\ user \in seen.tasks[i].passed \cap delegation_users(seen.members)

\* What Claim, Follow Up and Reassign look at, under the locks.
handle(call, rows, seen) ==
  LET t == rows.tasks[call.task] IN
    t.assigned_to = call.user /\ t.status = "Open" /\ Waits(rows.instance)

-----------------------------------------------------------------------------
(* The calls; rows are those committed.                                    *)

Peers(rows, i) ==
  {k \in DOMAIN rows.tasks \ {i} : rows.tasks[k].status = "Open" /\ rows.tasks[k].action = "Awaiting Claim"}

\* Mutation of TakenElsewhere: leaves the stamps alone, as a cancellation does.
TakenElsewhereQuietly(rows, i) ==
  [rows EXCEPT !.tasks = [k \in DOMAIN @ |->
     IF k \in Peers(rows, i) THEN [@[k] EXCEPT !.status = "Cancelled", !.action = "Claimed Elsewhere"] ELSE @[k]]]

\* The tasks of the others end.
TakenElsewhere(rows, i) ==
  [rows EXCEPT !.stamped = @ \cup Peers(rows, i), !.tasks = [k \in DOMAIN @ |->
     IF k \in Peers(rows, i) THEN [@[k] EXCEPT !.status = "Cancelled", !.action = "Claimed Elsewhere"] ELSE @[k]]]

Claim(call, rows, seen) ==
  LET i == call.task
      t == rows.tasks[i] IN
  {r \in {Saved(TakenElsewhere(rows, i), i, [t EXCEPT !.action = "Claimed"])} :
     /\ handle(call, rows, seen)
     /\ t.action = "Awaiting Claim" /\ call.user \in users_for(seen.members)}

\* Follow Up and Blocked alike: the state of the action, and a report of it.
FollowUp(call, rows, seen) ==
  LET i == call.task
      t == rows.tasks[i] IN
  {r \in {Saved(rows, i, [t EXCEPT !.action = "Follow Up", !.content = call.user])} :
     handle(call, rows, seen) /\ assert_writable(i, t, call.user, seen)}

reassign(call, rows, seen) ==
  LET i == call.task
      t == rows.tasks[i] IN
  {r \in {Saved(rows, i, [t EXCEPT !.assigned_to = call.to, !.passed = @ \cup {call.to}])} :
     /\ handle(call, rows, seen) /\ assert_writable(i, t, call.user, seen)
     /\ rule.allow_reassign /\ call.to # call.user /\ call.to \in delegation_users(seen.members)}

\* save_workflow_task_draft reads the task under its lock.
SaveDraft(call, rows, seen) ==
  LET i == call.task
      t == rows.tasks[i] IN
  {r \in {Saved(rows, i, [t EXCEPT !.content = call.user])} : assert_writable(i, t, call.user, seen)}

Ended(t, user) == [t EXCEPT !.status = "Completed", !.action = "Complete", !.content = user]

\* Mutation of Complete: writes the task whatever has become of its row.
CompleteOver(call, rows, seen) ==
  LET i == call.task
      t == seen.tasks[i] IN
  {r \in {Moved(Saved(rows, i, Ended(t, call.user)), "Running", "next")} :
     assert_writable(i, t, call.user, seen) /\ 0 \notin seen.stale}

\* The task and the instance are read without a lock, after the locks have been
\* taken; the instance moves on unless others are seen at work.
Complete(call, rows, seen) ==
  LET i == call.task
      t == seen.tasks[i]
      alone == \A k \in DOMAIN seen.tasks \ {i} : seen.tasks[k].status # "Open" IN
  {IF alone THEN Moved(r, "Running", "next") ELSE r :
     r \in {r \in SavedAsLoaded(rows, i, Ended(t, call.user), seen) :
              assert_writable(i, t, call.user, seen) /\ (alone => 0 \notin seen.stale)}}

\* The tasks first, which keep their stamps; then the instance, as it was loaded.
Withdraw(call, rows, seen) ==
  {r \in {[Moved(rows, "Cancelled", rows.instance.stage) EXCEPT
             !.tasks = [k \in DOMAIN @ |-> IF @[k].status = "Open" THEN [@[k] EXCEPT !.status = "Cancelled"] ELSE @[k]]]} :
     seen.instance.status = "Running" /\ 0 \notin seen.stale}

\* A task that its list showed late is looked at again under the locks.
escalate(rows, i) ==
  LET t == rows.tasks[i]
      taken == [t EXCEPT !.escalated = TRUE, !.assigned_to = Supervisor, !.handed = TRUE,
                         !.action = IF @ = "Awaiting Claim" THEN "Claimed" ELSE @] IN
    IF t.status # "Open" \/ t.escalated \/ ~Waits(rows.instance) THEN rows
    ELSE IF ~rule.supervised THEN Saved(rows, i, [t EXCEPT !.escalated = TRUE])
    ELSE Saved(IF t.action = "Awaiting Claim" THEN TakenElsewhere(rows, i) ELSE rows, i, taken)

\* Mutation of reminder: marks the task whatever has become of its row.
reminder_over(rows, i, seen) == Saved(rows, i, [seen.tasks[i] EXCEPT !.reminded = TRUE])

\* What fails on one task leaves the others.
reminder(rows, i, seen) ==
  IF i \in seen.stale THEN rows ELSE Saved(rows, i, [seen.tasks[i] EXCEPT !.reminded = TRUE])

\* process_workflow_deadlines: the tasks whose reminder is due, then those that
\* are late.
Deadlines(call, rows, seen) ==
  LET remind(r, i) ==
        IF seen.tasks[i].status = "Open" /\ ~seen.tasks[i].reminded THEN reminder(r, i, seen) ELSE r
      late(r, i) ==
        IF call.late /\ seen.tasks[i].status = "Open" /\ ~seen.tasks[i].escalated THEN escalate(r, i) ELSE r
  IN {FoldLeftDomain(late, FoldLeftDomain(remind, rows, seen.tasks), seen.tasks)}

\* A later stage returns the request to this one.
Return(call, rows, seen) ==
  {r \in Activated(rows, seen.members) :
     0 \notin seen.stale /\ rows.instance.status = "Running" /\ rows.instance.stage = "next"}

Effects(call, rows, seen) ==
  CASE call.op = "claim"     -> Claim(call, rows, seen)
    [] call.op = "follow up" -> FollowUp(call, rows, seen)
    [] call.op = "reassign"  -> reassign(call, rows, seen)
    [] call.op = "draft"     -> SaveDraft(call, rows, seen)
    [] call.op = "complete"  -> Complete(call, rows, seen)
    [] call.op = "withdraw"  -> Withdraw(call, rows, seen)
    [] call.op = "deadlines" -> Deadlines(call, rows, seen)
    [] call.op = "return"    -> Return(call, rows, seen)

-----------------------------------------------------------------------------
(* Calls and transactions.                                                 *)

\* What the committed rows let a client call, and the jobs find to do.
Calls ==
  LET mine == {<<i, u>> \in (DOMAIN tasks) \X Everybody :
                 tasks[i].status = "Open" /\ tasks[i].assigned_to = u}
  IN UNION {[op : IF tasks[m[1]].action = "Awaiting Claim" THEN {"claim"} ELSE {"follow up", "draft", "complete"},
             task : {m[1]}, user : {m[2]}]
            \cup [op : IF rule.allow_reassign THEN {"reassign"} ELSE {}, task : {m[1]}, user : {m[2]}, to : members]
              : m \in mine}
     \cup [op : IF instance.status = "Running" THEN {"withdraw"} ELSE {}]
     \cup [op : IF mine # {} THEN {"deadlines"} ELSE {}, late : BOOLEAN]
     \cup [op : IF instance.stage = "next" /\ instance.visit < MaxVisits[rule] THEN {"return"} ELSE {}]

Idle == [call |-> NoCall]

Busy(w) == txn[w] # Idle

\* Calls that save documents as they were loaded before the locks.
Loads == {"complete", "withdraw", "deadlines", "return"}

\* What the plain reads of a call will see, and which rows have a new stamp since.
Snapshot(call) ==
  [instance |-> instance,
   tasks    |-> CASE call.op \in {"claim", "withdraw", "return"} -> << >>
                  [] call.op \in {"complete", "deadlines"} -> tasks
                  [] OTHER -> call.task :> [passed |-> tasks[call.task].passed, handed |-> tasks[call.task].handed],
   members  |-> IF call.op \in {"withdraw", "deadlines"} THEN {} ELSE members,
   stale    |-> {}]

Begin(w) ==
  /\ ~Busy(w)
  /\ \E call \in Calls : txn' = [txn EXCEPT ![w] = [call |-> call, seen |-> Snapshot(call)]]
  /\ UNCHANGED <<rule, instance, tasks, members>>

\* The others who have loaded what is saved here will find its new stamp.
Outdated(w, stamped) ==
  [v \in Workers |-> CASE v = w -> Idle
                       [] v # w /\ Busy(v) /\ txn[v].call.op \in Loads -> [txn[v] EXCEPT !.seen.stale = @ \cup stamped]
                       [] OTHER -> txn[v]]

Finish(w) ==
  /\ Busy(w)
  /\ \E r \in Effects(txn[w].call, Rows(instance, tasks), txn[w].seen) :
       instance' = r.instance /\ tasks' = r.tasks /\ txn' = Outdated(w, r.stamped)
  /\ UNCHANGED <<rule, members>>

\* A call is refused, or ends in a deadlock of the row locks.
GiveUp(w) ==
  /\ Busy(w)
  /\ txn' = [txn EXCEPT ![w] = Idle]
  /\ UNCHANGED <<rule, instance, tasks, members>>

\* The personnel office moves a user out of the unit or into it.
Move(u) ==
  /\ members' = IF u \in members THEN members \ {u} ELSE members \cup {u}
  /\ UNCHANGED <<rule, instance, tasks, txn>>

Init ==
  /\ rule \in Rules /\ members = Users
  /\ \E r \in Activated(Rows([status |-> "Running", stage |-> "next", visit |-> 0], << >>), Users) :
       instance = r.instance /\ tasks = r.tasks
  /\ txn = [w \in Workers |-> Idle]

Next ==
  \/ \E w \in Workers : Begin(w) \/ Finish(w) \/ GiveUp(w)
  \/ \E u \in Movable : Move(u)

Spec == Init /\ [][Next]_vars

-----------------------------------------------------------------------------
(* Properties.                                                             *)

TypeOK ==
  /\ rule \in Rule /\ instance \in Instance /\ members \subseteq Users
  /\ tasks \in Seq(Task)

Open == {i \in DOMAIN tasks : tasks[i].status = "Open"}

\* While the request waits at the stage somebody has its task: it waits in the
\* queue of all who may take it, or exactly one has it, and then nobody else is
\* asked; a request that went on leaves no task behind.
OneObligation ==
  /\ Waits(instance) =>
       /\ Open # {}
       /\ (\E i \in Open : tasks[i].action # "Awaiting Claim") => Cardinality(Open) = 1
  /\ instance.status = "Running" /\ instance.stage = "next" => Open = {}

\* What a task holds was written by who had it at that time, and stays with the
\* task when it is passed on; what has ended stays as it was, as long as the
\* request runs.
TasksKept ==
  instance.status = "Running" =>
    \A i \in DOMAIN tasks :
      LET before == tasks[i]
          after == tasks'[i] IN
        /\ before.status # "Open" => after = before
        /\ after.content \in {before.content, before.assigned_to}
        /\ after.action = "Complete" /\ before.action # "Complete" => after.content = before.assigned_to
        /\ after.action = "Awaiting Claim" => before.action = "Awaiting Claim"
        /\ before.escalated => after.escalated
        /\ before.passed \subseteq after.passed
        /\ after.assigned_to # before.assigned_to =>
             \/ rule.supervised /\ after.handed /\ ~before.handed
             \/ rule.allow_reassign /\ after.assigned_to \in after.passed

\* An action is done once, by who has it: "instance/peer locks keep the first
\* claimant" and "Former owner loses access immediately"
\* (docs/api/workflow-user-actions.md), however claims, transfers, drafts,
\* deadlines and a withdrawal overlap.
ActionDoneOnce == [][(TypeOK /\ OneObligation)' /\ (tasks' # tasks => TasksKept)]_vars
=============================================================================
