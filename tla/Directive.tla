------------------------------- MODULE Directive -------------------------------
(***************************************************************************)
(* A directive: the issuer drafts it, issues it to executors, reviews the  *)
(* final report of each and closes it when all are approved.  Every open   *)
(* duty is a row of the task store of the workflow engine, written by      *)
(* calls of the directive alone.                                           *)
(*                                                                         *)
(* A call is a REPEATABLE READ transaction that locks its user, then the   *)
(* directive with its recipients, then the task it ends.  Which task that  *)
(* is, and whether the request key was used, it finds by plain reads, in   *)
(* the snapshot seen that Begin takes; Finish does the rest on the rows    *)
(* as committed.  An operator returns the rows a call may commit, {} when  *)
(* it is refused.                                                          *)
(***************************************************************************)
EXTENDS Naturals, FiniteSets, Sequences, SequencesExt

CONSTANTS
  Executors,   \* users who may become executors
  Issuer,      \* the user who issues the directive
  Scheduler,   \* the user of the scheduled jobs
  Drafts,      \* what the issuer may enter in the form
  Keys,        \* request keys
  Workers,     \* processes that serve calls and jobs
  Movable,     \* executors the personnel office may move out of the team
  Impatient,   \* whether a user sends a second call before the first is answered
  MaxVersion,  \* bound: versions of the draft
  MaxTasks,    \* bound: tasks of the directive
  NoCall       \* no call

Nobody == "nobody"

VARIABLES
  doc,       \* the Internal Communication with its recipients
  tasks,     \* the tasks of its workflow instance, in the order of creation
  receipts,  \* the call each request key was used for
  acted,     \* how many activities were recorded under a key
  team,      \* executors who report to the issuer and have an account
  now,       \* 0, then 1 from the time of the reminder, 2 after the due date
  txn        \* the call each worker serves, with what its plain reads see

vars == <<doc, tasks, receipts, acted, team, now, txn>>

-----------------------------------------------------------------------------
(* Rows.                                                                   *)

Working == {"Pending", "In Progress", "Returned"}

States == Working \cup {"none", "Awaiting Review", "Approved", "Transferred"}

Doc == [status : {"none", "Draft", "Sent", "Closed"}, version : 0..(MaxVersion + 1),
        primary : Executors \cup {Nobody}, reminder : BOOLEAN, mayPass : BOOLEAN,
        states : [Executors -> States]]

NoDoc == [status |-> "none", version |-> 0, primary |-> Nobody, reminder |-> FALSE,
          mayPass |-> FALSE, states |-> [u \in Executors |-> "none"]]

\* subject is the report a review is about; reminders and notices count the
\* notifications sent for the task.
Task == [user : Executors \cup {Issuer}, kind : {"Report", "Review", "Close"},
         status : {"Open", "Completed"},
         action : {"none", "Report", "Progress", "Approve", "Return", "Transferred", "Close"},
         subject : 0..MaxTasks, remind : BOOLEAN, reminders : Nat, notices : Nat]

Active(d) == {u \in Executors : d.states[u] \notin {"none", "Transferred"}}

AllApproved(d) == Active(d) # {} /\ \A u \in Active(d) : d.states[u] = "Approved"

Put(d, u, state) == [d EXCEPT !.states[u] = state]

Duty(d, u, kind, subject) ==
  [user |-> u, kind |-> kind, status |-> "Open", action |-> "none", subject |-> subject,
   remind |-> kind = "Report" /\ d.reminder /\ now = 0, reminders |-> 0, notices |-> 0]

End(ts, i, action) == [ts EXCEPT ![i].status = "Completed", ![i].action = action]

OpenAmong(ts, u, kind) ==
  {i \in DOMAIN ts : ts[i].user = u /\ ts[i].kind = kind /\ ts[i].status = "Open"}

Written(d, ts) == [doc |-> d, tasks |-> ts]

-----------------------------------------------------------------------------
(* What a user may do, as the client is told and as a call checks again:   *)
(* only the rule for closing looks at tasks, by a plain read.              *)

MayReport(d, u) == d.status = "Sent" /\ d.states[u] \in Working

MayStart(d, u) == d.status = "Sent" /\ d.states[u] = "Pending"

MayTransfer(d, by) ==
  /\ d.status = "Sent"
  /\ IF by = Issuer THEN \E u \in Executors : d.states[u] \in Working
     ELSE d.states[by] \in Working /\ d.mayPass

MayClose(d, seen) ==
  /\ d.status = "Sent" /\ AllApproved(d)
  /\ \A i \in DOMAIN seen : seen[i].status = "Open" => seen[i].kind = "Close"

-----------------------------------------------------------------------------
(* The calls; d and ts are the rows as committed, seen the tasks and the   *)
(* team of the snapshot.                                                   *)


SaveDraft(call, d, ts, seen) ==
  {r \in {Written([status |-> "Draft", version |-> d.version + 1, primary |-> call.form.primary,
                   reminder |-> call.form.reminder, mayPass |-> call.form.mayPass,
                   states |-> [u \in Executors |-> IF u \in call.form.users THEN "Pending" ELSE "none"]], ts)} :
     /\ d.status = "none" \/ (d.status = "Draft" /\ call.version = d.version)
     /\ seen.team # {} /\ call.form.users \subseteq seen.team}

Issue(call, d, ts, seen) ==
  {r \in {Written([d EXCEPT !.status = "Sent", !.version = @ + 1],
                  [i \in 1..Cardinality(Active(d)) |-> Duty(d, SetToSeq(Active(d))[i], "Report", 0)])} :
     /\ d.status = "Draft"
     /\ d.primary \in Active(d) /\ Active(d) \subseteq seen.team
     /\ now < 2 /\ (d.reminder => now = 0)}

Start(call, d, ts, seen) ==
  {r \in {Written(Put(d, call.user, "In Progress"), ts)} :
     MayStart(d, call.user) /\ OpenAmong(seen.tasks, call.user, "Report") # {}}

\* The report is written into the task the snapshot shows open.
Report(call, d, ts, seen) ==
  {Written(Put(d, call.user, "Awaiting Review"),
           Append(End(ts, i, "Report"), Duty(d, Issuer, "Review", i))) :
     i \in {i \in OpenAmong(seen.tasks, call.user, "Report") : MayReport(d, call.user)}}

Progress(call, d, ts, seen) ==
  {r \in {Written(IF d.states[call.user] = "Pending" THEN Put(d, call.user, "In Progress") ELSE d,
                  Append(ts, [Duty(d, call.user, "Report", 0) EXCEPT
                                !.status = "Completed", !.action = "Progress", !.remind = FALSE]))} :
     MayReport(d, call.user) /\ OpenAmong(seen.tasks, call.user, "Report") # {}}

ReviewsOf(ts, i) == {j \in OpenAmong(ts, Issuer, "Review") : ts[j].subject = i}

\* Mutation of Review: decides on any executor who waits, not on the report's author.
ReviewAnyone(call, d, ts, seen) ==
  UNION {LET decided == Put(d, u, IF call.approve THEN "Approved" ELSE "Returned")
             ended(j) == End(ts, j, IF call.approve THEN "Approve" ELSE "Return")
         IN {Written(decided, IF ~call.approve THEN Append(ended(j), Duty(decided, u, "Report", 0))
                              ELSE IF AllApproved(decided) THEN Append(ended(j), Duty(d, Issuer, "Close", 0))
                              ELSE ended(j)) : j \in ReviewsOf(seen.tasks, call.report)} :
           u \in {u \in Active(d) : d.status = "Sent" /\ d.states[u] # "Approved"}}

Review(call, d, ts, seen) ==
  LET u == seen.tasks[call.report].user
      state == IF call.approve THEN "Approved" ELSE "Returned"
      decided == Put(d, u, state)
      ended(j) == End(ts, j, IF call.approve THEN "Approve" ELSE "Return")
  IN {Written(decided, CASE ~call.approve -> Append(ended(j), Duty(decided, u, "Report", 0))
                         [] call.approve /\ AllApproved(decided) -> Append(ended(j), Duty(d, Issuer, "Close", 0))
                         [] OTHER -> ended(j)) :
        j \in {j \in ReviewsOf(seen.tasks, call.report) :
                 d.status = "Sent" /\ seen.tasks[call.report].action = "Report" /\ d.states[u] = "Awaiting Review"}}

\* Mutation of Transfer: the task of the executor who passes the duty on stays open.
TransferOpen(call, d, ts, seen) ==
  LET from == IF call.user = Issuer THEN call.from ELSE call.user
      passed == Put(Put(d, from, "Transferred"), call.to, "Pending")
  IN {r \in {Written(passed, Append(ts, Duty(passed, call.to, "Report", 0)))} :
        /\ MayTransfer(d, call.user) /\ d.states[from] \in Working
        /\ call.to \in seen.team /\ d.states[call.to] = "none"}

\* The duty of an executor goes to one who never had it.
Transfer(call, d, ts, seen) ==
  LET from == IF call.user = Issuer THEN call.from ELSE call.user
      passed == [Put(Put(d, from, "Transferred"), call.to, "Pending") EXCEPT
                   !.primary = IF @ = from THEN call.to ELSE @]
  IN {Written(passed, Append(End(ts, i, "Transferred"), Duty(passed, call.to, "Report", 0))) :
        i \in {i \in OpenAmong(seen.tasks, from, "Report") :
                 /\ MayTransfer(d, call.user) /\ d.states[from] \in Working
                 /\ call.to \in seen.team /\ d.states[call.to] = "none"}}

Close(call, d, ts, seen) ==
  {Written([d EXCEPT !.status = "Closed"], End(ts, i, "Close")) :
     i \in {i \in OpenAmong(seen.tasks, Issuer, "Close") : MayClose(d, seen.tasks)}}

\* The scheduled jobs: a task the snapshot shows due is looked at again
\* under the locks of the directive and of the task.
Remindable(t) == t.kind = "Report" /\ t.status = "Open" /\ t.remind /\ t.reminders = 0 /\ now = 1

Overdue(t) == t.status = "Open" /\ t.notices = 0 /\ now = 2

\* Mutation of Remind: trusts the list, without a second look under the locks.
RemindListed(call, d, ts, seen) ==
  {Written(d, [i \in DOMAIN ts |->
     IF i \in DOMAIN seen.tasks /\ Remindable(seen.tasks[i])
     THEN [ts[i] EXCEPT !.reminders = @ + 1] ELSE ts[i]])}

Remind(call, d, ts, seen) ==
  {Written(d, [i \in DOMAIN ts |->
     IF i \in DOMAIN seen.tasks /\ Remindable(seen.tasks[i]) /\ Remindable(ts[i]) /\ d.status = "Sent"
     THEN [ts[i] EXCEPT !.reminders = @ + 1] ELSE ts[i]])}

NotifyOverdue(call, d, ts, seen) ==
  {Written(d, [i \in DOMAIN ts |->
     IF i \in DOMAIN seen.tasks /\ Overdue(seen.tasks[i]) /\ Overdue(ts[i]) /\ d.status = "Sent"
     THEN [ts[i] EXCEPT !.notices = @ + 1] ELSE ts[i]])}

Effects(call, d, ts, seen) ==
  CASE call.op = "save"     -> SaveDraft(call, d, ts, seen)
    [] call.op = "issue"    -> Issue(call, d, ts, seen)
    [] call.op = "start"    -> Start(call, d, ts, seen)
    [] call.op = "report"   -> Report(call, d, ts, seen)
    [] call.op = "progress" -> Progress(call, d, ts, seen)
    [] call.op = "review"   -> Review(call, d, ts, seen)
    [] call.op = "transfer" -> Transfer(call, d, ts, seen)
    [] call.op = "close"    -> Close(call, d, ts, seen)
    [] call.op = "remind"   -> Remind(call, d, ts, seen)
    [] call.op = "overdue"  -> NotifyOverdue(call, d, ts, seen)

-----------------------------------------------------------------------------
(* Calls and transactions.                                                 *)

Calls ==
       [op : {"save"}, user : {Issuer}, form : Drafts, version : 0..MaxVersion]
  \cup [op : {"issue", "close"}, user : {Issuer}]
  \cup [op : {"start", "report", "progress"}, user : Executors]
  \cup [op : {"review"}, user : {Issuer}, report : 1..MaxTasks, approve : BOOLEAN]
  \cup [op : {"transfer"}, user : Executors \cup {Issuer}, from : Executors, to : Executors]
  \cup [op : {"remind", "overdue"}, user : {Scheduler}]

\* A client offers what the rows it has loaded allow; a job looks for its tasks.
Offered(call) ==
  CASE call.op = "save"     -> /\ doc.status \in {"none", "Draft"} /\ doc.version < MaxVersion
                               /\ call.version = doc.version /\ call.form.users \subseteq team
    [] call.op = "issue"    -> doc.status = "Draft"
    [] call.op = "start"    -> MayStart(doc, call.user)
    [] call.op \in {"report", "progress"} -> MayReport(doc, call.user)
    [] call.op = "review"   -> doc.status = "Sent" /\ ReviewsOf(tasks, call.report) # {}
    [] call.op = "transfer" -> /\ MayTransfer(doc, call.user) /\ doc.states[call.from] \in Working
                               /\ call.user \in {Issuer, call.from}
                               /\ call.to \in team /\ doc.states[call.to] = "none"
    [] call.op = "close"    -> MayClose(doc, tasks)
    [] call.op = "remind"   -> \E i \in DOMAIN tasks : Remindable(tasks[i])
    [] call.op = "overdue"  -> \E i \in DOMAIN tasks : Overdue(tasks[i])

NoKey == "no key"

\* What the constants are.
ASSUME DirectiveTypes ==
  /\ IsFiniteSet(Executors) /\ Issuer \notin Executors /\ Scheduler \notin Executors \cup {Issuer}
  /\ Drafts \subseteq [users : SUBSET Executors, primary : Executors \cup {Nobody},
                      reminder : BOOLEAN, mayPass : BOOLEAN]
  /\ \A f \in Drafts : f.primary \in f.users \cup {Nobody}
  /\ Movable \subseteq Executors
  /\ Impatient \in BOOLEAN /\ MaxVersion \in Nat /\ MaxTasks \in Nat
  /\ NoCall \notin Calls /\ NoKey \notin Keys

Idle == [call |-> NoCall, key |-> NoKey, seen |-> [tasks |-> << >>, team |-> {}], known |-> NoCall]

Busy(w) == txn[w].call # NoCall

\* What the plain reads of a call will see.
Snapshot(op) == [tasks |-> IF op \in {"save", "issue"} THEN << >> ELSE tasks,
                 team  |-> IF op \in {"save", "issue", "transfer"} THEN team ELSE {}]

Serve(w, call, key, known) ==
  txn' = [txn EXCEPT ![w] = [call |-> call, key |-> key, seen |-> Snapshot(call.op), known |-> known]]

InFlight(key) == \E w \in Workers : txn[w].key = key

\* A new call, under a key that no call in flight has.  Keys stand for fresh
\* ones: what the others were used for is forgotten.
Begin(w) ==
  /\ ~Busy(w)
  /\ \E call \in Calls :
       /\ Offered(call)
       /\ Impatient \/ call.user = Scheduler \/ \A v \in Workers : Busy(v) => txn[v].call.user # call.user
       /\ \E key \in IF call.user = Scheduler THEN {NoKey} ELSE {k \in Keys : ~InFlight(k)} :
            Serve(w, call, key, NoCall)
  /\ receipts' = [k \in Keys |-> IF InFlight(k) THEN receipts[k] ELSE NoCall]
  /\ acted' = [k \in Keys |-> IF InFlight(k) THEN acted[k] ELSE 0]
  /\ UNCHANGED <<doc, tasks, team, now>>

\* A client that got no answer sends the call again under its key, although
\* the first may be in flight or have committed.
Retry(w) ==
  /\ ~Busy(w)
  /\ \E key \in Keys :
       \E call \in ({receipts[key]} \cup {txn[v].call : v \in {x \in Workers : txn[x].key = key}}) \ {NoCall} :
         Serve(w, call, key, receipts[key])
  /\ UNCHANGED <<doc, tasks, receipts, acted, team, now>>

\* Mutation of NotReceipted: the name of a receipt is not its key.
NotReceiptedEver(key) == TRUE

\* The receipt is inserted with the effects; its name is the key.
NotReceipted(key) == key \in Keys => receipts[key] = NoCall

Finish(w) ==
  /\ Busy(w) /\ txn[w].known = NoCall
  /\ NotReceipted(txn[w].key) = TRUE
  /\ \E r \in Effects(txn[w].call, doc, tasks, txn[w].seen) :
       Len(r.tasks) <= MaxTasks /\ doc' = r.doc /\ tasks' = r.tasks
  /\ IF txn[w].key = NoKey
     THEN UNCHANGED <<receipts, acted>>
     ELSE /\ receipts' = [receipts EXCEPT ![txn[w].key] = txn[w].call]
          /\ acted' = [acted EXCEPT ![txn[w].key] = @ + 1]
  /\ txn' = [txn EXCEPT ![w] = Idle]
  /\ UNCHANGED <<team, now>>

\* A call ends without effect: refused, answered from its receipt, or failed.
GiveUp(w) ==
  /\ Busy(w)
  /\ txn' = [txn EXCEPT ![w] = Idle]
  /\ UNCHANGED <<doc, tasks, receipts, acted, team, now>>

\* The personnel office moves an executor out of the team or into it.
Reassign(u) ==
  /\ team' = IF u \in team THEN team \ {u} ELSE team \cup {u}
  /\ UNCHANGED <<doc, tasks, receipts, acted, now, txn>>

\* Bound: the due date of a directive without a reminder is not reached.
Tick ==
  /\ doc.reminder /\ now < 2 /\ now' = now + 1
  /\ UNCHANGED <<doc, tasks, receipts, acted, team, txn>>

Init ==
  /\ doc = NoDoc /\ tasks = << >>
  /\ receipts = [k \in Keys |-> NoCall] /\ acted = [k \in Keys |-> 0]
  /\ team = Executors /\ now = 0
  /\ txn = [w \in Workers |-> Idle]

Next ==
  \/ \E w \in Workers : Begin(w) \/ Retry(w) \/ Finish(w) \/ GiveUp(w)
  \/ \E u \in Movable : Reassign(u)
  \/ Tick

Spec == Init /\ [][Next]_vars

-----------------------------------------------------------------------------
(* Properties.                                                             *)

\* Rows have the shape of their DocTypes.
TypeOK ==
  /\ doc \in Doc
  /\ tasks \in Seq(Task) /\ Len(tasks) <= MaxTasks
  /\ receipts \in [Keys -> Calls \cup {NoCall}] /\ acted \in [Keys -> Nat]
  /\ team \subseteq Executors /\ now \in 0..2

Reports(u) == {i \in DOMAIN tasks : tasks[i].user = u /\ tasks[i].action = "Report"}

OpenReviews(u) == {j \in OpenAmong(tasks, Issuer, "Review") : tasks[tasks[j].subject].user = u}

\* The open tasks are the duties that the directive tells of: an executor at
\* work has one open task, one who waits has a review of the latest report
\* with the issuer, and the issuer may close when all are approved.  A task
\* left open besides would keep the directive from ever being closed.
DutiesOpen ==
  /\ doc.status = "Sent" =>
       /\ \A u \in Executors :
            /\ Cardinality(OpenAmong(tasks, u, "Report")) = IF doc.states[u] \in Working THEN 1 ELSE 0
            /\ Cardinality(OpenReviews(u)) = IF doc.states[u] = "Awaiting Review" THEN 1 ELSE 0
            /\ \A j \in OpenReviews(u), i \in Reports(u) : i <= tasks[j].subject
       /\ Cardinality(OpenAmong(tasks, Issuer, "Close")) = IF AllApproved(doc) THEN 1 ELSE 0
  /\ doc.status # "Sent" => \A i \in DOMAIN tasks : tasks[i].status = "Completed"

\* An executor is approved by a review of the last report they sent.
ApprovedByReview ==
  \A u \in Executors : doc.states[u] = "Approved" =>
    \E i \in Reports(u) :
      /\ \A h \in Reports(u) : h <= i
      /\ \E j \in DOMAIN tasks : tasks[j].subject = i /\ tasks[j].action = "Approve"

\* The tasks tell the state of the directive, and its states tell what was done
\* with the tasks (every call of directives.py writes both, under the lock of
\* the directive).
TasksTellState == TypeOK /\ DutiesOpen /\ ApprovedByReview

\* A call that is sent again under its key acts once, whether its repetition
\* overlaps it or follows it.
ActedOnce == \A k \in Keys : acted[k] <= 1

\* A task is reminded of once and reported overdue once, and only while it is
\* open, however its jobs overlap with each other and with its end.
NotifiedOnce ==
  \A i \in DOMAIN tasks :
    tasks'[i].reminders + tasks'[i].notices # tasks[i].reminders + tasks[i].notices =>
      /\ tasks[i].status = "Open" /\ doc.status = "Sent"
      /\ tasks'[i].reminders <= 1 /\ tasks'[i].notices <= 1

\* Nothing is done twice: neither what a call asks for under its key nor what
\* the job tells of a task (request_id of the calls, dispatch_reminders).
OnceEach == [][<<tasks, acted>>' # <<tasks, acted>> => ActedOnce' /\ NotifiedOnce]_vars
=============================================================================
