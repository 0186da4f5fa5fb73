---------------------------- MODULE DirectiveProofs ----------------------------
(***************************************************************************)
(* A directive for any executors, drafts, keys and workers: nothing is     *)
(* done twice, and, when users wait for their answers, the open tasks tell *)
(* the state of every executor.                                            *)
(*                                                                         *)
(* The argument: a call ends the one task its snapshot shows open (Steps). *)
(* That task is still open unless the state, which is read under the lock, *)
(* says otherwise (Held), for nobody but its user and the issuer can have  *)
(* ended it, and of the calls of a user one may act (KeyTells).            *)
(***************************************************************************)
EXTENDS Directive, FiniteSetTheorems, TLAPS

HIDE DirectiveTypes

-----------------------------------------------------------------------------
(* The table of tasks.                                                     *)

Actions == {"none", "Report", "Progress", "Approve", "Return", "Transferred", "Close"}

Few(t) == t.reminders \in {0, 1} /\ t.notices \in {0, 1}

\* A row as its DocType and the calls that insert it have it.
Row(ts, i) ==
  /\ IF ts[i].kind = "Report" THEN ts[i].user \in Executors ELSE ts[i].user = Issuer
  /\ ts[i].kind = "Review" => ts[i].subject \in 1..(i - 1) /\ ts[ts[i].subject].kind = "Report"
  /\ Few(ts[i])

Rows(ts) == ts \in Seq(Task) /\ \A i \in 1..Len(ts) : Row(ts, i)

\* Task t as row i of the table.
Fits(ts, i, t) ==
  /\ t \in Task
  /\ IF t.kind = "Report" THEN t.user \in Executors ELSE t.user = Issuer
  /\ t.kind = "Review" => t.subject \in 1..(i - 1) /\ ts[t.subject].kind = "Report"
  /\ t.reminders = 0 /\ t.notices = 0

\* x has the tasks of ts, of which task i, if any, was ended by an action.
Moves(ts, x, i, action) ==
  /\ Len(ts) <= Len(x)
  /\ \A k \in 1..Len(ts) :
       /\ x[k].user = ts[k].user /\ x[k].kind = ts[k].kind /\ x[k].subject = ts[k].subject
       /\ x[k].status = IF k = i THEN "Completed" ELSE ts[k].status
       /\ x[k].action = IF k = i THEN action ELSE ts[k].action

\* And nobody was told of them.
Ends(ts, x, i, action) ==
  /\ Moves(ts, x, i, action)
  /\ \A k \in 1..Len(ts) : x[k].reminders = ts[k].reminders /\ x[k].notices = ts[k].notices

Adds(ts, x, t) == Len(x) = Len(ts) + 1 /\ x[Len(ts) + 1] = t

LEMMA EndRow ==
  ASSUME NEW ts, Rows(ts), NEW i \in 1..Len(ts), NEW action \in Actions
  PROVE  /\ Rows(End(ts, i, action)) /\ Ends(ts, End(ts, i, action), i, action)
         /\ Len(End(ts, i, action)) = Len(ts)
<1> DEFINE x == End(ts, i, action)
           row == [ts[i] EXCEPT !.status = "Completed", !.action = action]
<1>1. ts \in Seq(Task) /\ Len(ts) \in Nat /\ \A k \in 1..Len(ts) : ts[k] \in Task
  BY DEF Rows
<1>2. x = [ts EXCEPT ![i] = row]
  BY DEF End
<1>3. /\ row \in Task /\ row.status = "Completed" /\ row.action = action
      /\ row.user = ts[i].user /\ row.kind = ts[i].kind /\ row.subject = ts[i].subject
      /\ row.reminders = ts[i].reminders /\ row.notices = ts[i].notices
  BY <1>1 DEF Task, Actions
<1> HIDE DEF row, x
<1>4. x \in Seq(Task) /\ Len(x) = Len(ts) /\ \A k \in 1..Len(ts) : x[k] = IF k = i THEN row ELSE ts[k]
  BY <1>1, <1>2, <1>3
<1>5. Ends(ts, x, i, action)
  BY <1>1, <1>3, <1>4 DEF Ends, Moves
<1>6. ASSUME NEW k \in 1..Len(ts) PROVE Row(x, k)
  <2>1. ts[k].kind = "Review" => ts[k].subject \in 1..Len(ts)
    BY <1>1 DEF Rows, Row
  <2> QED BY <1>5, <2>1 DEF Rows, Row, Few, Ends, Moves
<1> QED
  BY <1>4, <1>5, <1>6 DEF Rows, x

LEMMA FitsRow == ASSUME NEW ts, NEW i \in Nat, NEW t, Fits(ts, i, t), ts[i] = t PROVE Row(ts, i)
BY DEF Fits, Row, Few, Task

LEMMA AppendRow ==
  ASSUME NEW ts, Rows(ts), NEW t, Fits(ts, Len(ts) + 1, t)
  PROVE  Rows(Append(ts, t)) /\ Adds(ts, Append(ts, t), t) /\ \A k \in 1..Len(ts) : Append(ts, t)[k] = ts[k]
<1> DEFINE x == Append(ts, t)
<1>1. /\ x \in Seq(Task) /\ Len(x) = Len(ts) + 1 /\ x[Len(ts) + 1] = t
      /\ \A k \in 1..Len(ts) : x[k] = ts[k]
  BY DEF Rows, Fits
<1> HIDE DEF x
<1>2. Len(ts) \in Nat
  BY DEF Rows
<1>3. ASSUME NEW k \in 1..Len(ts) PROVE Row(x, k)
  <2>1. ts[k].kind = "Review" => ts[k].subject \in 1..Len(ts)
    BY <1>2 DEF Rows, Row
  <2> QED BY <1>1, <2>1 DEF Rows, Row
<1>4. Row(x, Len(ts) + 1)
  BY <1>1, <1>2 DEF Fits, Row, Few
<1>5. \A k \in 1..Len(x) : Row(x, k)
  BY <1>1, <1>2, <1>3, <1>4
<1> QED
  BY <1>1, <1>5 DEF Rows, Adds, x

\* A task ended and another one added.
LEMMA EndAppend ==
  ASSUME NEW ts, Rows(ts), NEW i \in 1..Len(ts), NEW action \in Actions,
         NEW t, Fits(ts, Len(ts) + 1, t)
  PROVE  LET x == Append(End(ts, i, action), t)
         IN Rows(x) /\ Ends(ts, x, i, action) /\ Adds(ts, x, t)
<1> DEFINE y == End(ts, i, action)
           x == Append(y, t)
<1>1. Rows(y) /\ Ends(ts, y, i, action) /\ Len(y) = Len(ts)
  BY EndRow
<1> HIDE DEF y
<1>2. Len(ts) \in Nat /\ ts \in Seq(Task)
  BY DEF Rows
<1>3. t.kind = "Review" => y[t.subject].kind = ts[t.subject].kind
  <2>1. ASSUME t.kind = "Review" PROVE t.subject \in 1..Len(ts)
    BY <1>2, <2>1 DEF Fits
  <2>2. \A k \in 1..Len(ts) : y[k].kind = ts[k].kind
    BY <1>1, <1>2 DEF Ends, Moves, Task
  <2> QED BY <2>1, <2>2
<1>4. Fits(y, Len(y) + 1, t)
  BY <1>1, <1>3 DEF Fits
<1>5. Rows(x) /\ Adds(y, x, t) /\ \A k \in 1..Len(y) : x[k] = y[k]
  BY <1>1, <1>4, AppendRow
<1> HIDE DEF x
<1>6. Rows(x) /\ Ends(ts, x, i, action) /\ Adds(ts, x, t)
  BY <1>1, <1>2, <1>5 DEF Ends, Moves, Adds
<1> QED
  BY <1>6 DEF x, y

\* A task ended, and nothing added; one added, and nothing ended; nothing at all.
LEMMA EndsNone ==
  ASSUME NEW ts, Rows(ts), NEW action
  PROVE  /\ Ends(ts, ts, 0, action)
         /\ \A t : Fits(ts, Len(ts) + 1, t)
              => LET x == Append(ts, t) IN Rows(x) /\ Ends(ts, x, 0, action) /\ Adds(ts, x, t)
<1>1. Len(ts) \in Nat
  BY DEF Rows
<1>2. ASSUME NEW t, Fits(ts, Len(ts) + 1, t)
      PROVE  LET x == Append(ts, t) IN Rows(x) /\ Ends(ts, x, 0, action) /\ Adds(ts, x, t)
  <2> DEFINE x == Append(ts, t)
  <2>1. Rows(x) /\ Adds(ts, x, t) /\ \A k \in 1..Len(ts) : x[k] = ts[k]
    BY <1>2, AppendRow
  <2> HIDE DEF x
  <2>2. Rows(x) /\ Ends(ts, x, 0, action) /\ Adds(ts, x, t)
    BY <1>1, <2>1 DEF Ends, Moves, Adds
  <2> QED BY <2>2 DEF x
<1> QED
  BY <1>1, <1>2 DEF Ends, Moves

-----------------------------------------------------------------------------
(* What the calls do.                                                      *)

\* Task i is a duty of u to report.
Owes(ts, i, u) == ts[i].user = u /\ ts[i].kind = "Report" /\ ts[i].status = "Open"

\* Task j is a review, still open, of report i.
Asks(ts, j, i) == ts[j].kind = "Review" /\ ts[j].status = "Open" /\ ts[j].subject = i

Closes(ts, i) == ts[i].kind = "Close" /\ ts[i].status = "Open"

Grown(old, ts) ==
  /\ Len(old) <= Len(ts)
  /\ \A i \in 1..Len(old) : ts[i].user = old[i].user /\ ts[i].kind = old[i].kind /\ ts[i].subject = old[i].subject

LEMMA CallTypes ==
  ASSUME NEW call \in Calls
  PROVE  /\ call.op = "save" => call.form \in Drafts /\ call.version \in Nat
         /\ call.op \in {"save", "issue", "close", "review"} => call.user = Issuer
         /\ call.op \in {"start", "report", "progress"} => call.user \in Executors
         /\ call.op = "transfer" => call.user \in Executors \cup {Issuer} /\ call.from \in Executors /\ call.to \in Executors
         /\ call.op \in {"remind", "overdue"} <=> call.user = Scheduler
         /\ call.user \in Executors \cup {Issuer, Scheduler}
BY DirectiveTypes DEF Calls, DirectiveTypes

\* The open tasks of a user.
LEMMA Places ==
  ASSUME NEW ts, Rows(ts), NEW u, NEW kind
  PROVE  \A i : i \in OpenAmong(ts, u, kind)
                  <=> i \in 1..Len(ts) /\ ts[i].user = u /\ ts[i].kind = kind /\ ts[i].status = "Open"
<1>1. DOMAIN ts = 1..Len(ts)
  BY DEF Rows
<1> QED
  BY <1>1 DEF OpenAmong

LEMMA WrittenRows == \A d, ts : Written(d, ts).doc = d /\ Written(d, ts).tasks = ts
BY DEF Written

\* A state written.
LEMMA PutState ==
  ASSUME NEW d \in Doc, NEW u \in Executors, NEW state \in States
  PROVE  /\ Put(d, u, state) \in Doc
         /\ Put(d, u, state).status = d.status /\ Put(d, u, state).version = d.version
         /\ Put(d, u, state).reminder = d.reminder
         /\ Put(d, u, state).states[u] = state
         /\ \A v \in Executors : v # u => Put(d, u, state).states[v] = d.states[v]
BY DEF Put, Doc

\* Duties as rows.
IsDuty(t, u, kind, subject) ==
  t.user = u /\ t.kind = kind /\ t.subject = subject /\ t.status = "Open" /\ t.action = "none"

LEMMA ReportDuty ==
  ASSUME NEW d \in Doc, NEW u \in Executors, NEW ts, NEW i
  PROVE  Fits(ts, i, Duty(d, u, "Report", 0)) /\ IsDuty(Duty(d, u, "Report", 0), u, "Report", 0)
<1>1. 0 \in 0..MaxTasks
  BY DirectiveTypes DEF DirectiveTypes
<1> QED
  BY <1>1 DEF Duty, Fits, IsDuty, Doc, Task

LEMMA ReviewDuty ==
  ASSUME NEW d \in Doc, NEW ts, NEW i \in Nat, NEW subject \in 1..(i - 1), subject <= MaxTasks,
         ts[subject].kind = "Report"
  PROVE  Fits(ts, i, Duty(d, Issuer, "Review", subject)) /\ IsDuty(Duty(d, Issuer, "Review", subject), Issuer, "Review", subject)
<1>1. subject \in 0..MaxTasks
  BY DirectiveTypes DEF DirectiveTypes
<1> QED
  BY <1>1 DEF Duty, Fits, IsDuty, Doc, Task

LEMMA CloseDuty ==
  ASSUME NEW d \in Doc, NEW ts, NEW i
  PROVE  Fits(ts, i, Duty(d, Issuer, "Close", 0)) /\ IsDuty(Duty(d, Issuer, "Close", 0), Issuer, "Close", 0)
<1>1. 0 \in 0..MaxTasks
  BY DirectiveTypes DEF DirectiveTypes
<1> QED
  BY <1>1 DEF Duty, Fits, IsDuty, Doc, Task

\* A draft keeps the tasks and makes a new version of the directive.
LEMMA SaveDoes ==
  ASSUME NEW call \in Calls, call.op = "save", NEW d \in Doc, NEW ts, NEW seen, call.version < MaxVersion,
         d.status = "none" => d.version = 0, NEW r \in SaveDraft(call, d, ts, seen)
  PROVE  /\ d.status \in {"none", "Draft"} /\ r.tasks = ts
         /\ r.doc \in Doc /\ r.doc.status = "Draft" /\ r.doc.version <= MaxVersion
         /\ \A u \in Executors : r.doc.states[u] \in {"none", "Pending"}
<1>1. /\ call.form \in [users : SUBSET Executors, primary : Executors \cup {Nobody},
                         reminder : BOOLEAN, mayPass : BOOLEAN]
      /\ call.version \in Nat /\ MaxVersion \in Nat
  BY CallTypes, DirectiveTypes DEF DirectiveTypes
<1>2. /\ r = Written([status |-> "Draft", version |-> d.version + 1, primary |-> call.form.primary,
                      reminder |-> call.form.reminder, mayPass |-> call.form.mayPass,
                      states |-> [u \in Executors |-> IF u \in call.form.users THEN "Pending" ELSE "none"]], ts)
      /\ d.status = "none" \/ (d.status = "Draft" /\ call.version = d.version)
  BY DEF SaveDraft
<1>3. d.version + 1 \in 0..(MaxVersion + 1) /\ d.version + 1 <= MaxVersion
  BY <1>1, <1>2 DEF Doc
<1> QED
  BY <1>1, <1>2, <1>3 DEF Written, Doc, States, Working

Starts(call, d, ts, r) ==
  /\ call.user \in Executors /\ MayStart(d, call.user)
  /\ r.doc = Put(d, call.user, "In Progress") /\ r.tasks = ts

LEMMA StartDoes ==
  ASSUME NEW call \in Calls, call.op = "start", NEW d, NEW ts, NEW seen, NEW r \in Start(call, d, ts, seen)
  PROVE  Starts(call, d, ts, r)
<1>1. MayStart(d, call.user) /\ r = Written(Put(d, call.user, "In Progress"), ts)
  BY DEF Start
<1>2. call.user \in Executors
  BY CallTypes
<1>3. r.doc = Put(d, call.user, "In Progress") /\ r.tasks = ts
  BY <1>1, WrittenRows
<1> QED
  BY <1>1, <1>2, <1>3 DEF Starts

Short(ts) == Len(ts) <= MaxTasks

\* A report ends task i and adds t, which asks the issuer to review it.
Sends(call, d, ts, old, r, i, t) ==
  /\ i \in 1..Len(old) /\ call.user \in Executors
  /\ Owes(old, i, call.user) /\ MayReport(d, call.user) /\ i \in 1..Len(ts)
  /\ r.doc = Put(d, call.user, "Awaiting Review")
  /\ Rows(r.tasks) /\ Ends(ts, r.tasks, i, "Report") /\ Adds(ts, r.tasks, t)
  /\ IsDuty(t, Issuer, "Review", i)

LEMMA ReportDoes ==
  ASSUME NEW call \in Calls, call.op = "report", NEW d \in Doc, NEW ts, Rows(ts), Short(ts),
         NEW old, Rows(old), Grown(old, ts), NEW seen, seen.tasks = old,
         NEW r \in Report(call, d, ts, seen)
  PROVE  \E i, t : Sends(call, d, ts, old, r, i, t)
<1>1. PICK i \in OpenAmong(old, call.user, "Report") :
        /\ MayReport(d, call.user)
        /\ r = Written(Put(d, call.user, "Awaiting Review"),
                       Append(End(ts, i, "Report"), Duty(d, Issuer, "Review", i)))
  BY DEF Report
<1>2. i \in 1..Len(old) /\ Owes(old, i, call.user)
  BY Places DEF Owes
<1>3. i \in 1..Len(ts) /\ ts[i].kind = "Report" /\ Len(ts) \in Nat /\ i \in 0..MaxTasks
  BY <1>2, DirectiveTypes DEF DirectiveTypes, Rows, Grown, Owes, Short
<1> DEFINE t == Duty(d, Issuer, "Review", i)
<1>4. Fits(ts, Len(ts) + 1, t) /\ IsDuty(t, Issuer, "Review", i)
  <2>1. Len(ts) + 1 \in Nat /\ i \in 1..((Len(ts) + 1) - 1) /\ i <= MaxTasks
    BY <1>3
  <2> QED BY <1>3, <2>1, ReviewDuty
<1> HIDE DEF t
<1>5. r.doc = Put(d, call.user, "Awaiting Review") /\ r.tasks = Append(End(ts, i, "Report"), t)
  BY <1>1, WrittenRows DEF t
<1>6. Rows(r.tasks) /\ Ends(ts, r.tasks, i, "Report") /\ Adds(ts, r.tasks, t)
  BY <1>3, <1>4, <1>5, EndAppend DEF Actions
<1>7. call.user \in Executors
  BY CallTypes
<1>8. Sends(call, d, ts, old, r, i, t)
  BY <1>1, <1>2, <1>3, <1>4, <1>5, <1>6, <1>7 DEF Sends
<1> QED
  BY <1>8

\* A note of progress is added as a task that is done.
Notes(call, d, ts, r, t) ==
  /\ call.user \in Executors /\ MayReport(d, call.user)
  /\ r.doc \in {d, Put(d, call.user, "In Progress")}
  /\ Rows(r.tasks) /\ Ends(ts, r.tasks, 0, "none") /\ Adds(ts, r.tasks, t)
  /\ t.kind = "Report" /\ t.status = "Completed" /\ t.action = "Progress"

LEMMA ProgressDoes ==
  ASSUME NEW call \in Calls, call.op = "progress", NEW d \in Doc, NEW ts, Rows(ts), NEW seen,
         NEW r \in Progress(call, d, ts, seen)
  PROVE  \E t : Notes(call, d, ts, r, t)
<1> DEFINE t == [Duty(d, call.user, "Report", 0) EXCEPT !.status = "Completed", !.action = "Progress", !.remind = FALSE]
<1>1. call.user \in Executors /\ Len(ts) \in Nat /\ 0 \in 0..MaxTasks
  BY CallTypes, DirectiveTypes DEF Rows, DirectiveTypes
<1>2. /\ MayReport(d, call.user) /\ r.tasks = Append(ts, t)
      /\ r.doc \in {d, Put(d, call.user, "In Progress")}
  <2>1. /\ MayReport(d, call.user)
        /\ r = Written(IF d.states[call.user] = "Pending" THEN Put(d, call.user, "In Progress") ELSE d, Append(ts, t))
    BY DEF Progress
  <2> QED BY <2>1, WrittenRows
<1>3. Fits(ts, Len(ts) + 1, t) /\ t.kind = "Report" /\ t.status = "Completed" /\ t.action = "Progress"
  BY <1>1 DEF Duty, Fits, Doc, Task
<1> HIDE DEF t
<1>4. Rows(r.tasks) /\ Ends(ts, r.tasks, 0, "none") /\ Adds(ts, r.tasks, t)
  BY <1>2, <1>3, EndsNone
<1>5. Notes(call, d, ts, r, t)
  BY <1>1, <1>2, <1>3, <1>4 DEF Notes
<1> QED
  BY <1>5

\* A review ends by its decision; what it adds follows from the states.
Decides(call, d, ts, old, r, j, i, u) ==
  LET decided == Put(d, u, IF call.approve THEN "Approved" ELSE "Returned")
  IN /\ j \in 1..Len(old) /\ i \in 1..Len(old) /\ u \in Executors
     /\ Asks(old, j, i) /\ old[i].user = u /\ j \in 1..Len(ts)
     /\ d.status = "Sent" /\ d.states[u] = "Awaiting Review"
     /\ r.doc = decided
     /\ Rows(r.tasks) /\ Ends(ts, r.tasks, j, IF call.approve THEN "Approve" ELSE "Return")
     /\ IF call.approve /\ ~AllApproved(decided) THEN Len(r.tasks) = Len(ts)
        ELSE \E t : /\ Adds(ts, r.tasks, t)
                    /\ IF call.approve THEN IsDuty(t, Issuer, "Close", 0) ELSE IsDuty(t, u, "Report", 0)

LEMMA ReviewDoes ==
  ASSUME NEW call \in Calls, call.op = "review", NEW d \in Doc, NEW ts, Rows(ts),
         NEW old, Rows(old), Grown(old, ts), NEW seen, seen.tasks = old,
         NEW r \in Review(call, d, ts, seen)
  PROVE  \E j, i, u : Decides(call, d, ts, old, r, j, i, u)
<1> DEFINE i == call.report
           u == old[i].user
           decided == Put(d, u, IF call.approve THEN "Approved" ELSE "Returned")
           action == IF call.approve THEN "Approve" ELSE "Return"
<1>1. PICK j \in ReviewsOf(old, i) :
        /\ d.status = "Sent" /\ d.states[u] = "Awaiting Review"
        /\ r = Written(decided, CASE ~call.approve -> Append(End(ts, j, action), Duty(decided, u, "Report", 0))
                                  [] call.approve /\ AllApproved(decided) -> Append(End(ts, j, action), Duty(d, Issuer, "Close", 0))
                                  [] OTHER -> End(ts, j, action))
  BY DEF Review
<1>2. j \in 1..Len(old) /\ Asks(old, j, i) /\ call.approve \in BOOLEAN
  <2>1. j \in OpenAmong(old, Issuer, "Review") /\ old[j].subject = i
    BY DEF ReviewsOf
  <2>2. call.approve \in BOOLEAN
    BY DEF Calls
  <2> QED BY <2>1, <2>2, Places DEF Asks
<1>3. i \in 1..Len(old) /\ u \in Executors
  <2>1. i \in 1..(j - 1) /\ old[i].kind = "Report" /\ Len(old) \in Nat
    BY <1>2 DEF Asks, Rows, Row
  <2>2. i \in 1..Len(old)
    BY <1>2, <2>1
  <2> QED BY <2>1, <2>2 DEF Rows, Row
<1>4. j \in 1..Len(ts) /\ Len(ts) \in Nat
  BY <1>2 DEF Grown, Rows
<1>5. action \in Actions /\ decided \in Doc
  <2>1. (IF call.approve THEN "Approved" ELSE "Returned") \in States
    BY DEF States, Working
  <2>2. u \in Executors
    BY <1>3
  <2> HIDE DEF u
  <2>3. decided \in Doc
    BY <2>1, <2>2, PutState
  <2> QED BY <2>3 DEF Actions
<1> HIDE DEF i, u, decided, action
<1>6. CASE ~call.approve
  <2>1. r.doc = decided /\ r.tasks = Append(End(ts, j, action), Duty(decided, u, "Report", 0))
    BY <1>1, <1>6, WrittenRows
  <2>2. Fits(ts, Len(ts) + 1, Duty(decided, u, "Report", 0)) /\ IsDuty(Duty(decided, u, "Report", 0), u, "Report", 0)
    BY <1>3, <1>5, ReportDuty
  <2>3. Rows(r.tasks) /\ Ends(ts, r.tasks, j, action) /\ Adds(ts, r.tasks, Duty(decided, u, "Report", 0))
    BY <1>4, <1>5, <2>1, <2>2, EndAppend
  <2>4. Decides(call, d, ts, old, r, j, i, u)
    BY <1>1, <1>2, <1>3, <1>4, <1>6, <2>1, <2>2, <2>3 DEF Decides, u, decided, action
  <2> QED BY <2>4
<1>7. CASE call.approve /\ AllApproved(decided)
  <2>1. r.doc = decided /\ r.tasks = Append(End(ts, j, action), Duty(d, Issuer, "Close", 0))
    BY <1>1, <1>7, WrittenRows
  <2>2. Fits(ts, Len(ts) + 1, Duty(d, Issuer, "Close", 0)) /\ IsDuty(Duty(d, Issuer, "Close", 0), Issuer, "Close", 0)
    BY CloseDuty
  <2>3. Rows(r.tasks) /\ Ends(ts, r.tasks, j, action) /\ Adds(ts, r.tasks, Duty(d, Issuer, "Close", 0))
    BY <1>4, <1>5, <2>1, <2>2, EndAppend
  <2>4. Decides(call, d, ts, old, r, j, i, u)
    BY <1>1, <1>2, <1>3, <1>4, <1>7, <2>1, <2>2, <2>3 DEF Decides, u, decided, action
  <2> QED BY <2>4
<1>8. CASE call.approve /\ ~AllApproved(decided)
  <2>1. r.doc = decided /\ r.tasks = End(ts, j, action)
    BY <1>1, <1>8, WrittenRows
  <2>2. Rows(r.tasks) /\ Ends(ts, r.tasks, j, action) /\ Len(r.tasks) = Len(ts)
    BY <1>4, <1>5, <2>1, EndRow
  <2>4. Decides(call, d, ts, old, r, j, i, u)
    BY <1>1, <1>2, <1>3, <1>4, <1>8, <2>1, <2>2 DEF Decides, u, decided, action
  <2> QED BY <2>4
<1> QED
  BY <1>2, <1>6, <1>7, <1>8

\* Call r passes the duty of task i on by adding task t.
PassesOn(call, d, ts, old, r, i, t, from, to) ==
  /\ i \in 1..Len(old) /\ from \in Executors /\ to \in Executors
  /\ call.user = from \/ call.user = Issuer
  /\ Owes(old, i, from) /\ i \in 1..Len(ts)
  /\ d.status = "Sent" /\ d.states[from] \in Working /\ d.states[to] = "none"
  /\ r.doc \in Doc /\ r.doc.status = "Sent" /\ r.doc.version = d.version
  /\ r.doc.states[from] = "Transferred" /\ r.doc.states[to] = "Pending"
  /\ \A u \in Executors : u # from /\ u # to => r.doc.states[u] = d.states[u]
  /\ Rows(r.tasks) /\ Ends(ts, r.tasks, i, "Transferred") /\ Adds(ts, r.tasks, t)
  /\ IsDuty(t, to, "Report", 0)

LEMMA TransferDoes ==
  ASSUME NEW call \in Calls, call.op = "transfer", NEW d \in Doc, NEW ts, Rows(ts),
         NEW old, Rows(old), Grown(old, ts), NEW seen, seen.tasks = old,
         NEW r \in Transfer(call, d, ts, seen)
  PROVE  \E i, t, from, to : PassesOn(call, d, ts, old, r, i, t, from, to)
<1> DEFINE from == IF call.user = Issuer THEN call.from ELSE call.user
           to == call.to
           moved == Put(Put(d, from, "Transferred"), to, "Pending")
           passed == [moved EXCEPT !.primary = IF @ = from THEN to ELSE @]
<1>1. PICK i \in OpenAmong(old, from, "Report") :
        /\ MayTransfer(d, call.user) /\ d.states[from] \in Working /\ d.states[to] = "none"
        /\ r = Written(passed, Append(End(ts, i, "Transferred"), Duty(passed, to, "Report", 0)))
  BY DEF Transfer
<1>2. from \in Executors /\ to \in Executors /\ (call.user = from \/ call.user = Issuer)
  BY CallTypes
<1>3. /\ moved \in Doc /\ moved.status = d.status /\ moved.version = d.version
      /\ moved.states[from] = "Transferred" /\ moved.states[to] = "Pending"
      /\ \A u \in Executors : u # from /\ u # to => moved.states[u] = d.states[u]
  <2> DEFINE left == Put(d, from, "Transferred")
  <2>1. /\ left \in Doc /\ left.status = d.status /\ left.version = d.version
        /\ left.states[from] = "Transferred"
        /\ \A u \in Executors : u # from => left.states[u] = d.states[u]
    <3>1. "Transferred" \in States
      BY DEF States
    <3> HIDE DEF from
    <3> QED BY <1>2, <3>1, PutState
  <2> HIDE DEF left, from, to
  <2>2. from # to
    BY <1>1 DEF Working
  <2>3. "Pending" \in States
    BY DEF States, Working
  <2>4. /\ Put(left, to, "Pending") \in Doc
        /\ Put(left, to, "Pending").status = left.status /\ Put(left, to, "Pending").version = left.version
        /\ Put(left, to, "Pending").states[to] = "Pending"
        /\ \A u \in Executors : u # to => Put(left, to, "Pending").states[u] = left.states[u]
    BY <1>2, <2>1, <2>3, PutState
  <2>5. moved = Put(left, to, "Pending")
    BY DEF left
  <2> HIDE DEF moved
  <2> QED BY <1>2, <2>1, <2>2, <2>4, <2>5
<1> HIDE DEF moved, from, to
<1>4. passed \in Doc /\ passed.status = moved.status /\ passed.version = moved.version /\ passed.states = moved.states
  BY <1>2, <1>3 DEF Doc
<1> HIDE DEF passed
<1>5. i \in 1..Len(old) /\ Owes(old, i, from)
  BY <1>1, Places DEF Owes
<1>6. i \in 1..Len(ts)
  BY <1>5 DEF Grown, Rows
<1> DEFINE t == Duty(passed, to, "Report", 0)
<1>7. Fits(ts, Len(ts) + 1, t) /\ IsDuty(t, to, "Report", 0)
  BY <1>2, <1>4, ReportDuty
<1> HIDE DEF t
<1>8. r.doc = passed /\ r.tasks = Append(End(ts, i, "Transferred"), t)
  BY <1>1, WrittenRows DEF t
<1>9. Rows(r.tasks) /\ Ends(ts, r.tasks, i, "Transferred") /\ Adds(ts, r.tasks, t)
  BY <1>6, <1>7, <1>8, EndAppend DEF Actions
<1>10. d.status = "Sent"
  BY <1>1 DEF MayTransfer
<1>11. /\ r.doc \in Doc /\ r.doc.status = "Sent" /\ r.doc.version = d.version
       /\ r.doc.states[from] = "Transferred" /\ r.doc.states[to] = "Pending"
       /\ \A u \in Executors : u # from /\ u # to => r.doc.states[u] = d.states[u]
  BY <1>3, <1>4, <1>8, <1>10
<1>12. PassesOn(call, d, ts, old, r, i, t, from, to)
  BY <1>1, <1>2, <1>5, <1>6, <1>7, <1>9, <1>10, <1>11 DEF PassesOn
<1> QED
  BY <1>12

\* The directive is closed by its last task i.
Ceases(d, ts, old, r, i) ==
  /\ i \in 1..Len(old) /\ old[i].kind = "Close" /\ old[i].status = "Open" /\ i \in 1..Len(ts)
  /\ \A k \in 1..Len(old) : old[k].status = "Open" => old[k].kind = "Close"
  /\ d.status = "Sent" /\ AllApproved(d)
  /\ r.doc = [d EXCEPT !.status = "Closed"]
  /\ Rows(r.tasks) /\ Ends(ts, r.tasks, i, "Close") /\ Len(r.tasks) = Len(ts)

LEMMA CloseDoes ==
  ASSUME NEW call, NEW d \in Doc, NEW ts, Rows(ts),
         NEW old, Rows(old), Grown(old, ts), NEW seen, seen.tasks = old,
         NEW r \in Close(call, d, ts, seen)
  PROVE  \E i : Ceases(d, ts, old, r, i)
<1>1. PICK i \in OpenAmong(old, Issuer, "Close") :
        MayClose(d, old) /\ r = Written([d EXCEPT !.status = "Closed"], End(ts, i, "Close"))
  BY DEF Close
<1>2. i \in 1..Len(old) /\ old[i].kind = "Close" /\ old[i].status = "Open"
  BY Places
<1>3. i \in 1..Len(ts)
  BY <1>2 DEF Grown, Rows
<1>4. r.doc = [d EXCEPT !.status = "Closed"] /\ r.tasks = End(ts, i, "Close")
  BY <1>1, WrittenRows
<1>5. Rows(r.tasks) /\ Ends(ts, r.tasks, i, "Close") /\ Len(r.tasks) = Len(ts)
  <2>1. "Close" \in Actions
    BY DEF Actions
  <2> QED BY <1>3, <1>4, <2>1, EndRow
<1>6. d.status = "Sent" /\ AllApproved(d) /\ \A k \in 1..Len(old) : old[k].status = "Open" => old[k].kind = "Close"
  <2>1. DOMAIN old = 1..Len(old)
    BY DEF Rows
  <2> QED BY <1>1, <2>1 DEF MayClose
<1>7. Ceases(d, ts, old, r, i)
  BY <1>2, <1>3, <1>4, <1>5, <1>6 DEF Ceases
<1> QED
  BY <1>7

\* Somebody is told of an open task of a directive at most once.
Notified(d, ts, x) ==
  \A i \in 1..Len(ts) :
    x[i].reminders + x[i].notices # ts[i].reminders + ts[i].notices =>
      /\ ts[i].status = "Open" /\ d.status = "Sent"
      /\ x[i].reminders <= 1 /\ x[i].notices <= 1

\* t is the task old, or the one notification of it.
Told(d, old, t) ==
  \/ t = old
  \/ /\ old.status = "Open" /\ d.status = "Sent"
     /\ \/ t = [old EXCEPT !.reminders = @ + 1] /\ old.reminders = 0
        \/ t = [old EXCEPT !.notices = @ + 1] /\ old.notices = 0

Alike(d, old, t) ==
  /\ t \in Task /\ t.user = old.user /\ t.kind = old.kind /\ t.subject = old.subject
  /\ t.status = old.status /\ t.action = old.action /\ Few(t)
  /\ t = old \/ (old.status = "Open" /\ d.status = "Sent")

LEMMA Counted ==
  ASSUME NEW old \in Task
  PROVE  /\ LET t == [old EXCEPT !.reminders = 1]
            IN /\ t \in Task /\ t.user = old.user /\ t.kind = old.kind /\ t.subject = old.subject
               /\ t.status = old.status /\ t.action = old.action /\ t.reminders = 1 /\ t.notices = old.notices
         /\ LET t == [old EXCEPT !.notices = 1]
            IN /\ t \in Task /\ t.user = old.user /\ t.kind = old.kind /\ t.subject = old.subject
               /\ t.status = old.status /\ t.action = old.action /\ t.reminders = old.reminders /\ t.notices = 1
BY DEF Task

LEMMA ToldTask ==
  ASSUME NEW d, NEW old \in Task, Few(old), NEW t, Told(d, old, t)
  PROVE  Alike(d, old, t)
<1>1. CASE t = old
  BY <1>1 DEF Alike
<1>2. CASE /\ old.status = "Open" /\ d.status = "Sent"
           /\ t = [old EXCEPT !.reminders = @ + 1] /\ old.reminders = 0
  <2>1. t = [old EXCEPT !.reminders = 1]
    BY <1>2
  <2> QED BY ZenonT(40), <1>2, <2>1, Counted DEF Few, Alike
<1>3. CASE /\ old.status = "Open" /\ d.status = "Sent"
           /\ t = [old EXCEPT !.notices = @ + 1] /\ old.notices = 0
  <2>1. t = [old EXCEPT !.notices = 1]
    BY <1>3
  <2> QED BY <1>3, <2>1, Counted DEF Few, Alike
<1> QED
  BY <1>1, <1>2, <1>3 DEF Told

\* x is a function with a row for each of ts.
Columns(ts, x) == DOMAIN x = DOMAIN ts /\ x = [i \in DOMAIN x |-> x[i]]

LEMMA Counts ==
  ASSUME NEW d, NEW ts, Rows(ts), NEW x, Columns(ts, x),
         \A i \in 1..Len(ts) : Told(d, ts[i], x[i])
  PROVE  Rows(x) /\ Len(x) = Len(ts) /\ Moves(ts, x, 0, "none") /\ Notified(d, ts, x)
<1>1. ts \in Seq(Task) /\ DOMAIN ts = 1..Len(ts) /\ Len(ts) \in Nat
  BY DEF Rows
<1>2. \A i \in 1..Len(ts) : Alike(d, ts[i], x[i])
  BY ToldTask DEF Rows, Row
<1>3. x \in [1..Len(ts) -> Task]
  BY <1>1, <1>2 DEF Columns, Alike
<1>4. x \in Seq(Task) /\ Len(x) = Len(ts)
  BY <1>1, <1>3
<1>5. Moves(ts, x, 0, "none")
  <2>1. ASSUME NEW k \in 1..Len(ts)
        PROVE  /\ x[k].user = ts[k].user /\ x[k].kind = ts[k].kind /\ x[k].subject = ts[k].subject
               /\ x[k].status = ts[k].status /\ x[k].action = ts[k].action /\ k # 0
    BY <1>2 DEF Alike
  <2>2. Len(ts) <= Len(x)
    BY <1>1, <1>4
  <2> QED BY <2>1, <2>2 DEF Moves
<1>6. Notified(d, ts, x)
  BY <1>2 DEF Notified, Few, Alike
<1>7. ASSUME NEW k \in 1..Len(ts) PROVE Row(x, k)
  <2>1. ts[k].kind = "Review" => ts[k].subject \in 1..Len(ts)
    BY <1>1 DEF Rows, Row
  <2> QED BY <1>2, <2>1 DEF Rows, Row, Alike
<1> QED
  BY <1>4, <1>5, <1>6, <1>7 DEF Rows

\* The jobs do no more than tell somebody of tasks.
Tells(d, ts, r) ==
  /\ r.doc = d /\ Rows(r.tasks) /\ Len(r.tasks) = Len(ts)
  /\ Moves(ts, r.tasks, 0, "none") /\ Notified(d, ts, r.tasks)

LEMMA RemindDoes ==
  ASSUME NEW call, NEW d, NEW ts, Rows(ts), NEW seen,
         NEW r \in Remind(call, d, ts, seen) \cup NotifyOverdue(call, d, ts, seen)
  PROVE  Tells(d, ts, r)
<1>1. DOMAIN ts = 1..Len(ts)
  BY DEF Rows
<1>2. CASE r \in Remind(call, d, ts, seen)
  <2> DEFINE due(i) == i \in DOMAIN seen.tasks /\ Remindable(seen.tasks[i]) /\ Remindable(ts[i]) /\ d.status = "Sent"
             x == [i \in DOMAIN ts |-> IF due(i) THEN [ts[i] EXCEPT !.reminders = @ + 1] ELSE ts[i]]
  <2>1. r.doc = d /\ r.tasks = x
    BY <1>2, WrittenRows DEF Remind
  <2>2. \A i \in 1..Len(ts) : due(i) => ts[i].status = "Open" /\ ts[i].reminders = 0 /\ d.status = "Sent"
    BY DEF Remindable
  <2> HIDE DEF due
  <2>3. Columns(ts, x)
    BY DEF Columns
  <2>4. \A i \in 1..Len(ts) : x[i] = IF due(i) THEN [ts[i] EXCEPT !.reminders = @ + 1] ELSE ts[i]
    BY <1>1
  <2> HIDE DEF x
  <2>5. \A i \in 1..Len(ts) : Told(d, ts[i], x[i])
    BY <2>2, <2>4 DEF Told
  <2> QED BY <2>1, <2>3, <2>5, Counts DEF Tells
<1>3. CASE r \in NotifyOverdue(call, d, ts, seen)
  <2> DEFINE due(i) == i \in DOMAIN seen.tasks /\ Overdue(seen.tasks[i]) /\ Overdue(ts[i]) /\ d.status = "Sent"
             x == [i \in DOMAIN ts |-> IF due(i) THEN [ts[i] EXCEPT !.notices = @ + 1] ELSE ts[i]]
  <2>1. r.doc = d /\ r.tasks = x
    BY <1>3, WrittenRows DEF NotifyOverdue
  <2>2. \A i \in 1..Len(ts) : due(i) => ts[i].status = "Open" /\ ts[i].notices = 0 /\ d.status = "Sent"
    BY DEF Overdue
  <2> HIDE DEF due
  <2>3. Columns(ts, x)
    BY DEF Columns
  <2>4. \A i \in 1..Len(ts) : x[i] = IF due(i) THEN [ts[i] EXCEPT !.notices = @ + 1] ELSE ts[i]
    BY <1>1
  <2> HIDE DEF x
  <2>5. \A i \in 1..Len(ts) : Told(d, ts[i], x[i])
    BY <2>2, <2>4 DEF Told
  <2> QED BY <2>1, <2>3, <2>5, Counts DEF Tells
<1> QED
  BY <1>2, <1>3

\* The executors of a draft in a sequence.
LEMMA Sequenced ==
  ASSUME NEW S, S \subseteq Executors
  PROVE  /\ Cardinality(S) \in Nat /\ SetToSeq(S) \in [1..Cardinality(S) -> S]
         /\ \A i, k \in 1..Cardinality(S) : SetToSeq(S)[i] = SetToSeq(S)[k] => i = k
         /\ \A u \in S : \E i \in 1..Cardinality(S) : SetToSeq(S)[i] = u
<1> DEFINE n == Cardinality(S)
           f == SetToSeq(S)
<1>1. IsFiniteSet(S) /\ n \in Nat /\ ExistsBijection(1..n, S)
  BY DirectiveTypes, FS_Subset, FS_CardinalityType DEF DirectiveTypes
<1>2. f \in [1..n -> S] /\ IsInjective(f)
  <2>1. \E g \in [1..n -> S] : IsInjective(g)
    BY <1>1 DEF ExistsBijection, Bijection, Injection
  <2> QED BY <2>1 DEF SetToSeq
<1>3. \A i, k \in 1..n : f[i] = f[k] => i = k
  BY <1>2 DEF IsInjective
<1> DEFINE T == {f[i] : i \in 1..n}
<1>4. T \in SUBSET S
  BY <1>2
<1>5. f \in Bijection(1..n, T)
  <2> HIDE DEF f
  <2>1. f \in [1..n -> T]
    BY <1>2
  <2> QED BY <1>3, <2>1 DEF Bijection, Injection, Surjection, IsInjective
<1>6. Cardinality(T) = n
  BY <1>1, <1>5, FS_CountingElements DEF ExistsBijection
<1>7. S = T
  BY <1>1, <1>4, <1>6, FS_Subset
<1> QED
  BY <1>1, <1>2, <1>3, <1>7

\* Issuing opens one duty for each executor of the draft.
Opens(d, r) ==
  /\ d.status = "Draft" /\ Active(d) # {}
  /\ r.doc \in Doc /\ r.doc.status = "Sent" /\ r.doc.states = d.states
  /\ Rows(r.tasks)
  /\ \A i \in 1..Len(r.tasks) : IsDuty(r.tasks[i], r.tasks[i].user, "Report", 0) /\ r.tasks[i].user \in Active(d)
  /\ \A i, k \in 1..Len(r.tasks) : r.tasks[i].user = r.tasks[k].user => i = k
  /\ \A u \in Active(d) : \E i \in 1..Len(r.tasks) : r.tasks[i].user = u

LEMMA IssueDoes ==
  ASSUME NEW call, NEW d \in Doc, d.version <= MaxVersion, NEW ts, NEW seen, NEW r \in Issue(call, d, ts, seen)
  PROVE  Opens(d, r)
<1> DEFINE n == Cardinality(Active(d))
           f == SetToSeq(Active(d))
           x == [i \in 1..n |-> Duty(d, f[i], "Report", 0)]
<1>1. /\ d.status = "Draft" /\ d.primary \in Active(d)
      /\ r = Written([d EXCEPT !.status = "Sent", !.version = @ + 1], x)
  BY DEF Issue
<1>2. r.doc = [d EXCEPT !.status = "Sent", !.version = @ + 1] /\ r.tasks = x
  BY <1>1, WrittenRows
<1>3. r.doc \in Doc /\ r.doc.status = "Sent" /\ r.doc.states = d.states
  <2>1. MaxVersion \in Nat /\ d.version + 1 \in 0..(MaxVersion + 1)
    BY DirectiveTypes DEF Doc, DirectiveTypes
  <2> QED BY <1>2, <2>1 DEF Doc
<1>4. /\ n \in Nat /\ f \in [1..n -> Active(d)]
      /\ \A i, k \in 1..n : f[i] = f[k] => i = k
      /\ \A u \in Active(d) : \E i \in 1..n : f[i] = u
  BY Sequenced DEF Active
<1> HIDE DEF n, f
<1>5. \A i \in 1..n : x[i] = Duty(d, f[i], "Report", 0)
  OBVIOUS
<1>6. \A i \in 1..n : f[i] \in Executors
  BY <1>4 DEF Active
<1>7. \A i \in 1..n : Fits(x, i, x[i]) /\ IsDuty(x[i], f[i], "Report", 0)
  <2> HIDE DEF x
  <2> QED BY <1>5, <1>6, ReportDuty
<1>8. x \in [1..n -> Task]
  BY <1>7 DEF Fits
<1> HIDE DEF x
<1>9. x \in Seq(Task) /\ Len(x) = n
  BY <1>4, <1>8
<1>10. \A i \in 1..n : Row(x, i)
  BY <1>4, <1>7, FitsRow
<1>11. \A i \in 1..n : x[i].user = f[i] /\ IsDuty(x[i], x[i].user, "Report", 0)
  BY <1>7 DEF IsDuty
<1> QED
  BY <1>1, <1>2, <1>3, <1>4, <1>9, <1>10, <1>11 DEF Opens, Rows

-----------------------------------------------------------------------------
(* Types.                                                                  *)

Shaped(d, ts) ==
  /\ d \in Doc /\ Rows(ts) /\ Short(ts)
  /\ d.status = "none" => d.version = 0
  /\ d.status = "Draft" => d.version <= MaxVersion
  /\ d.status \in {"none", "Draft"} => ts = << >> /\ \A u \in Executors : d.states[u] \in {"none", "Pending"}

LEMMA EndsGrow ==
  ASSUME NEW d, NEW ts, NEW x, NEW i, NEW action, Ends(ts, x, i, action)
  PROVE  Grown(ts, x) /\ Notified(d, ts, x)
<1>1. Grown(ts, x)
  BY DEF Ends, Moves, Grown
<1>2. \A k \in 1..Len(ts) : x[k].reminders = ts[k].reminders /\ x[k].notices = ts[k].notices
  BY DEF Ends
<1>3. Notified(d, ts, x)
  BY <1>2 DEF Notified
<1> QED
  BY <1>1, <1>3

LEMMA SameGrow ==
  ASSUME NEW d, NEW ts, Rows(ts)
  PROVE  Grown(ts, ts) /\ Notified(d, ts, ts)
<1>1. Len(ts) \in Nat
  BY DEF Rows
<1> QED
  BY <1>1 DEF Grown, Notified

\* A draft is saved while it may still be issued.
Room(call) == call.op = "save" => call.version < MaxVersion

\* The rows e and x that follow d and ts.
Follows(d, ts, e, x) == Shaped(e, x) /\ Grown(ts, x) /\ Notified(d, ts, x)

Fine(d, ts, r) == Short(r.tasks) => Follows(d, ts, r.doc, r.tasks)

LEMMA FineRows ==
  ASSUME NEW d, NEW ts, NEW r, NEW e, NEW x, r.doc = e, r.tasks = x, Short(x) => Follows(d, ts, e, x)
  PROVE  Fine(d, ts, r)
BY DEF Fine

LEMMA SaveFine ==
  ASSUME NEW call \in Calls, call.op = "save", Room(call), NEW d, NEW ts, Shaped(d, ts), NEW seen,
         NEW r \in SaveDraft(call, d, ts, seen)
  PROVE  Fine(d, ts, r)
<1>1. d \in Doc /\ Rows(ts) /\ Short(ts)
  BY DEF Shaped
<1>2. /\ d.status \in {"none", "Draft"} /\ r.tasks = ts
      /\ r.doc \in Doc /\ r.doc.status = "Draft" /\ r.doc.version <= MaxVersion
      /\ \A u \in Executors : r.doc.states[u] \in {"none", "Pending"}
  BY <1>1, SaveDoes DEF Shaped, Room
<1>3. Shaped(r.doc, ts)
  BY <1>1, <1>2 DEF Shaped
<1>4. Follows(d, ts, r.doc, ts)
  BY <1>1, <1>3, SameGrow DEF Follows
<1> QED BY <1>2, <1>4 DEF Fine

LEMMA IssueFine ==
  ASSUME NEW call, NEW d, NEW ts, Shaped(d, ts), NEW seen, NEW r \in Issue(call, d, ts, seen)
  PROVE  Fine(d, ts, r)
<1>1. d \in Doc /\ Rows(ts) /\ Short(ts)
  BY DEF Shaped
<1>2. d.version <= MaxVersion
  <2>1. d.status = "Draft"
    BY DEF Issue
  <2> QED BY <2>1 DEF Shaped
<1>3. d.status = "Draft" /\ r.doc \in Doc /\ r.doc.status = "Sent" /\ Rows(r.tasks)
  BY <1>1, <1>2, IssueDoes DEF Opens
<1>4. Len(ts) = 0 /\ Len(r.tasks) \in Nat
  BY <1>3 DEF Shaped, Rows
<1>5. Grown(ts, r.tasks) /\ Notified(d, ts, r.tasks)
  BY <1>4 DEF Grown, Notified
<1> QED BY <1>3, <1>5 DEF Shaped, Fine, Follows

LEMMA StartFine ==
  ASSUME NEW call \in Calls, call.op = "start", NEW d, NEW ts, Shaped(d, ts), NEW seen,
         NEW r \in Start(call, d, ts, seen)
  PROVE  Fine(d, ts, r)
<1>1. d \in Doc /\ Rows(ts) /\ Short(ts)
  BY DEF Shaped
<1>2. Starts(call, d, ts, r)
  BY StartDoes
<1>3. PICK u \in Executors : MayStart(d, u) /\ r.doc = Put(d, u, "In Progress") /\ r.tasks = ts
  BY <1>2 DEF Starts
<1>4. Put(d, u, "In Progress") \in Doc /\ Put(d, u, "In Progress").status = "Sent"
  <2>1. "In Progress" \in States
    BY DEF States, Working
  <2>2. d.status = "Sent"
    BY <1>3 DEF MayStart
  <2> QED BY <1>1, <2>1, <2>2, PutState
<1>5. Follows(d, ts, Put(d, u, "In Progress"), ts)
  BY <1>1, <1>4, SameGrow DEF Shaped, Follows
<1> QED BY <1>3, <1>5 DEF Fine

LEMMA ReportFine ==
  ASSUME NEW call \in Calls, call.op = "report", NEW d, NEW ts, Shaped(d, ts),
         NEW old, Rows(old), Grown(old, ts), NEW seen, seen.tasks = old, NEW r \in Report(call, d, ts, seen)
  PROVE  Fine(d, ts, r)
<1>1. d \in Doc /\ Rows(ts) /\ Short(ts)
  BY DEF Shaped
<1>2. PICK i, t : Sends(call, d, ts, old, r, i, t)
  BY <1>1, ReportDoes
<1>3. PICK u \in Executors : /\ MayReport(d, u) /\ r.doc = Put(d, u, "Awaiting Review")
                             /\ Rows(r.tasks) /\ Ends(ts, r.tasks, i, "Report")
  BY <1>2 DEF Sends
<1>4. Put(d, u, "Awaiting Review") \in Doc /\ Put(d, u, "Awaiting Review").status = "Sent"
  <2>1. "Awaiting Review" \in States
    BY DEF States
  <2>2. d.status = "Sent"
    BY <1>3 DEF MayReport
  <2> QED BY <1>1, <2>1, <2>2, PutState
<1>5. Grown(ts, r.tasks) /\ Notified(d, ts, r.tasks)
  BY <1>3, EndsGrow
<1> QED BY <1>3, <1>4, <1>5 DEF Shaped, Follows, Fine

LEMMA ProgressFine ==
  ASSUME NEW call \in Calls, call.op = "progress", NEW d, NEW ts, Shaped(d, ts), NEW seen,
         NEW r \in Progress(call, d, ts, seen)
  PROVE  Fine(d, ts, r)
<1>1. d \in Doc /\ Rows(ts) /\ Short(ts)
  BY DEF Shaped
<1>2. PICK t : Notes(call, d, ts, r, t)
  BY <1>1, ProgressDoes
<1>3. PICK u \in Executors : /\ MayReport(d, u) /\ r.doc \in {d, Put(d, u, "In Progress")}
                             /\ Rows(r.tasks) /\ Ends(ts, r.tasks, 0, "none")
  BY <1>2 DEF Notes
<1>4. d.status = "Sent" /\ Put(d, u, "In Progress") \in Doc /\ Put(d, u, "In Progress").status = "Sent"
  <2>1. "In Progress" \in States
    BY DEF States, Working
  <2>2. d.status = "Sent"
    BY <1>3 DEF MayReport
  <2> QED BY <1>1, <2>1, <2>2, PutState
<1>5. Grown(ts, r.tasks) /\ Notified(d, ts, r.tasks)
  BY <1>3, EndsGrow
<1> QED BY <1>1, <1>3, <1>4, <1>5 DEF Shaped, Follows, Fine

LEMMA ReviewFine ==
  ASSUME NEW call \in Calls, call.op = "review", NEW d, NEW ts, Shaped(d, ts),
         NEW old, Rows(old), Grown(old, ts), NEW seen, seen.tasks = old, NEW r \in Review(call, d, ts, seen)
  PROVE  Fine(d, ts, r)
<1>1. d \in Doc /\ Rows(ts) /\ Short(ts)
  BY DEF Shaped
<1>2. PICK j, i, u : Decides(call, d, ts, old, r, j, i, u)
  BY <1>1, ReviewDoes
<1>3. PICK state, action :
        /\ state \in {"Approved", "Returned"} /\ u \in Executors /\ d.status = "Sent" /\ r.doc = Put(d, u, state)
        /\ Rows(r.tasks) /\ Ends(ts, r.tasks, j, action)
  <2> DEFINE state == IF call.approve THEN "Approved" ELSE "Returned"
             action == IF call.approve THEN "Approve" ELSE "Return"
  <2>1. state \in {"Approved", "Returned"}
    OBVIOUS
  <2>2. /\ u \in Executors /\ d.status = "Sent" /\ r.doc = Put(d, u, state)
        /\ Rows(r.tasks) /\ Ends(ts, r.tasks, j, action)
    BY <1>2 DEF Decides
  <2> HIDE DEF state, action
  <2> QED BY <2>1, <2>2
<1>4. Put(d, u, state) \in Doc /\ Put(d, u, state).status = "Sent"
  <2>1. state \in States
    BY <1>3 DEF States, Working
  <2> QED BY <1>1, <1>3, <2>1, PutState
<1>5. Grown(ts, r.tasks) /\ Notified(d, ts, r.tasks)
  BY <1>3, EndsGrow
<1> QED BY <1>3, <1>4, <1>5 DEF Shaped, Follows, Fine

LEMMA TransferFine ==
  ASSUME NEW call \in Calls, call.op = "transfer", NEW d, NEW ts, Shaped(d, ts),
         NEW old, Rows(old), Grown(old, ts), NEW seen, seen.tasks = old, NEW r \in Transfer(call, d, ts, seen)
  PROVE  Fine(d, ts, r)
<1>1. d \in Doc /\ Rows(ts) /\ Short(ts)
  BY DEF Shaped
<1>2. PICK i, t, from, to : PassesOn(call, d, ts, old, r, i, t, from, to)
  BY <1>1, TransferDoes
<1>3. r.doc \in Doc /\ r.doc.status = "Sent" /\ Rows(r.tasks) /\ Ends(ts, r.tasks, i, "Transferred")
  BY <1>2 DEF PassesOn
<1>4. Grown(ts, r.tasks) /\ Notified(d, ts, r.tasks)
  BY <1>3, EndsGrow
<1> QED BY <1>3, <1>4 DEF Shaped, Follows, Fine

LEMMA CloseFine ==
  ASSUME NEW call, NEW d, NEW ts, Shaped(d, ts),
         NEW old, Rows(old), Grown(old, ts), NEW seen, seen.tasks = old, NEW r \in Close(call, d, ts, seen)
  PROVE  Fine(d, ts, r)
<1>1. d \in Doc /\ Rows(ts) /\ Short(ts)
  BY DEF Shaped
<1>2. PICK i : Ceases(d, ts, old, r, i)
  BY <1>1, CloseDoes
<1>3. r.doc = [d EXCEPT !.status = "Closed"] /\ Rows(r.tasks) /\ Ends(ts, r.tasks, i, "Close")
  BY <1>2 DEF Ceases
<1>4. r.doc \in Doc /\ r.doc.status = "Closed"
  BY <1>1, <1>3 DEF Doc
<1>5. Grown(ts, r.tasks) /\ Notified(d, ts, r.tasks)
  BY <1>3, EndsGrow
<1> QED BY <1>3, <1>4, <1>5 DEF Shaped, Follows, Fine

LEMMA RemindFine ==
  ASSUME NEW call, NEW d, NEW ts, Shaped(d, ts), NEW seen,
         NEW r \in Remind(call, d, ts, seen) \cup NotifyOverdue(call, d, ts, seen)
  PROVE  Fine(d, ts, r)
<1>1. d \in Doc /\ Rows(ts) /\ Short(ts)
  BY DEF Shaped
<1>2. Tells(d, ts, r)
  BY <1>1, RemindDoes
<1>3. /\ r.doc = d /\ Rows(r.tasks) /\ Len(r.tasks) = Len(ts) /\ Moves(ts, r.tasks, 0, "none")
      /\ Notified(d, ts, r.tasks)
  BY <1>2 DEF Tells
<1>4. Grown(ts, r.tasks)
  BY <1>3 DEF Moves, Grown
<1>5. ts = << >> => r.tasks = << >>
  <2>1. r.tasks \in Seq(Task) /\ (ts = << >> => Len(r.tasks) = 0)
    BY <1>3 DEF Rows
  <2> QED BY <2>1
<1> QED BY <1>1, <1>3, <1>4, <1>5 DEF Shaped, Follows, Fine

LEMMA EffectsFine ==
  ASSUME NEW call \in Calls, NEW d, NEW ts, Shaped(d, ts), Room(call),
         NEW old, Rows(old), Grown(old, ts), NEW seen, seen.tasks = old, NEW r \in Effects(call, d, ts, seen)
  PROVE  Fine(d, ts, r)
<1>1. call.op \in {"save", "issue", "start", "report", "progress", "review", "transfer", "close", "remind", "overdue"}
  BY DEF Calls
<1>2. CASE call.op = "save"
  BY <1>2, SaveFine DEF Effects
<1>3. CASE call.op = "issue"
  BY <1>3, IssueFine DEF Effects
<1>4. CASE call.op = "start"
  BY <1>4, StartFine DEF Effects
<1>5. CASE call.op = "report"
  BY <1>5, ReportFine DEF Effects
<1>6. CASE call.op = "progress"
  BY <1>6, ProgressFine DEF Effects
<1>7. CASE call.op = "review"
  BY <1>7, ReviewFine DEF Effects
<1>8. CASE call.op = "transfer"
  BY <1>8, TransferFine DEF Effects
<1>9. CASE call.op = "close"
  BY <1>9, CloseFine DEF Effects
<1>10. CASE call.op \in {"remind", "overdue"}
  BY <1>10, RemindFine DEF Effects
<1> QED
  BY <1>1, <1>2, <1>3, <1>4, <1>5, <1>6, <1>7, <1>8, <1>9, <1>10

-----------------------------------------------------------------------------
(* The transactions.                                                       *)

Asked == {c \in Calls : Room(c)}

\* What a worker holds, beside the rows ts.
Serves(t, ts) ==
  /\ t.call \in Asked \cup {NoCall} /\ t.key \in Keys \cup {NoKey}
  /\ Rows(t.seen.tasks) /\ Grown(t.seen.tasks, ts)

Receipted ==
  /\ receipts \in [Keys -> Asked \cup {NoCall}] /\ acted \in [Keys -> Nat]
  /\ \A k \in Keys : acted[k] <= 1 /\ (receipts[k] = NoCall => acted[k] = 0)

BaseInv ==
  /\ Shaped(doc, tasks)
  /\ Receipted
  /\ team \subseteq Executors /\ now \in 0..2
  /\ DOMAIN txn = Workers /\ txn = [w \in Workers |-> txn[w]]
  /\ \A w \in Workers : Serves(txn[w], tasks)

LEMMA NoRows == Rows(<< >>) /\ \A ts : Rows(ts) => Grown(<< >>, ts)
<1>1. << >> \in Seq(Task) /\ Len(<< >>) = 0
  OBVIOUS
<1>2. \A ts : Rows(ts) => Len(ts) \in Nat
  BY DEF Rows
<1> QED
  BY <1>1, <1>2 DEF Rows, Grown

LEMMA GrownTwice ==
  ASSUME NEW a, NEW b, NEW c, Rows(a), Rows(b), Rows(c), Grown(a, b), Grown(b, c)
  PROVE  Grown(a, c)
<1>1. Len(a) \in Nat /\ Len(b) \in Nat /\ Len(c) \in Nat
  BY DEF Rows
<1> QED
  BY <1>1 DEF Grown

LEMMA IdleServes == ASSUME NEW ts, Rows(ts) PROVE Serves(Idle, ts)
BY NoRows DEF Serves, Idle

LEMMA InitBase == ASSUME Init PROVE BaseInv
<1>1. Shaped(doc, tasks)
  <2>1. MaxVersion \in Nat /\ MaxTasks \in Nat
    BY DirectiveTypes DEF DirectiveTypes
  <2>2. NoDoc \in Doc /\ NoDoc.status = "none" /\ NoDoc.version = 0 /\ \A u \in Executors : NoDoc.states[u] = "none"
    BY <2>1 DEF NoDoc, Doc, States
  <2>3. Short(<< >>)
    BY <2>1 DEF Short
  <2> QED BY <2>2, <2>3, NoRows DEF Init, Shaped
<1>2. Receipted
  BY DEF Init, Receipted
<1>3. \A w \in Workers : Serves(txn[w], tasks)
  <2>1. \A w \in Workers : txn[w] = Idle
    BY DEF Init
  <2> QED BY <2>1, IdleServes, NoRows DEF Init
<1>4. DOMAIN txn = Workers /\ txn = [w \in Workers |-> txn[w]]
  BY DEF Init
<1> QED
  BY <1>1, <1>2, <1>3, <1>4 DEF BaseInv, Init

LEMMA SnapshotRows ==
  ASSUME BaseInv, NEW op
  PROVE  Rows(Snapshot(op).tasks) /\ Grown(Snapshot(op).tasks, tasks)
<1>1. Rows(tasks)
  BY DEF BaseInv, Shaped
<1>2. Grown(tasks, tasks)
  BY <1>1, SameGrow
<1> QED
  BY <1>1, <1>2, NoRows DEF Snapshot

LEMMA ServeServes ==
  ASSUME BaseInv, NEW w \in Workers, NEW call \in Asked, NEW key \in Keys \cup {NoKey}, NEW known,
         Serve(w, call, key, known)
  PROVE  /\ DOMAIN txn' = Workers /\ txn' = [v \in Workers |-> txn'[v]]
         /\ txn'[w] = [call |-> call, key |-> key, seen |-> Snapshot(call.op), known |-> known]
         /\ \A v \in Workers : v # w => txn'[v] = txn[v]
         /\ \A v \in Workers : Serves(txn'[v], tasks)
<1> DEFINE t == [call |-> call, key |-> key, seen |-> Snapshot(call.op), known |-> known]
<1>1. Serves(t, tasks)
  <2>1. t.call = call /\ t.key = key /\ t.seen = Snapshot(call.op)
    OBVIOUS
  <2> HIDE DEF t
  <2> QED BY <2>1, SnapshotRows DEF Serves
<1> HIDE DEF t
<1>2. txn' = [txn EXCEPT ![w] = t]
  BY DEF Serve, t
<1>3. DOMAIN txn = Workers
  BY DEF BaseInv
<1>4. /\ DOMAIN txn' = Workers /\ txn' = [v \in Workers |-> txn'[v]] /\ txn'[w] = t
      /\ \A v \in Workers : v # w => txn'[v] = txn[v]
  BY <1>2, <1>3
<1>5. \A v \in Workers : Serves(txn'[v], tasks)
  BY <1>1, <1>4 DEF BaseInv
<1> QED
  BY <1>4, <1>5 DEF t

LEMMA OfferedAsked ==
  ASSUME NEW call \in Calls, Offered(call)
  PROVE  call \in Asked
<1>1. call.op = "save" => call.version < MaxVersion
  BY DEF Offered
<1> QED
  BY <1>1 DEF Asked, Room

LEMMA BeginDoes ==
  ASSUME BaseInv, NEW w \in Workers, Begin(w)
  PROVE  \E call \in Asked, key \in Keys \cup {NoKey} :
           /\ ~Busy(w) /\ Offered(call) /\ Serve(w, call, key, NoCall)
           /\ Impatient \/ call.user = Scheduler \/ \A v \in Workers : Busy(v) => txn[v].call.user # call.user
           /\ key = NoKey <=> call.user = Scheduler
<1>1. PICK call \in Calls :
        /\ Offered(call)
        /\ Impatient \/ call.user = Scheduler \/ \A v \in Workers : Busy(v) => txn[v].call.user # call.user
        /\ \E key \in IF call.user = Scheduler THEN {NoKey} ELSE {k \in Keys : ~InFlight(k)} :
             Serve(w, call, key, NoCall)
  BY DEF Begin
<1>2. PICK key \in IF call.user = Scheduler THEN {NoKey} ELSE {k \in Keys : ~InFlight(k)} :
        Serve(w, call, key, NoCall)
  BY <1>1
<1>3. key \in Keys \cup {NoKey} /\ (key = NoKey <=> call.user = Scheduler)
  BY <1>2, DirectiveTypes DEF DirectiveTypes
<1>4. call \in Asked
  BY <1>1, OfferedAsked
<1>5. ~Busy(w)
  BY DEF Begin
<1> QED
  BY <1>1, <1>2, <1>3, <1>4, <1>5

LEMMA RetryDoes ==
  ASSUME BaseInv, NEW w \in Workers, Retry(w)
  PROVE  \E call \in Asked, key \in Keys :
           /\ ~Busy(w) /\ Serve(w, call, key, receipts[key])
           /\ receipts[key] = call \/ \E v \in Workers : txn[v].key = key /\ txn[v].call = call
<1>1. PICK key \in Keys :
        \E call \in ({receipts[key]} \cup {txn[v].call : v \in {x \in Workers : txn[x].key = key}}) \ {NoCall} :
          Serve(w, call, key, receipts[key])
  BY DEF Retry
<1>2. PICK call : /\ call # NoCall
                  /\ receipts[key] = call \/ \E v \in Workers : txn[v].key = key /\ txn[v].call = call
                  /\ Serve(w, call, key, receipts[key])
  BY <1>1
<1>3. call \in Asked
  BY <1>1, <1>2 DEF BaseInv, Receipted, Serves
<1>4. ~Busy(w)
  BY DEF Retry
<1> QED
  BY <1>2, <1>3, <1>4

LEMMA BeginBase ==
  ASSUME BaseInv, NEW w \in Workers, Begin(w)
  PROVE  BaseInv'
<1>1. PICK call \in Asked, key \in Keys \cup {NoKey} : Serve(w, call, key, NoCall)
  BY BeginDoes
<1>2. /\ DOMAIN txn' = Workers /\ txn' = [v \in Workers |-> txn'[v]]
      /\ \A v \in Workers : Serves(txn'[v], tasks)
  BY <1>1, ServeServes
<1>3. Receipted'
  BY DEF Begin, BaseInv, Receipted
<1>4. UNCHANGED <<doc, tasks, team, now>>
  BY DEF Begin
<1> QED
  BY <1>2, <1>3, <1>4 DEF BaseInv

LEMMA RetryBase ==
  ASSUME BaseInv, NEW w \in Workers, Retry(w)
  PROVE  BaseInv'
<1>1. PICK call \in Asked, key \in Keys : Serve(w, call, key, receipts[key])
  BY RetryDoes
<1>2. key \in Keys \cup {NoKey}
  OBVIOUS
<1>3. /\ DOMAIN txn' = Workers /\ txn' = [v \in Workers |-> txn'[v]]
      /\ \A v \in Workers : Serves(txn'[v], tasks)
  BY <1>1, <1>2, ServeServes
<1>4. UNCHANGED <<doc, tasks, receipts, acted, team, now>>
  BY DEF Retry
<1> QED
  BY <1>3, <1>4 DEF BaseInv, Receipted

LEMMA IdleBase ==
  ASSUME BaseInv, NEW w \in Workers, txn' = [txn EXCEPT ![w] = Idle]
  PROVE  /\ DOMAIN txn' = Workers /\ txn' = [v \in Workers |-> txn'[v]]
         /\ txn'[w] = Idle /\ \A v \in Workers : v # w => txn'[v] = txn[v]
BY DEF BaseInv

LEMMA GiveUpBase ==
  ASSUME BaseInv, NEW w \in Workers, GiveUp(w)
  PROVE  BaseInv'
<1>1. /\ DOMAIN txn' = Workers /\ txn' = [v \in Workers |-> txn'[v]]
      /\ txn'[w] = Idle /\ \A v \in Workers : v # w => txn'[v] = txn[v]
  BY IdleBase DEF GiveUp
<1>2. UNCHANGED <<doc, tasks, receipts, acted, team, now>>
  BY DEF GiveUp
<1>3. \A v \in Workers : Serves(txn'[v], tasks)
  BY <1>1, IdleServes DEF BaseInv, Shaped
<1> QED
  BY <1>1, <1>2, <1>3 DEF BaseInv, Receipted

\* What a call that commits does to the rows of the directive.
Commits(w) ==
  /\ Follows(doc, tasks, doc', tasks')
  /\ txn[w].call \in Asked
  /\ \E r : /\ r \in Effects(txn[w].call, doc, tasks, txn[w].seen)
            /\ doc' = r.doc /\ tasks' = r.tasks

LEMMA FinishDoes ==
  ASSUME BaseInv, NEW w \in Workers, Finish(w)
  PROVE  Commits(w)
<1> DEFINE call == txn[w].call
           seen == txn[w].seen
<1>1. call \in Asked
  BY DEF BaseInv, Serves, Finish, Busy
<1>2. PICK r \in Effects(call, doc, tasks, seen) : Len(r.tasks) <= MaxTasks /\ doc' = r.doc /\ tasks' = r.tasks
  BY DEF Finish
<1>3. call \in Calls /\ Room(call) /\ Rows(seen.tasks) /\ Grown(seen.tasks, tasks) /\ Shaped(doc, tasks)
  BY <1>1 DEF Asked, BaseInv, Serves
<1> HIDE DEF call, seen
<1>4. Fine(doc, tasks, r)
  BY <1>2, <1>3, EffectsFine
<1>5. Follows(doc, tasks, doc', tasks')
  BY <1>2, <1>4 DEF Fine, Short
<1> QED
  BY <1>1, <1>2, <1>5 DEF Commits, call, seen

LEMMA FinishBase ==
  ASSUME BaseInv, NEW w \in Workers, Finish(w)
  PROVE  BaseInv'
<1>1. Follows(doc, tasks, doc', tasks') /\ txn[w].call \in Asked
  BY FinishDoes DEF Commits
<1>2. Shaped(doc', tasks') /\ Grown(tasks, tasks')
  BY <1>1 DEF Follows
<1>3. /\ DOMAIN txn' = Workers /\ txn' = [v \in Workers |-> txn'[v]]
      /\ txn'[w] = Idle /\ \A v \in Workers : v # w => txn'[v] = txn[v]
  BY IdleBase DEF Finish
<1>4. Rows(tasks) /\ Rows(tasks')
  BY <1>2 DEF BaseInv, Shaped
<1>5. \A v \in Workers : Serves(txn'[v], tasks')
  <2>1. ASSUME NEW t, Serves(t, tasks) PROVE Serves(t, tasks')
    BY <1>2, <1>4, <2>1, GrownTwice DEF Serves
  <2> QED BY <1>3, <1>4, <2>1, IdleServes DEF BaseInv
<1>6. Receipted'
  <2>1. CASE txn[w].key = NoKey
    BY <2>1 DEF Finish, BaseInv, Receipted
  <2>2. CASE txn[w].key # NoKey
    <3> DEFINE key == txn[w].key
               call == txn[w].call
    <3>1. key \in Keys /\ receipts[key] = NoCall
      BY <2>2 DEF BaseInv, Serves, Finish, NotReceipted
    <3>2. acted[key] = 0 /\ call # NoCall
      BY <3>1 DEF BaseInv, Receipted, Finish, Busy
    <3>3. receipts' = [receipts EXCEPT ![key] = call] /\ acted' = [acted EXCEPT ![key] = acted[key] + 1]
      BY <2>2 DEF Finish
    <3> HIDE DEF key, call
    <3>4. call \in Asked
      BY <1>1 DEF call
    <3> QED BY <3>1, <3>2, <3>3, <3>4 DEF Receipted, BaseInv
  <2> QED BY <2>1, <2>2
<1>7. UNCHANGED <<team, now>>
  BY DEF Finish
<1> QED
  BY <1>2, <1>3, <1>5, <1>6, <1>7 DEF BaseInv

LEMMA NextBase == ASSUME BaseInv, [Next]_vars PROVE BaseInv'
<1>1. CASE UNCHANGED vars
  BY <1>1 DEF vars, BaseInv, Receipted
<1>2. ASSUME NEW w \in Workers, Begin(w) \/ Retry(w) \/ Finish(w) \/ GiveUp(w) PROVE BaseInv'
  BY <1>2, BeginBase, RetryBase, FinishBase, GiveUpBase
<1>3. ASSUME NEW u \in Movable, Reassign(u) PROVE BaseInv'
  <2>1. team' \subseteq Executors
    BY <1>3, DirectiveTypes DEF Reassign, BaseInv, DirectiveTypes
  <2> QED BY <1>3, <2>1 DEF Reassign, BaseInv, Receipted
<1>4. ASSUME Tick PROVE BaseInv'
  <2>1. now' \in 0..2
    BY <1>4 DEF Tick, BaseInv
  <2> QED BY <1>4, <2>1 DEF Tick, BaseInv, Receipted
<1> QED
  BY <1>1, <1>2, <1>3, <1>4 DEF Next

\* Whatever overlaps, rows keep their shape, tables of tasks only grow, and a key
\* without a receipt has no activity (_mutation).
THEOREM BaseHolds == Spec => []BaseInv
BY InitBase, NextBase, PTL DEF Spec

LEMMA BaseTypes == BaseInv => TypeOK
BY DEF BaseInv, Shaped, Rows, Short, Receipted, Asked, TypeOK

\* The rows of a directive have the shape of their DocTypes, within the bounds.
THEOREM Typing == Spec => []TypeOK
BY BaseHolds, BaseTypes, PTL

LEMMA StepOnce ==
  ASSUME BaseInv, BaseInv', [Next]_vars, <<tasks, acted>>' # <<tasks, acted>>
  PROVE  ActedOnce' /\ NotifiedOnce
<1>1. ActedOnce'
  BY DEF BaseInv, Receipted, ActedOnce
<1>2. DOMAIN tasks = 1..Len(tasks)
  BY DEF BaseInv, Shaped, Rows
<1>3. CASE UNCHANGED tasks
  BY <1>1, <1>3 DEF NotifiedOnce
<1>4. ASSUME NEW w \in Workers, Finish(w) PROVE NotifiedOnce
  <2>1. Notified(doc, tasks, tasks')
    BY <1>4, FinishDoes DEF Commits, Follows
  <2> QED BY <1>2, <2>1 DEF NotifiedOnce, Notified
<1>5. UNCHANGED tasks \/ \E w \in Workers : Finish(w)
  BY DEF Next, vars, Begin, Retry, GiveUp, Reassign, Tick
<1> QED
  BY <1>1, <1>3, <1>4, <1>5

\* Every activity is recorded at most once under its key, and every task is
\* reminded of and reported overdue at most once, while it is open, whatever calls
\* and jobs overlap (request_id of the calls, dispatch_reminders,
\* process_workflow_deadlines).
THEOREM OnceEachHolds == Spec => OnceEach
<1>1. BaseInv /\ BaseInv' /\ [Next]_vars
        => [<<tasks, acted>>' # <<tasks, acted>> => ActedOnce' /\ NotifiedOnce]_vars
  BY StepOnce
<1> QED
  BY <1>1, BaseHolds, PTL DEF Spec, OnceEach

-----------------------------------------------------------------------------
(* What the tasks tell.                                                    *)

\* Task i is an open duty of u, a report that u sent, or a review of one; task j
\* is the approval of report i.
Due(ts, i, u) == i \in 1..Len(ts) /\ Owes(ts, i, u)

Handed(ts, i, u) == i \in 1..Len(ts) /\ ts[i].user = u /\ ts[i].action = "Report"

Judges(ts, j, u) == j \in 1..Len(ts) /\ ts[j].kind = "Review" /\ ts[j].status = "Open" /\ ts[ts[j].subject].user = u

Passes(ts, j, i) == j \in 1..Len(ts) /\ ts[j].subject = i /\ ts[j].action = "Approve"

\* A task is open until an action ends it; a review is about a report sent.
Sound(ts) ==
  \A i \in 1..Len(ts) :
    /\ ts[i].status = "Open" <=> ts[i].action = "none"
    /\ ts[i].kind = "Review" => ts[ts[i].subject].action = "Report"

\* A state and the tasks of its executor.
WorkTells(state, ts, u) ==
  /\ state \in Working => \E i : Due(ts, i, u)
  /\ \A i : Due(ts, i, u) =>
       state \in Working /\ \A k : Due(ts, k, u) \/ Handed(ts, k, u) => k <= i

ReviewTells(state, ts, u) ==
  /\ state = "Awaiting Review" => \E j : Judges(ts, j, u)
  /\ \A j : Judges(ts, j, u) =>
       /\ state = "Awaiting Review"
       /\ \A k : Judges(ts, k, u) => k = j
       /\ \A k : Handed(ts, k, u) => k <= ts[j].subject

ApprovalTells(state, ts, u) ==
  state = "Approved" =>
    \E i, j : Handed(ts, i, u) /\ Passes(ts, j, i) /\ \A k : Handed(ts, k, u) => k <= i

CloseTells(d, ts) ==
  /\ \A i \in 1..Len(ts) : ts[i].kind = "Close" => ts[i].status = "Open"
  /\ AllApproved(d) <=> \E i \in 1..Len(ts) : ts[i].kind = "Close"
  /\ \A i, k \in 1..Len(ts) : ts[i].kind = "Close" /\ ts[k].kind = "Close" => i = k

Tell(d, ts) ==
  /\ Sound(ts)
  /\ \A u \in Executors : ApprovalTells(d.states[u], ts, u)
  /\ d.status = "Sent" =>
       /\ \A u \in Executors : WorkTells(d.states[u], ts, u) /\ ReviewTells(d.states[u], ts, u)
       /\ CloseTells(d, ts)
  /\ d.status # "Sent" => \A i \in 1..Len(ts) : ts[i].status = "Completed"

\* A call whose receipt is not there may still act.
Live(t) == t.call # NoCall /\ NotReceipted(t.key)

Past == {"Awaiting Review", "Approved", "Transferred"}

\* The tasks old that V has read are as open as they were, or the state tells
\* that they are not.
Held(V, old, d, ts) ==
  d.status = "Sent" =>
    /\ \A u \in Executors, i \in 1..Len(old) :
         Owes(old, i, u) /\ V \in {u, Issuer} =>
           \/ ts[i].status = "Open"
           \/ d.states[u] = "Transferred"
           \/ V = Issuer /\ d.states[u] \in Past
    /\ V = Issuer =>
         \A j \in 1..Len(old) : old[j].kind = "Review" /\ old[j].status = "Open" => ts[j].status = "Open"

\* Jobs have no key, calls of users have one; a user has one call at a time.
KeyTells ==
  /\ \A k \in Keys : receipts[k] # NoCall => receipts[k].user # Scheduler
  /\ \A w \in Workers : Busy(w) => (txn[w].key = NoKey <=> txn[w].call.user = Scheduler)
  /\ \A v, w \in Workers :
       Live(txn[v]) /\ Live(txn[w]) /\ txn[v].call.user = txn[w].call.user /\ txn[v].call.user # Scheduler
         => txn[v].key = txn[w].key

Holds == \A w \in Workers : Live(txn[w]) => Held(txn[w].call.user, txn[w].seen.tasks, doc, tasks)


-----------------------------------------------------------------------------
(* The tasks after a step.                                                 *)

\* A task that a call adds: the duty of somebody, or a note that is done.
New(x, k) ==
  /\ x[k].action \notin {"Report", "Approve"}
  /\ x[k].status = "Open" <=> x[k].action = "none"
  /\ x[k].kind = "Review" => x[x[k].subject].action = "Report"

\* The step ends task i, if that is one, and adds at most one task.
Steps(ts, x, i, action) ==
  /\ Rows(ts) /\ Rows(x) /\ Moves(ts, x, i, action)
  /\ i = 0 \/ (i \in 1..Len(ts) /\ ts[i].status = "Open" /\ action # "none")
  /\ Len(x) = Len(ts) \/ (Len(x) = Len(ts) + 1 /\ New(x, Len(ts) + 1))

LEMMA Numbers ==
  ASSUME NEW ts, NEW x, NEW i, NEW action, Steps(ts, x, i, action)
  PROVE  /\ Len(ts) \in Nat /\ Len(x) \in Nat
         /\ \A k : k \in 1..Len(x) <=> k \in 1..Len(ts) \/ (k = Len(ts) + 1 /\ Len(x) = Len(ts) + 1)
<1>1. Len(ts) \in Nat /\ Len(x) \in Nat /\ (Len(x) = Len(ts) \/ Len(x) = Len(ts) + 1)
  BY DEF Steps, Moves, Rows
<1> QED
  BY <1>1

LEMMA DueAfter ==
  ASSUME NEW ts, NEW x, NEW i, NEW action, Steps(ts, x, i, action), NEW u, NEW k
  PROVE  Due(x, k, u) <=> (Due(ts, k, u) /\ k # i) \/ (k = Len(ts) + 1 /\ Due(x, k, u))
<1>1. CASE k \in 1..Len(ts)
  <2>1. k # Len(ts) + 1 /\ k \in 1..Len(x)
    BY <1>1, Numbers
  <2>2. Owes(x, k, u) <=> Owes(ts, k, u) /\ k # i
    BY <1>1 DEF Steps, Moves, Owes
  <2> QED BY <1>1, <2>1, <2>2 DEF Due
<1>2. CASE k \notin 1..Len(ts)
  <2>1. k \in 1..Len(x) => k = Len(ts) + 1
    BY <1>2, Numbers
  <2> QED BY <1>2, <2>1 DEF Due
<1> QED
  BY <1>1, <1>2

LEMMA HandedAfter ==
  ASSUME NEW ts, NEW x, NEW i, NEW action, Steps(ts, x, i, action), Sound(ts), NEW u, NEW k
  PROVE  Handed(x, k, u) <=> Handed(ts, k, u) \/ (k = i /\ i # 0 /\ ts[i].user = u /\ action = "Report")
<1>1. CASE k \in 1..Len(ts)
  <2>1. k # 0 /\ k \in 1..Len(x)
    BY <1>1, Numbers
  <2>2. k = i => ts[i].action = "none"
    BY <1>1 DEF Steps, Moves, Sound
  <2>3. x[k].user = ts[k].user /\ x[k].action = IF k = i THEN action ELSE ts[k].action
    BY <1>1 DEF Steps, Moves
  <2> QED BY <1>1, <2>1, <2>2, <2>3 DEF Handed
<1>2. CASE k \notin 1..Len(ts)
  <2>1. k \in 1..Len(x) => x[k].action # "Report"
    BY <1>2, Numbers DEF Steps, Moves, New
  <2>2. k = i => i = 0
    BY <1>2 DEF Steps
  <2> QED BY <1>2, <2>1, <2>2 DEF Handed
<1> QED
  BY <1>1, <1>2

LEMMA JudgesAfter ==
  ASSUME NEW ts, NEW x, NEW i, NEW action, Steps(ts, x, i, action), NEW u, NEW k
  PROVE  /\ Judges(x, k, u) <=> (Judges(ts, k, u) /\ k # i) \/ (k = Len(ts) + 1 /\ Judges(x, k, u))
         /\ k \in 1..Len(ts) => x[k].subject = ts[k].subject
<1>1. CASE k \in 1..Len(ts)
  <2>1. k # Len(ts) + 1 /\ k \in 1..Len(x)
    BY <1>1, Numbers
  <2>2. ts[k].kind = "Review" => ts[k].subject \in 1..Len(ts)
    BY <1>1, Numbers DEF Steps, Moves, Rows, Row
  <2>3. /\ x[k].kind = ts[k].kind /\ x[k].subject = ts[k].subject
        /\ x[k].status = IF k = i THEN "Completed" ELSE ts[k].status
    BY <1>1 DEF Steps, Moves
  <2>4. ts[k].kind = "Review" => x[x[k].subject].user = ts[ts[k].subject].user
    BY <2>2, <2>3 DEF Steps, Moves
  <2> QED BY <1>1, <2>1, <2>3, <2>4 DEF Judges
<1>2. CASE k \notin 1..Len(ts)
  <2>1. k \in 1..Len(x) => k = Len(ts) + 1
    BY <1>2, Numbers
  <2> QED BY <1>2, <2>1 DEF Judges
<1> QED
  BY <1>1, <1>2

LEMMA PassesAfter ==
  ASSUME NEW ts, NEW x, NEW i, NEW action, Steps(ts, x, i, action), Sound(ts), NEW m, NEW k, Passes(ts, k, m)
  PROVE  Passes(x, k, m)
<1>1. k \in 1..Len(ts) /\ k \in 1..Len(x)
  BY Numbers DEF Passes
<1>2. k # i
  BY <1>1 DEF Passes, Steps, Moves, Sound
<1> QED
  BY <1>1, <1>2 DEF Passes, Steps, Moves

LEMMA SoundAfter ==
  ASSUME NEW ts, NEW x, NEW i, NEW action, Steps(ts, x, i, action), Sound(ts)
  PROVE  Sound(x)
<1>1. ASSUME NEW k \in 1..Len(ts)
      PROVE  /\ x[k].status = "Open" <=> x[k].action = "none"
             /\ x[k].kind = "Review" => x[x[k].subject].action = "Report"
  <2>1. ts[k].kind = "Review" => ts[k].subject \in 1..Len(ts)
    BY Numbers DEF Steps, Moves, Rows, Row
  <2>2. /\ x[k].kind = ts[k].kind /\ x[k].subject = ts[k].subject
        /\ x[k].status = IF k = i THEN "Completed" ELSE ts[k].status
        /\ x[k].action = IF k = i THEN action ELSE ts[k].action
    BY DEF Steps, Moves
  <2>3. k = i => action # "none"
    BY Numbers DEF Steps, Moves
  <2>4. ts[k].status = "Open" <=> ts[k].action = "none"
    BY DEF Sound
  <2>5. x[k].status = "Open" <=> x[k].action = "none"
    BY <2>2, <2>3, <2>4
  <2>6. ASSUME ts[k].kind = "Review" PROVE x[ts[k].subject].action = "Report"
    <3>1. ts[ts[k].subject].action = "Report"
      BY <2>6 DEF Sound
    <3>2. ts[k].subject \in 1..Len(ts)
      BY <2>1, <2>6
    <3>3. ts[k].subject # i
      BY <3>1, <3>2 DEF Steps, Moves, Sound
    <3> QED BY <3>1, <3>2, <3>3 DEF Steps, Moves
  <2> QED BY <2>2, <2>5, <2>6
<1>2. ASSUME NEW k \in 1..Len(x), k \notin 1..Len(ts)
      PROVE  New(x, k)
  BY <1>2, Numbers DEF Steps
<1> QED
  BY <1>1, <1>2 DEF Sound, New

-----------------------------------------------------------------------------
(* Executors, and what the tasks tell of each.                             *)

UserTells(state, ts, u) == WorkTells(state, ts, u) /\ ReviewTells(state, ts, u) /\ ApprovalTells(state, ts, u)

LEMMA Untouched ==
  ASSUME NEW ts, NEW x, NEW i, NEW action, Steps(ts, x, i, action), Sound(ts),
         NEW u, ~Due(ts, i, u), ~Judges(ts, i, u), i # 0 /\ action = "Report" => ts[i].user # u,
         ~Due(x, Len(ts) + 1, u), ~Judges(x, Len(ts) + 1, u), NEW state
  PROVE  /\ WorkTells(state, ts, u) => WorkTells(state, x, u)
         /\ ReviewTells(state, ts, u) => ReviewTells(state, x, u)
         /\ ApprovalTells(state, ts, u) => ApprovalTells(state, x, u)
<1>1. \A k : Due(x, k, u) <=> Due(ts, k, u)
  BY DueAfter
<1>2. \A k : Handed(x, k, u) <=> Handed(ts, k, u)
  BY HandedAfter
<1>3. \A k : /\ Judges(x, k, u) <=> Judges(ts, k, u)
             /\ Judges(ts, k, u) => x[k].subject = ts[k].subject
  <2>1. \A k : Judges(x, k, u) <=> Judges(ts, k, u)
    BY JudgesAfter
  <2>2. ASSUME NEW k, Judges(ts, k, u) PROVE x[k].subject = ts[k].subject
    <3>1. k \in 1..Len(ts)
      BY <2>2 DEF Judges
    <3> QED BY <3>1, JudgesAfter
  <2> QED BY <2>1, <2>2
<1>4. \A k, m : Passes(ts, k, m) => Passes(x, k, m)
  BY PassesAfter
<1>5. WorkTells(state, ts, u) => WorkTells(state, x, u)
  BY <1>1, <1>2 DEF WorkTells
<1>6. ReviewTells(state, ts, u) => ReviewTells(state, x, u)
  BY <1>2, <1>3 DEF ReviewTells
<1>7. ApprovalTells(state, ts, u) => ApprovalTells(state, x, u)
  BY <1>2, <1>4 DEF ApprovalTells
<1> QED
  BY <1>5, <1>6, <1>7

LEMMA WorkAlike ==
  ASSUME NEW ts, NEW u, NEW a \in Working, NEW b \in Working, UserTells(a, ts, u)
  PROVE  UserTells(b, ts, u)
<1>1. a # "Awaiting Review" /\ b # "Awaiting Review" /\ b # "Approved"
  BY DEF Working
<1>2. WorkTells(b, ts, u)
  BY DEF UserTells, WorkTells
<1>3. ReviewTells(b, ts, u)
  BY <1>1 DEF UserTells, ReviewTells
<1> QED
  BY <1>1, <1>2, <1>3 DEF UserTells, ApprovalTells

LEMMA NotAll ==
  ASSUME NEW d, NEW u \in Executors, d.states[u] \in Working \cup {"Awaiting Review"}
  PROVE  ~AllApproved(d)
<1>1. d.states[u] \notin {"none", "Transferred", "Approved"}
  BY DEF Working
<1> QED
  BY <1>1 DEF AllApproved, Active

LEMMA NoneCloses ==
  ASSUME NEW ts, NEW x, NEW i, NEW action, Steps(ts, x, i, action), NEW d, CloseTells(d, ts), ~AllApproved(d),
         NEW e, ~AllApproved(e), Len(x) = Len(ts) + 1 => x[Len(ts) + 1].kind # "Close"
  PROVE  CloseTells(e, x)
<1>1. \A k \in 1..Len(ts) : ts[k].kind # "Close"
  BY DEF CloseTells
<1>2. \A k \in 1..Len(ts) : x[k].kind = ts[k].kind
  BY DEF Steps, Moves
<1>3. \A k \in 1..Len(x) : x[k].kind # "Close"
  BY <1>1, <1>2, Numbers
<1> QED
  BY <1>3 DEF CloseTells

SentTells(d, ts) == (\A u \in Executors : UserTells(d.states[u], ts, u)) /\ CloseTells(d, ts)

LEMMA TellsSent ==
  ASSUME NEW d, d.status = "Sent", NEW ts
  PROVE  Tell(d, ts) <=> Sound(ts) /\ SentTells(d, ts)
BY DEF Tell, SentTells, UserTells

\* The tasks that V may have read stay as open as Held says when U acts.
Leaves(U, d, ts, e, x) ==
  d.status = "Sent" /\ e.status = "Sent" =>
    /\ \A k \in 1..Len(ts) : ts[k].status = "Open" =>
         \/ x[k].status = "Open"
         \/ /\ ts[k].kind = "Report"
            /\ \/ e.states[ts[k].user] = "Transferred"
               \/ U = ts[k].user /\ e.states[ts[k].user] = "Awaiting Review"
         \/ ts[k].kind = "Review" /\ U = Issuer
    /\ \A u \in Executors : d.states[u] = "Transferred" => e.states[u] = "Transferred"
    /\ U # Issuer => \A u \in Executors : d.states[u] \in Past => e.states[u] \in Past

LEMMA LeavesHeld ==
  ASSUME NEW U, NEW V, U # V, NEW d, NEW ts, NEW e, NEW x, Leaves(U, d, ts, e, x), d.status = "Sent",
         NEW old, Grown(old, ts), Rows(ts), Held(V, old, d, ts)
  PROVE  Held(V, old, e, x)
<1> SUFFICES ASSUME e.status = "Sent"
             PROVE  /\ \A u \in Executors, i \in 1..Len(old) :
                         Owes(old, i, u) /\ V \in {u, Issuer} =>
                           \/ x[i].status = "Open"
                           \/ e.states[u] = "Transferred"
                           \/ V = Issuer /\ e.states[u] \in Past
                    /\ V = Issuer =>
                         \A j \in 1..Len(old) : old[j].kind = "Review" /\ old[j].status = "Open" => x[j].status = "Open"
  BY DEF Held
<1>1. Len(ts) \in Nat /\ \A k \in 1..Len(old) : k \in 1..Len(ts) /\ ts[k].user = old[k].user /\ ts[k].kind = old[k].kind
  <2>1. Len(ts) \in Nat
    BY DEF Rows
  <2> QED BY <2>1 DEF Grown
<1>2. ASSUME NEW u \in Executors, NEW i \in 1..Len(old), Owes(old, i, u), V \in {u, Issuer}
      PROVE  x[i].status = "Open" \/ e.states[u] = "Transferred" \/ (V = Issuer /\ e.states[u] \in Past)
  <2>1. ts[i].user = u /\ ts[i].kind = "Report" /\ i \in 1..Len(ts)
    BY <1>1, <1>2 DEF Owes
  <2>2. CASE ts[i].status = "Open"
    <3>1. \/ x[i].status = "Open" \/ e.states[u] = "Transferred"
          \/ U = u /\ e.states[u] = "Awaiting Review"
      BY <2>1, <2>2 DEF Leaves
    <3>2. U = u => V = Issuer
      BY <1>2
    <3> QED BY <3>1, <3>2 DEF Past
  <2>3. CASE d.states[u] = "Transferred"
    BY <2>3 DEF Leaves
  <2>4. CASE V = Issuer /\ d.states[u] \in Past
    BY <2>4 DEF Leaves
  <2> QED BY <1>2, <2>2, <2>3, <2>4 DEF Held
<1>3. ASSUME V = Issuer, NEW j \in 1..Len(old), old[j].kind = "Review", old[j].status = "Open"
      PROVE  x[j].status = "Open"
  <2>1. ts[j].status = "Open" /\ ts[j].kind = "Review" /\ j \in 1..Len(ts)
    BY <1>1, <1>3 DEF Held
  <2> QED BY <1>3, <2>1 DEF Leaves
<1> QED
  BY <1>2, <1>3

LEMMA HeldDue ==
  ASSUME NEW V, NEW old, NEW d, NEW ts, Held(V, old, d, ts), Grown(old, ts), d.status = "Sent",
         NEW u \in Executors, V \in {u, Issuer}, d.states[u] \in Working, NEW i \in 1..Len(old), Owes(old, i, u)
  PROVE  Owes(ts, i, u)
<1>1. d.states[u] \notin Past
  BY DEF Past, Working
<1>2. ts[i].status = "Open"
  BY <1>1 DEF Held, Past
<1> QED
  BY <1>2 DEF Owes, Grown

LEMMA HeldAsks ==
  ASSUME NEW old, Rows(old), NEW d, NEW ts, Held(Issuer, old, d, ts), Grown(old, ts), d.status = "Sent",
         NEW j \in 1..Len(old), NEW i \in 1..Len(old), Asks(old, j, i)
  PROVE  Asks(ts, j, i) /\ ts[i].user = old[i].user
BY DEF Held, Asks, Grown

-----------------------------------------------------------------------------
(* Each call keeps what the tasks tell.                                    *)

\* The rows e and x tell as d and ts did, and the call of U leaves others' tasks.
Keeps(U, d, ts, e, x) == Tell(e, x) /\ Leaves(U, d, ts, e, x)

LEMMA Positive == \A n : \A k \in 1..n : k # 0
OBVIOUS

\* The task i that U ends is of u, and others than u are as they were.
LEMMA EndedByOne ==
  ASSUME NEW U, NEW ts, NEW x, NEW i, NEW action, Steps(ts, x, i, action),
         NEW d, NEW e, NEW u \in Executors, \A v \in Executors : v # u => e.states[v] = d.states[v],
         d.states[u] \in Past => e.states[u] \in Past \/ U = Issuer,
         d.states[u] = "Transferred" => e.states[u] = "Transferred",
         \/ i = 0
         \/ /\ Owes(ts, i, u)
            /\ e.states[u] = "Transferred" \/ (U = u /\ e.states[u] = "Awaiting Review")
         \/ ts[i].kind = "Review" /\ U = Issuer
  PROVE  Leaves(U, d, ts, e, x)
<1>1. ASSUME NEW k \in 1..Len(ts), ts[k].status = "Open"
      PROVE  \/ x[k].status = "Open"
             \/ /\ ts[k].kind = "Report"
                /\ \/ e.states[ts[k].user] = "Transferred"
                   \/ U = ts[k].user /\ e.states[ts[k].user] = "Awaiting Review"
             \/ ts[k].kind = "Review" /\ U = Issuer
  <2>1. k # 0
    BY Positive
  <2>2. k # i => x[k].status = "Open"
    BY <1>1 DEF Steps, Moves
  <2> QED BY <2>1, <2>2 DEF Owes
<1> QED
  BY <1>1 DEF Leaves

LEMMA WorkGoesOn ==
  ASSUME NEW U, U # Issuer, NEW d, NEW ts, d.status = "Sent", Tell(d, ts), NEW u \in Executors, d.states[u] \in Working,
         NEW e, e.status = "Sent", e.states[u] \in Working, \A v \in Executors : v # u => e.states[v] = d.states[v],
         NEW x, Steps(ts, x, 0, "none"),
         Len(x) = Len(ts) + 1 => x[Len(ts) + 1].kind = "Report" /\ x[Len(ts) + 1].status = "Completed"
  PROVE  Keeps(U, d, ts, e, x)
<1>1. Sound(ts) /\ SentTells(d, ts)
  BY TellsSent
<1>2. ASSUME NEW v \in Executors PROVE UserTells(e.states[v], x, v)
  <2>1. ~Due(x, Len(ts) + 1, v) /\ ~Judges(x, Len(ts) + 1, v)
    <3>1. Len(ts) + 1 \in 1..Len(x) => Len(x) = Len(ts) + 1
      BY Numbers
    <3> QED BY <3>1 DEF Due, Owes, Judges
  <2>2. ~Due(ts, 0, v) /\ ~Judges(ts, 0, v)
    BY Numbers DEF Due, Judges
  <2>3. UserTells(e.states[v], ts, v)
    BY <1>1, WorkAlike DEF SentTells
  <2> QED BY <1>1, <2>1, <2>2, <2>3, Untouched DEF UserTells
<1>3. CloseTells(e, x)
  <2>1. ~AllApproved(d) /\ ~AllApproved(e)
    BY NotAll
  <2> QED BY <1>1, <2>1, NoneCloses DEF SentTells
<1>4. Sound(x)
  BY <1>1, SoundAfter
<1>5. Leaves(U, d, ts, e, x)
  <2>1. d.states[u] \notin Past
    BY DEF Past, Working
  <2> QED BY <2>1, EndedByOne DEF Past
<1> QED
  BY <1>2, <1>3, <1>4, <1>5, TellsSent DEF Keeps, SentTells

LEMMA StartKeeps ==
  ASSUME NEW call, NEW d \in Doc, NEW ts, Rows(ts), Tell(d, ts), NEW r, Starts(call, d, ts, r)
  PROVE  Keeps(call.user, d, ts, r.doc, r.tasks)
<1> DEFINE u == call.user
           e == Put(d, u, "In Progress")
<1>1. u \in Executors /\ d.status = "Sent" /\ d.states[u] = "Pending" /\ r.doc = e /\ r.tasks = ts
  BY DEF Starts, MayStart
<1>2. u # Issuer /\ "In Progress" \in States /\ {"Pending", "In Progress"} \subseteq Working
  BY <1>1, DirectiveTypes DEF DirectiveTypes, States, Working
<1> HIDE DEF u
<1>3. e.status = "Sent" /\ e.states[u] \in Working /\ \A v \in Executors : v # u => e.states[v] = d.states[v]
  BY <1>1, <1>2, PutState
<1>4. Steps(ts, ts, 0, "none")
  BY EndsNone DEF Ends, Steps
<1>5. Len(ts) # Len(ts) + 1
  BY DEF Rows
<1> HIDE DEF e
<1>6. Keeps(u, d, ts, e, ts)
  BY <1>1, <1>2, <1>3, <1>4, <1>5, WorkGoesOn
<1> QED
  BY <1>1, <1>6 DEF u

LEMMA ProgressKeeps ==
  ASSUME NEW call, NEW d \in Doc, NEW ts, Rows(ts), Tell(d, ts), NEW r, NEW t, Notes(call, d, ts, r, t)
  PROVE  Keeps(call.user, d, ts, r.doc, r.tasks)
<1> DEFINE u == call.user
           e == r.doc
           x == r.tasks
<1>1. /\ u \in Executors /\ d.status = "Sent" /\ d.states[u] \in Working
      /\ e \in {d, Put(d, u, "In Progress")}
      /\ Rows(x) /\ Moves(ts, x, 0, "none") /\ Len(x) = Len(ts) + 1 /\ x[Len(ts) + 1] = t
      /\ t.kind = "Report" /\ t.status = "Completed" /\ t.action = "Progress"
  BY DEF Notes, MayReport, Ends, Adds
<1>2. u # Issuer /\ "In Progress" \in States /\ "In Progress" \in Working
  BY <1>1, DirectiveTypes DEF DirectiveTypes, States, Working
<1> HIDE DEF u, e, x
<1> DEFINE y == Put(d, u, "In Progress")
<1>3. y.status = d.status /\ y.states[u] = "In Progress" /\ \A v \in Executors : v # u => y.states[v] = d.states[v]
  BY ZenonT(40), <1>1, <1>2, PutState
<1>4. e = d \/ e = y
  BY <1>1
<1> HIDE DEF y
<1>5. e.status = "Sent" /\ e.states[u] \in Working /\ \A v \in Executors : v # u => e.states[v] = d.states[v]
  BY <1>1, <1>2, <1>3, <1>4
<1>6. New(x, Len(ts) + 1)
  BY <1>1 DEF New
<1>7. Steps(ts, x, 0, "none")
  BY <1>1, <1>6 DEF Steps
<1>8. Keeps(u, d, ts, e, x)
  BY <1>1, <1>2, <1>5, <1>7, WorkGoesOn
<1> QED
  BY <1>8 DEF u, e, x

\* The report of u ends the open duty of u and is handed to the issuer.
LEMMA ReportUsers ==
  ASSUME NEW ts, NEW x, NEW i \in 1..Len(ts), NEW u \in Executors, Steps(ts, x, i, "Report"), Sound(ts),
         Due(ts, i, u), Len(x) = Len(ts) + 1, IsDuty(x[Len(ts) + 1], Issuer, "Review", i)
  PROVE  /\ \A v \in Executors \ {u} : \A state : UserTells(state, ts, v) => UserTells(state, x, v)
         /\ \A state \in Working : UserTells(state, ts, u) => UserTells("Awaiting Review", x, u)
<1> DEFINE n == Len(ts) + 1
<1>1. n \in 1..Len(x) /\ n \notin 1..Len(ts) /\ x[n].kind = "Review" /\ x[n].subject = i /\ x[n].status = "Open"
  BY Numbers DEF IsDuty
<1>2. x[i].user = u /\ ts[i].user = u /\ ts[i].kind = "Report" /\ i # 0
  <2>1. i # 0
    BY Positive
  <2> QED BY <2>1 DEF Steps, Moves, Due, Owes
<1> HIDE DEF n
<1>3. \A v : ~Due(x, n, v) /\ (Judges(x, n, v) <=> v = u)
  BY <1>1, <1>2 DEF Due, Owes, Judges
<1>4. ASSUME NEW v \in Executors \ {u}, NEW state, UserTells(state, ts, v) PROVE UserTells(state, x, v)
  <2>1. ~Due(ts, i, v) /\ ~Judges(ts, i, v) /\ ts[i].user # v
    BY <1>2 DEF Due, Owes, Judges
  <2> QED BY <1>3, <1>4, <2>1, Untouched DEF UserTells, n
<1>5. ASSUME NEW state \in Working, UserTells(state, ts, u) PROVE UserTells("Awaiting Review", x, u)
  <2>1. state # "Awaiting Review" /\ "Awaiting Review" \notin Working
    BY DEF Working
  <2>2. \A k : ~Due(x, k, u)
    <3>1. ASSUME NEW k, Due(x, k, u) PROVE FALSE
      <4>1. Due(ts, k, u) /\ k # i
        BY <3>1, <1>3, DueAfter DEF n
      <4>2. k <= i /\ i <= k
        BY <4>1, <1>5 DEF UserTells, WorkTells
      <4>3. k \in 1..Len(ts)
        BY <4>1 DEF Due
      <4> QED BY <4>1, <4>2, <4>3, Numbers
    <3> QED BY <3>1
  <2>3. \A k : Judges(x, k, u) <=> k = n
    <3>1. \A k : ~Judges(ts, k, u)
      BY <1>5, <2>1 DEF UserTells, ReviewTells
    <3> QED BY <1>3, <3>1, JudgesAfter DEF n
  <2>4. \A k : Handed(x, k, u) => k <= i
    <3>1. ASSUME NEW k, Handed(x, k, u) PROVE Handed(ts, k, u) \/ k = i
      BY <3>1, HandedAfter
    <3>2. \A k : Handed(ts, k, u) => k <= i
      BY <1>5 DEF UserTells, WorkTells
    <3>3. i <= i
      BY Numbers
    <3> QED BY <3>1, <3>2, <3>3
  <2>5. WorkTells("Awaiting Review", x, u)
    BY <2>1, <2>2 DEF WorkTells
  <2>6. ReviewTells("Awaiting Review", x, u)
    BY <1>1, <2>3, <2>4 DEF ReviewTells
  <2>7. ApprovalTells("Awaiting Review", x, u)
    BY DEF ApprovalTells
  <2> QED BY <2>5, <2>6, <2>7 DEF UserTells
<1> QED
  BY <1>4, <1>5

LEMMA ReportKeeps ==
  ASSUME NEW call, NEW d \in Doc, NEW ts, Rows(ts), Tell(d, ts), NEW old, NEW r, NEW i, NEW t,
         Sends(call, d, ts, old, r, i, t), Owes(ts, i, call.user)
  PROVE  Keeps(call.user, d, ts, r.doc, r.tasks)
<1> DEFINE u == call.user
           e == Put(d, u, "Awaiting Review")
           x == r.tasks
<1>1. /\ u \in Executors /\ d.status = "Sent" /\ d.states[u] \in Working /\ i \in 1..Len(ts) /\ Owes(ts, i, u)
      /\ r.doc = e
      /\ Rows(x) /\ Moves(ts, x, i, "Report") /\ Len(x) = Len(ts) + 1 /\ x[Len(ts) + 1] = t
      /\ IsDuty(t, Issuer, "Review", i)
  BY DEF Sends, MayReport, Ends, Adds
<1>2. u # Issuer /\ "Awaiting Review" \in States
  BY <1>1, DirectiveTypes DEF DirectiveTypes, States
<1> HIDE DEF u, x
<1>3. e.status = "Sent" /\ e.states[u] = "Awaiting Review" /\ \A v \in Executors : v # u => e.states[v] = d.states[v]
  BY <1>1, <1>2, PutState
<1> HIDE DEF e
<1>4. Sound(ts) /\ SentTells(d, ts)
  BY <1>1, TellsSent
<1>5. New(x, Len(ts) + 1)
  <2>1. x[i].action = "Report"
    BY <1>1 DEF Moves
  <2> QED BY <1>1, <2>1 DEF New, IsDuty
<1>6. Steps(ts, x, i, "Report")
  BY <1>1, <1>5 DEF Steps, Owes
<1>7. Due(ts, i, u)
  BY <1>1 DEF Due
<1>8. ASSUME NEW v \in Executors PROVE UserTells(e.states[v], x, v)
  <2>1. /\ \A w \in Executors \ {u} : \A state : UserTells(state, ts, w) => UserTells(state, x, w)
        /\ \A state \in Working : UserTells(state, ts, u) => UserTells("Awaiting Review", x, u)
    BY <1>1, <1>4, <1>6, <1>7, ReportUsers
  <2>2. UserTells(d.states[v], ts, v)
    BY <1>4 DEF SentTells
  <2>3. CASE v # u
    BY <1>3, <2>1, <2>2, <2>3
  <2>4. CASE v = u
    BY <1>1, <1>3, <2>1, <2>2, <2>4
  <2> QED BY <2>3, <2>4
<1>9. CloseTells(e, x)
  <2>1. ~AllApproved(d) /\ ~AllApproved(e)
    BY <1>1, <1>3, NotAll
  <2>2. x[Len(ts) + 1].kind # "Close"
    BY <1>1 DEF IsDuty
  <2> QED BY <1>4, <1>6, <2>1, <2>2, NoneCloses DEF SentTells
<1>10. Sound(x)
  BY <1>4, <1>6, SoundAfter
<1>11. Leaves(u, d, ts, e, x)
  <2>1. d.states[u] \notin Past
    BY <1>1 DEF Past, Working
  <2> QED BY <1>1, <1>3, <1>6, <2>1, EndedByOne DEF Past
<1> QED
  BY <1>1, <1>3, <1>8, <1>9, <1>10, <1>11, TellsSent DEF Keeps, SentTells, u, x

\* Whoever waits has no open duty, and task j is the only open review.
LEMMA WaitsForOne ==
  ASSUME NEW ts, NEW u, UserTells("Awaiting Review", ts, u), NEW j, Judges(ts, j, u)
  PROVE  /\ \A k : ~Due(ts, k, u)
         /\ \A k : Judges(ts, k, u) => k = j
         /\ \A k : Handed(ts, k, u) => k <= ts[j].subject
<1>1. "Awaiting Review" \notin Working
  BY DEF Working
<1>2. \A k : ~Due(ts, k, u)
  BY <1>1 DEF UserTells, WorkTells
<1>3. (\A k : Judges(ts, k, u) => k = j) /\ \A k : Handed(ts, k, u) => k <= ts[j].subject
  BY DEF UserTells, ReviewTells
<1> QED
  BY <1>2, <1>3

\* An approval ends the review of u, with a task to close or without.
LEMMA ApproveUsers ==
  ASSUME NEW ts, Rows(ts), NEW x, NEW j \in 1..Len(ts), NEW u \in Executors, Steps(ts, x, j, "Approve"), Sound(ts),
         Judges(ts, j, u), Len(x) = Len(ts) + 1 => x[Len(ts) + 1].kind = "Close"
  PROVE  /\ \A v \in Executors \ {u} : \A state : UserTells(state, ts, v) => UserTells(state, x, v)
         /\ UserTells("Awaiting Review", ts, u) => UserTells("Approved", x, u)
<1> DEFINE n == Len(ts) + 1
           i == ts[j].subject
<1>1. n \in 1..Len(x) => x[n].kind = "Close"
  BY Numbers
<1>2. /\ ts[j].kind = "Review" /\ ts[i].user = u /\ i \in 1..Len(ts) /\ ts[i].action = "Report"
  BY Numbers DEF Judges, Rows, Row, Sound
<1> HIDE DEF n
<1>3. \A v : ~Due(x, n, v) /\ ~Judges(x, n, v)
  BY <1>1 DEF Due, Owes, Judges
<1>4. ASSUME NEW v \in Executors \ {u}, NEW state, UserTells(state, ts, v) PROVE UserTells(state, x, v)
  <2>1. ~Due(ts, j, v) /\ ~Judges(ts, j, v)
    BY <1>2 DEF Due, Owes, Judges
  <2> QED BY <1>3, <1>4, <2>1, Untouched DEF UserTells, n
<1> HIDE DEF i
<1>5. ASSUME UserTells("Awaiting Review", ts, u) PROVE UserTells("Approved", x, u)
  <2>1. /\ \A k : ~Due(ts, k, u)
        /\ \A k : Judges(ts, k, u) => k = j
        /\ \A k : Handed(ts, k, u) => k <= i
    BY <1>5, WaitsForOne DEF i
  <2>2. \A k : ~Due(x, k, u)
    BY <1>3, <2>1, DueAfter DEF n
  <2>3. \A k : ~Judges(x, k, u)
    BY <1>3, <2>1, JudgesAfter DEF n
  <2>4. \A k : Handed(x, k, u) <=> Handed(ts, k, u)
    BY HandedAfter
  <2>5. Handed(x, i, u)
    BY <1>2, <2>4 DEF Handed
  <2>6. Passes(x, j, i)
    <3>1. j \in 1..Len(x)
      BY Numbers
    <3> QED BY <3>1 DEF Passes, Steps, Moves, i
  <2>7. "Approved" \notin Working /\ "Approved" # "Awaiting Review"
    BY DEF Working
  <2>8. WorkTells("Approved", x, u)
    BY <2>2, <2>7 DEF WorkTells
  <2>9. ReviewTells("Approved", x, u)
    BY <2>3, <2>7 DEF ReviewTells
  <2>10. ApprovalTells("Approved", x, u)
    BY <2>1, <2>4, <2>5, <2>6 DEF ApprovalTells
  <2> QED BY <2>8, <2>9, <2>10 DEF UserTells
<1> QED
  BY <1>4, <1>5

\* A report that is returned is a new duty of u.
LEMMA ReturnUsers ==
  ASSUME NEW ts, NEW x, NEW j \in 1..Len(ts), NEW u \in Executors, Steps(ts, x, j, "Return"), Sound(ts),
         Judges(ts, j, u), Len(x) = Len(ts) + 1, IsDuty(x[Len(ts) + 1], u, "Report", 0)
  PROVE  /\ \A v \in Executors \ {u} : \A state : UserTells(state, ts, v) => UserTells(state, x, v)
         /\ UserTells("Awaiting Review", ts, u) => UserTells("Returned", x, u)
<1> DEFINE n == Len(ts) + 1
<1>1. n \in 1..Len(x) /\ x[n].user = u /\ x[n].kind = "Report" /\ x[n].status = "Open"
  BY Numbers DEF IsDuty
<1>2. ts[j].kind = "Review" /\ ts[ts[j].subject].user = u
  BY DEF Judges
<1> HIDE DEF n
<1>3. \A v : (Due(x, n, v) <=> v = u) /\ ~Judges(x, n, v)
  BY <1>1 DEF Due, Owes, Judges
<1>4. ASSUME NEW v \in Executors \ {u}, NEW state, UserTells(state, ts, v) PROVE UserTells(state, x, v)
  <2>1. ~Due(ts, j, v) /\ ~Judges(ts, j, v)
    BY <1>2 DEF Due, Owes, Judges
  <2> QED BY <1>3, <1>4, <2>1, Untouched DEF UserTells, n
<1>5. ASSUME UserTells("Awaiting Review", ts, u) PROVE UserTells("Returned", x, u)
  <2>1. (\A k : ~Due(ts, k, u)) /\ \A k : Judges(ts, k, u) => k = j
    BY <1>5, WaitsForOne
  <2>2. \A k : Due(x, k, u) <=> k = n
    BY <1>3, <2>1, DueAfter DEF n
  <2>3. \A k : ~Judges(x, k, u)
    BY <1>3, <2>1, JudgesAfter DEF n
  <2>4. \A k : Handed(x, k, u) => k <= n
    <3>1. ASSUME NEW k, Handed(x, k, u) PROVE k \in 1..Len(ts)
      <4>1. Handed(ts, k, u)
        BY <3>1, HandedAfter
      <4> QED BY <4>1 DEF Handed
    <3>2. \A k \in 1..Len(ts) : k <= n
      BY Numbers DEF n
    <3> QED BY <3>1, <3>2
  <2>5. n <= n
    BY Numbers DEF n
  <2>6. "Returned" \in Working /\ "Returned" # "Awaiting Review"
    BY DEF Working
  <2>7. WorkTells("Returned", x, u)
    BY <2>2, <2>4, <2>5, <2>6 DEF WorkTells
  <2>8. ReviewTells("Returned", x, u)
    BY <2>3, <2>6 DEF ReviewTells
  <2>9. ApprovalTells("Returned", x, u)
    BY DEF ApprovalTells
  <2> QED BY <2>7, <2>8, <2>9 DEF UserTells
<1> QED
  BY <1>4, <1>5

\* e is d with another state of u.
Puts(d, e, u, state) ==
  e.status = d.status /\ e.states[u] = state /\ \A v \in Executors : v # u => e.states[v] = d.states[v]

LEMMA PutPuts ==
  ASSUME NEW d \in Doc, NEW u \in Executors, NEW state \in States
  PROVE  Puts(d, Put(d, u, state), u, state)
BY PutState DEF Puts

LEMMA Longer == \A ts : Rows(ts) => Len(ts) # Len(ts) + 1
BY DEF Rows

LEMMA ApproveKeeps ==
  ASSUME NEW d \in Doc, NEW ts, Rows(ts), Tell(d, ts), d.status = "Sent", NEW j \in 1..Len(ts), NEW i \in 1..Len(ts),
         Asks(ts, j, i), NEW u \in Executors, ts[i].user = u, d.states[u] = "Awaiting Review",
         NEW e, Puts(d, e, u, "Approved"), NEW x, Rows(x), Moves(ts, x, j, "Approve"),
         IF AllApproved(e) THEN Len(x) = Len(ts) + 1 /\ IsDuty(x[Len(ts) + 1], Issuer, "Close", 0)
         ELSE Len(x) = Len(ts)
  PROVE  Keeps(Issuer, d, ts, e, x)
<1>1. Sound(ts) /\ SentTells(d, ts)
  BY TellsSent
<1>3. e.status = "Sent" /\ e.states[u] = "Approved" /\ \A v \in Executors : v # u => e.states[v] = d.states[v]
  BY DEF Puts
<1>4. Judges(ts, j, u) /\ ts[j].status = "Open" /\ ts[j].kind = "Review"
  BY DEF Asks, Judges
<1>5. Len(x) = Len(ts) + 1 => New(x, Len(ts) + 1) /\ x[Len(ts) + 1].kind = "Close"
  <2>1. Len(ts) # Len(ts) + 1
    BY Longer
  <2> QED BY <2>1 DEF New, IsDuty
<1>6. Steps(ts, x, j, "Approve")
  BY <1>4, <1>5 DEF Steps
<1>7. ASSUME NEW v \in Executors PROVE UserTells(e.states[v], x, v)
  <2>1. /\ \A w \in Executors \ {u} : \A state : UserTells(state, ts, w) => UserTells(state, x, w)
        /\ UserTells("Awaiting Review", ts, u) => UserTells("Approved", x, u)
    BY <1>1, <1>4, <1>5, <1>6, ApproveUsers
  <2>2. UserTells(d.states[v], ts, v)
    BY <1>1 DEF SentTells
  <2>3. CASE v # u
    BY <1>3, <2>1, <2>2, <2>3
  <2>4. CASE v = u
    BY <1>3, <2>1, <2>2, <2>4
  <2> QED BY <2>3, <2>4
<1>8. CloseTells(e, x)
  <2>1. ~AllApproved(d)
    BY NotAll
  <2>2. CASE ~AllApproved(e)
    <3>1. Len(x) = Len(ts) /\ Len(ts) # Len(ts) + 1
      BY <2>2, Longer
    <3> QED BY <1>1, <1>6, <2>1, <2>2, <3>1, NoneCloses DEF SentTells
  <2>3. CASE AllApproved(e)
    <3> DEFINE n == Len(ts) + 1
    <3>1. Len(x) = n /\ x[n].kind = "Close" /\ x[n].status = "Open"
      BY <2>3 DEF IsDuty
    <3>2. \A k \in 1..Len(ts) : x[k].kind # "Close"
      <4>1. \A k \in 1..Len(ts) : ts[k].kind # "Close"
        BY <1>1, <2>1 DEF SentTells, CloseTells
      <4> QED BY <4>1 DEF Moves
    <3>3. \A k \in 1..Len(x) : x[k].kind = "Close" <=> k = n
      BY <1>6, <3>1, <3>2, Numbers
    <3>4. n \in 1..Len(x)
      BY <1>6, <3>1, Numbers
    <3> HIDE DEF n
    <3> QED BY <2>3, <3>1, <3>3, <3>4 DEF CloseTells
  <2> QED BY <2>2, <2>3
<1>9. Sound(x)
  BY <1>1, <1>6, SoundAfter
<1>10. Leaves(Issuer, d, ts, e, x)
  <2>1. e.states[u] \in Past
    BY <1>3 DEF Past
  <2>2. d.states[u] # "Transferred"
    OBVIOUS
  <2> QED BY <1>3, <1>4, <1>6, <2>1, <2>2, EndedByOne
<1> QED
  BY <1>3, <1>7, <1>8, <1>9, <1>10, TellsSent DEF Keeps, SentTells

LEMMA ReturnKeeps ==
  ASSUME NEW d \in Doc, NEW ts, Rows(ts), Tell(d, ts), d.status = "Sent", NEW j \in 1..Len(ts), NEW i \in 1..Len(ts),
         Asks(ts, j, i), NEW u \in Executors, ts[i].user = u, d.states[u] = "Awaiting Review",
         NEW e, Puts(d, e, u, "Returned"), NEW x, Rows(x), Moves(ts, x, j, "Return"),
         Len(x) = Len(ts) + 1, IsDuty(x[Len(ts) + 1], u, "Report", 0)
  PROVE  Keeps(Issuer, d, ts, e, x)
<1>1. Sound(ts) /\ SentTells(d, ts)
  BY TellsSent
<1>2. "Returned" \in Working
  BY DEF Working
<1>3. e.status = "Sent" /\ e.states[u] = "Returned" /\ \A v \in Executors : v # u => e.states[v] = d.states[v]
  BY DEF Puts
<1>4. Judges(ts, j, u) /\ ts[j].status = "Open" /\ ts[j].kind = "Review"
  BY DEF Asks, Judges
<1>5. New(x, Len(ts) + 1) /\ x[Len(ts) + 1].kind = "Report"
  BY DEF New, IsDuty
<1>6. Steps(ts, x, j, "Return")
  BY <1>4, <1>5 DEF Steps
<1>7. ASSUME NEW v \in Executors PROVE UserTells(e.states[v], x, v)
  <2>1. /\ \A w \in Executors \ {u} : \A state : UserTells(state, ts, w) => UserTells(state, x, w)
        /\ UserTells("Awaiting Review", ts, u) => UserTells("Returned", x, u)
    BY <1>1, <1>4, <1>6, ReturnUsers
  <2>2. UserTells(d.states[v], ts, v)
    BY <1>1 DEF SentTells
  <2>3. CASE v # u
    BY <1>3, <2>1, <2>2, <2>3
  <2>4. CASE v = u
    BY <1>3, <2>1, <2>2, <2>4
  <2> QED BY <2>3, <2>4
<1>8. CloseTells(e, x)
  <2>1. ~AllApproved(d) /\ ~AllApproved(e)
    BY <1>2, <1>3, NotAll
  <2> QED BY <1>1, <1>5, <1>6, <2>1, NoneCloses DEF SentTells
<1>9. Sound(x)
  BY <1>1, <1>6, SoundAfter
<1>10. Leaves(Issuer, d, ts, e, x)
  <2>2. d.states[u] # "Transferred"
    OBVIOUS
  <2> QED BY <1>3, <1>4, <1>6, <2>2, EndedByOne
<1> QED
  BY <1>3, <1>7, <1>8, <1>9, <1>10, TellsSent DEF Keeps, SentTells

LEMMA ReviewKeeps ==
  ASSUME NEW call, NEW d \in Doc, NEW ts, Rows(ts), Tell(d, ts), NEW old, NEW r, NEW j, NEW i, NEW u,
         Decides(call, d, ts, old, r, j, i, u), i \in 1..Len(ts), Asks(ts, j, i), ts[i].user = u
  PROVE  Keeps(Issuer, d, ts, r.doc, r.tasks)
<1> DEFINE e == r.doc
           x == r.tasks
<1>1. /\ u \in Executors /\ j \in 1..Len(ts) /\ d.status = "Sent" /\ d.states[u] = "Awaiting Review" /\ Rows(x)
      /\ call.approve => /\ e = Put(d, u, "Approved") /\ Moves(ts, x, j, "Approve")
                         /\ IF AllApproved(e) THEN \E t : Adds(ts, x, t) /\ IsDuty(t, Issuer, "Close", 0)
                            ELSE Len(x) = Len(ts)
      /\ ~call.approve => /\ e = Put(d, u, "Returned") /\ Moves(ts, x, j, "Return")
                          /\ \E t : Adds(ts, x, t) /\ IsDuty(t, u, "Report", 0)
  BY DEF Decides, Ends
<1> HIDE DEF e, x
<1>4. Puts(d, Put(d, u, "Approved"), u, "Approved") /\ Puts(d, Put(d, u, "Returned"), u, "Returned")
  <2>1. "Approved" \in States /\ "Returned" \in States
    BY DEF States, Working
  <2> QED BY <1>1, <2>1, PutPuts
<1>2. CASE call.approve
  <2>1. IF AllApproved(e) THEN Len(x) = Len(ts) + 1 /\ IsDuty(x[Len(ts) + 1], Issuer, "Close", 0)
        ELSE Len(x) = Len(ts)
    BY <1>1, <1>2 DEF Adds
  <2> QED BY <1>1, <1>2, <1>4, <2>1, ApproveKeeps DEF e, x
<1>3. CASE ~call.approve
  <2>1. Len(x) = Len(ts) + 1 /\ IsDuty(x[Len(ts) + 1], u, "Report", 0)
    BY <1>1, <1>3 DEF Adds
  <2> QED BY <1>1, <1>3, <1>4, <2>1, ReturnKeeps DEF e, x
<1> QED
  BY <1>2, <1>3

\* The duty of one executor becomes the duty of another.
LEMMA TransferUsers ==
  ASSUME NEW ts, NEW x, NEW i \in 1..Len(ts), NEW u \in Executors, NEW w \in Executors, u # w,
         Steps(ts, x, i, "Transferred"), Sound(ts),
         Due(ts, i, u), Len(x) = Len(ts) + 1, IsDuty(x[Len(ts) + 1], w, "Report", 0)
  PROVE  /\ \A v \in Executors : v # u /\ v # w => \A state : UserTells(state, ts, v) => UserTells(state, x, v)
         /\ \A state \in Working : UserTells(state, ts, u) => UserTells("Transferred", x, u)
         /\ UserTells("none", ts, w) => UserTells("Pending", x, w)
<1> DEFINE n == Len(ts) + 1
<1>1. n \in 1..Len(x) /\ x[n].user = w /\ x[n].kind = "Report" /\ x[n].status = "Open"
  BY Numbers DEF IsDuty
<1>2. ts[i].user = u /\ ts[i].kind = "Report" /\ i # 0
  <2>1. i # 0
    BY Positive
  <2> QED BY <2>1 DEF Due, Owes
<1> HIDE DEF n
<1>3. \A v : (Due(x, n, v) <=> v = w) /\ ~Judges(x, n, v)
  BY <1>1 DEF Due, Owes, Judges
<1>4. \A v : v # u => ~Due(ts, i, v)
  BY <1>2 DEF Due, Owes
<1>5. \A v : ~Judges(ts, i, v)
  BY <1>2 DEF Judges
<1>6. ASSUME NEW v \in Executors, v # u, v # w, NEW state, UserTells(state, ts, v) PROVE UserTells(state, x, v)
  <2>1. ~Due(ts, i, v) /\ ~Judges(ts, i, v) /\ ~Due(x, n, v) /\ ~Judges(x, n, v)
    BY <1>3, <1>4, <1>5, <1>6
  <2> QED BY <1>6, <2>1, Untouched DEF UserTells, n
<1>7. ASSUME NEW state \in Working, UserTells(state, ts, u) PROVE UserTells("Transferred", x, u)
  <2>1. state # "Awaiting Review" /\ "Transferred" \notin Working
    BY DEF Working
  <2>2. ASSUME NEW k, Due(x, k, u) PROVE FALSE
    <3>1. Due(ts, k, u) /\ k # i
      BY <2>2, <1>3, DueAfter DEF n
    <3>2. k <= i /\ i <= k
      BY <3>1, <1>7 DEF UserTells, WorkTells
    <3>3. k \in 1..Len(ts)
      BY <3>1 DEF Due
    <3> QED BY <3>1, <3>2, <3>3, Numbers
  <2>3. \A k : ~Judges(x, k, u)
    <3>1. \A k : ~Judges(ts, k, u)
      BY <1>7, <2>1 DEF UserTells, ReviewTells
    <3> QED BY <1>3, <3>1, JudgesAfter DEF n
  <2>4. WorkTells("Transferred", x, u)
    BY <2>1, <2>2 DEF WorkTells
  <2>5. ReviewTells("Transferred", x, u)
    BY <2>3 DEF ReviewTells
  <2>6. ApprovalTells("Transferred", x, u)
    BY DEF ApprovalTells
  <2> QED BY <2>4, <2>5, <2>6 DEF UserTells
<1>8. ASSUME UserTells("none", ts, w) PROVE UserTells("Pending", x, w)
  <2>1. "none" \notin Working /\ "Pending" \in Working
    BY DEF Working
  <2>2. (\A k : ~Due(ts, k, w)) /\ \A k : ~Judges(ts, k, w)
    BY <1>8, <2>1 DEF UserTells, WorkTells, ReviewTells
  <2>3. \A k : Due(x, k, w) <=> k = n
    BY <1>3, <2>2, DueAfter DEF n
  <2>4. \A k : ~Judges(x, k, w)
    BY <1>3, <2>2, JudgesAfter DEF n
  <2>5. \A k : Handed(x, k, w) => k <= n
    <3>1. ASSUME NEW k, Handed(x, k, w) PROVE k \in 1..Len(ts)
      <4>1. Handed(ts, k, w)
        BY <3>1, HandedAfter
      <4> QED BY <4>1 DEF Handed
    <3>2. \A k \in 1..Len(ts) : k <= n
      BY Numbers DEF n
    <3> QED BY <3>1, <3>2
  <2>6. n <= n
    BY Numbers DEF n
  <2>7. WorkTells("Pending", x, w)
    BY <2>1, <2>3, <2>5, <2>6 DEF WorkTells
  <2>8. ReviewTells("Pending", x, w)
    BY <2>4 DEF ReviewTells
  <2>9. ApprovalTells("Pending", x, w)
    BY DEF ApprovalTells
  <2> QED BY <2>7, <2>8, <2>9 DEF UserTells
<1> QED
  BY <1>6, <1>7, <1>8

LEMMA TransferKeeps ==
  ASSUME NEW call, NEW d \in Doc, NEW ts, Rows(ts), Tell(d, ts), NEW old, NEW r, NEW i, NEW t, NEW u, NEW w,
         PassesOn(call, d, ts, old, r, i, t, u, w), Owes(ts, i, u)
  PROVE  Keeps(call.user, d, ts, r.doc, r.tasks)
<1> DEFINE e == r.doc
           x == r.tasks
           U == call.user
<1>1. /\ u \in Executors /\ w \in Executors /\ i \in 1..Len(ts)
      /\ d.status = "Sent" /\ d.states[u] \in Working /\ d.states[w] = "none"
      /\ e.status = "Sent" /\ e.states[u] = "Transferred" /\ e.states[w] = "Pending"
      /\ \A v \in Executors : v # u /\ v # w => e.states[v] = d.states[v]
      /\ Rows(x) /\ Moves(ts, x, i, "Transferred") /\ Len(x) = Len(ts) + 1
      /\ IsDuty(x[Len(ts) + 1], w, "Report", 0)
  BY DEF PassesOn, Ends, Adds
<1> HIDE DEF e, x, U
<1>2. u # w
  BY <1>1 DEF Working
<1>3. Sound(ts) /\ SentTells(d, ts)
  BY <1>1, TellsSent
<1>4. New(x, Len(ts) + 1) /\ x[Len(ts) + 1].kind = "Report"
  BY <1>1 DEF New, IsDuty
<1>5. Steps(ts, x, i, "Transferred") /\ Due(ts, i, u)
  BY <1>1, <1>4 DEF Steps, Due, Owes
<1>6. ASSUME NEW v \in Executors PROVE UserTells(e.states[v], x, v)
  <2>1. /\ v # u /\ v # w => \A state : UserTells(state, ts, v) => UserTells(state, x, v)
        /\ \A state \in Working : UserTells(state, ts, u) => UserTells("Transferred", x, u)
        /\ UserTells("none", ts, w) => UserTells("Pending", x, w)
    BY <1>1, <1>2, <1>3, <1>5, TransferUsers
  <2>2. UserTells(d.states[v], ts, v)
    BY <1>3 DEF SentTells
  <2>3. CASE v # u /\ v # w
    BY <1>1, <2>1, <2>2, <2>3
  <2>4. CASE v = u
    BY <1>1, <2>1, <2>2, <2>4
  <2>5. CASE v = w
    BY <1>1, <2>1, <2>2, <2>5
  <2> QED BY <2>3, <2>4, <2>5
<1>7. CloseTells(e, x)
  <2>1. "Pending" \in Working
    BY DEF Working
  <2>2. ~AllApproved(d) /\ ~AllApproved(e)
    BY <1>1, <2>1, NotAll
  <2> QED BY <1>3, <1>4, <1>5, <2>2, NoneCloses DEF SentTells
<1>8. Sound(x)
  BY <1>3, <1>5, SoundAfter
<1>9. Leaves(U, d, ts, e, x)
  <2>1. ASSUME NEW k \in 1..Len(ts), ts[k].status = "Open"
        PROVE  x[k].status = "Open" \/ (ts[k].kind = "Report" /\ e.states[ts[k].user] = "Transferred")
    <3>1. k # i => x[k].status = "Open"
      BY <2>1, <1>5 DEF Steps, Moves
    <3> QED BY <1>1, <3>1 DEF Owes
  <2>2. \A v \in Executors : d.states[v] = "Transferred" => e.states[v] = "Transferred"
    BY <1>1
  <2>3. \A v \in Executors : d.states[v] \in Past => e.states[v] \in Past
    BY <1>1 DEF Past
  <2> QED BY <2>1, <2>2, <2>3 DEF Leaves
<1> QED
  BY <1>1, <1>6, <1>7, <1>8, <1>9, TellsSent DEF Keeps, SentTells, e, x, U

LEMMA RowKinds ==
  ASSUME NEW ts, Rows(ts), NEW k \in 1..Len(ts)
  PROVE  ts[k].kind \in {"Report", "Review", "Close"} /\ ts[k].status \in {"Open", "Completed"}
<1>1. ts[k] \in Task
  BY DEF Rows
<1> QED
  BY <1>1 DEF Task

\* When all are approved, no task is open but the one to close.
LEMMA OnlyCloses ==
  ASSUME NEW d, NEW ts, Rows(ts), SentTells(d, ts), AllApproved(d), NEW k \in 1..Len(ts), ts[k].status = "Open"
  PROVE  ts[k].kind = "Close"
<1>1. ts[k].kind \in {"Report", "Review", "Close"}
  BY RowKinds
<1>2. ASSUME NEW u \in Executors PROVE ~Due(ts, k, u) /\ ~Judges(ts, k, u)
  <2>1. d.states[u] \notin Working /\ d.states[u] # "Awaiting Review"
    BY NotAll
  <2> QED BY <2>1 DEF SentTells, UserTells, WorkTells, ReviewTells
<1>3. CASE ts[k].kind = "Report"
  <2>1. ts[k].user \in Executors
    BY <1>3 DEF Rows, Row
  <2> QED BY <1>2, <1>3, <2>1 DEF Due, Owes
<1>4. CASE ts[k].kind = "Review"
  <2>1. ts[k].subject \in 1..(k - 1) /\ ts[ts[k].subject].kind = "Report" /\ Len(ts) \in Nat
    BY <1>4 DEF Rows, Row
  <2>2. ts[k].subject \in 1..Len(ts)
    BY <2>1
  <2>3. ts[ts[k].subject].user \in Executors
    BY <2>1, <2>2 DEF Rows, Row
  <2> QED BY <1>2, <1>4, <2>3 DEF Judges
<1> QED
  BY <1>1, <1>3, <1>4

LEMMA CloseKeeps ==
  ASSUME NEW U, NEW d \in Doc, NEW ts, Rows(ts), Tell(d, ts), NEW old, Grown(old, ts), NEW r, NEW i,
         Ceases(d, ts, old, r, i)
  PROVE  Keeps(U, d, ts, r.doc, r.tasks)
<1> DEFINE e == r.doc
           x == r.tasks
<1>1. /\ i \in 1..Len(ts) /\ ts[i].kind = "Close" /\ d.status = "Sent" /\ AllApproved(d)
      /\ e = [d EXCEPT !.status = "Closed"]
      /\ Rows(x) /\ Moves(ts, x, i, "Close") /\ Len(x) = Len(ts)
  BY DEF Ceases, Ends, Grown
<1>2. e.status = "Closed" /\ e.states = d.states
  BY <1>1 DEF Doc
<1> HIDE DEF e, x
<1>3. Sound(ts) /\ SentTells(d, ts)
  BY <1>1, TellsSent
<1>4. ts[i].status = "Open"
  BY <1>1, <1>3 DEF SentTells, CloseTells
<1>5. Steps(ts, x, i, "Close")
  BY <1>1, <1>4 DEF Steps
<1>6. Sound(x)
  BY <1>3, <1>5, SoundAfter
<1>7. ASSUME NEW u \in Executors PROVE ApprovalTells(e.states[u], x, u)
  <2>1. ~Due(ts, i, u) /\ ~Judges(ts, i, u)
    BY <1>1 DEF Due, Owes, Judges
  <2>2. ~Due(x, Len(ts) + 1, u) /\ ~Judges(x, Len(ts) + 1, u)
    <3>1. Len(ts) + 1 \notin 1..Len(x)
      BY <1>1 DEF Rows
    <3> QED BY <3>1 DEF Due, Judges
  <2>3. ApprovalTells(d.states[u], ts, u)
    BY <1>3 DEF SentTells, UserTells
  <2> QED BY <1>2, <1>3, <1>5, <2>1, <2>2, <2>3, Untouched
<1>8. ASSUME NEW k \in 1..Len(x) PROVE x[k].status = "Completed"
  <2>1. k \in 1..Len(ts)
    BY <1>1
  <2>2. ts[k].status \in {"Open", "Completed"}
    BY <2>1, RowKinds
  <2>3. ts[k].status = "Open" => k = i
    BY <1>1, <1>3, <2>1, OnlyCloses DEF SentTells, CloseTells
  <2> QED BY <1>1, <2>1, <2>2, <2>3 DEF Moves
<1>9. Leaves(U, d, ts, e, x)
  BY <1>2 DEF Leaves
<1> QED
  BY <1>2, <1>6, <1>7, <1>8, <1>9 DEF Keeps, Tell, e, x

LEMMA IssueKeeps ==
  ASSUME NEW U, NEW d, NEW ts, Shaped(d, ts), NEW r, Opens(d, r)
  PROVE  Keeps(U, d, ts, r.doc, r.tasks)
<1> DEFINE e == r.doc
           x == r.tasks
<1>1. /\ d.status = "Draft" /\ Active(d) # {} /\ e.status = "Sent" /\ e.states = d.states /\ Rows(x)
      /\ \A i \in 1..Len(x) : IsDuty(x[i], x[i].user, "Report", 0) /\ x[i].user \in Active(d)
      /\ \A i, k \in 1..Len(x) : x[i].user = x[k].user => i = k
      /\ \A u \in Active(d) : \E i \in 1..Len(x) : x[i].user = u
  BY DEF Opens
<1> HIDE DEF e, x
<1>2. \A i \in 1..Len(x) : x[i].kind = "Report" /\ x[i].status = "Open" /\ x[i].action = "none"
  BY <1>1 DEF IsDuty
<1>3. \A u \in Executors : IF u \in Active(d) THEN e.states[u] = "Pending" ELSE e.states[u] = "none"
  <2>1. \A u \in Executors : d.states[u] \in {"none", "Pending"}
    BY <1>1 DEF Shaped
  <2> QED BY <1>1, <2>1 DEF Active
<1>4. Sound(x)
  BY <1>2 DEF Sound
<1>5. ASSUME NEW u \in Executors PROVE UserTells(e.states[u], x, u)
  <2>1. "Pending" \in Working /\ "none" \notin Working
    BY DEF Working
  <2>2. \A k : Due(x, k, u) <=> k \in 1..Len(x) /\ x[k].user = u
    BY <1>2 DEF Due, Owes
  <2>3. \A k : ~Handed(x, k, u) /\ ~Judges(x, k, u)
    BY <1>2 DEF Handed, Judges
  <2>4. \A i, k : Due(x, i, u) /\ Due(x, k, u) => k <= i
    <3>1. \A i \in 1..Len(x) : i <= i
      BY <1>1 DEF Rows
    <3>2. \A i, k : Due(x, i, u) /\ Due(x, k, u) => i = k /\ i \in 1..Len(x)
      BY <1>1, <2>2
    <3> QED BY <3>1, <3>2
  <2>5. u \in Active(d) <=> \E i : Due(x, i, u)
    BY <1>1, <2>2
  <2>6. e.states[u] \in Working <=> \E i : Due(x, i, u)
    BY <1>3, <2>1, <2>5
  <2>7. WorkTells(e.states[u], x, u)
    BY <2>3, <2>4, <2>6 DEF WorkTells
  <2>8. e.states[u] \notin {"Awaiting Review", "Approved"}
    BY <1>3
  <2>9. ReviewTells(e.states[u], x, u)
    BY <2>3, <2>8 DEF ReviewTells
  <2>10. ApprovalTells(e.states[u], x, u)
    BY <2>8 DEF ApprovalTells
  <2> QED BY <2>7, <2>9, <2>10 DEF UserTells
<1>6. CloseTells(e, x)
  <2>1. PICK u \in Executors : u \in Active(d)
    BY <1>1 DEF Active
  <2>2. ~AllApproved(e)
    <3>1. e.states[u] \in Working \cup {"Awaiting Review"}
      BY <1>3, <2>1 DEF Working
    <3> QED BY <3>1, NotAll
  <2> QED BY <1>2, <2>2 DEF CloseTells
<1>7. Leaves(U, d, ts, e, x)
  BY <1>1 DEF Leaves
<1> QED
  BY <1>1, <1>4, <1>5, <1>6, <1>7, TellsSent DEF Keeps, SentTells, e, x

LEMMA SaveKeeps ==
  ASSUME NEW U, NEW d, NEW ts, Shaped(d, ts), d.status \in {"none", "Draft"},
         NEW e, e.status = "Draft", \A u \in Executors : e.states[u] \in {"none", "Pending"}
  PROVE  Keeps(U, d, ts, e, ts)
<1>1. \A k : k \notin 1..Len(ts)
  BY DEF Shaped
<1>2. Sound(ts)
  BY <1>1 DEF Sound
<1>3. \A u \in Executors : ApprovalTells(e.states[u], ts, u)
  BY DEF ApprovalTells
<1>4. Leaves(U, d, ts, e, ts)
  BY DEF Leaves
<1> QED
  BY <1>1, <1>2, <1>3, <1>4 DEF Keeps, Tell

LEMMA RemindKeeps ==
  ASSUME NEW U, NEW d, NEW ts, Rows(ts), Tell(d, ts), NEW r, Tells(d, ts, r)
  PROVE  Keeps(U, d, ts, r.doc, r.tasks)
<1> DEFINE x == r.tasks
<1>1. r.doc = d /\ Rows(x) /\ Len(x) = Len(ts) /\ Moves(ts, x, 0, "none")
  BY DEF Tells
<1> HIDE DEF x
<1>2. Steps(ts, x, 0, "none")
  BY <1>1 DEF Steps
<1>3. Sound(ts) /\ Sound(x)
  BY <1>2, SoundAfter DEF Tell
<1>4. \A u : ~Due(ts, 0, u) /\ ~Judges(ts, 0, u)
  BY Positive DEF Due, Judges
<1>5. \A u : ~Due(x, Len(ts) + 1, u) /\ ~Judges(x, Len(ts) + 1, u)
  <2>1. Len(ts) + 1 \notin 1..Len(x)
    BY <1>1 DEF Rows
  <2> QED BY <2>1 DEF Due, Judges
<1>6. ASSUME NEW u, NEW state
      PROVE  /\ WorkTells(state, ts, u) => WorkTells(state, x, u)
             /\ ReviewTells(state, ts, u) => ReviewTells(state, x, u)
             /\ ApprovalTells(state, ts, u) => ApprovalTells(state, x, u)
  BY <1>2, <1>3, <1>4, <1>5, Untouched
<1>7. \A k \in 1..Len(ts) : k \in 1..Len(x) /\ x[k].kind = ts[k].kind /\ x[k].status = ts[k].status
  <2>1. \A k \in 1..Len(ts) : k # 0
    BY Positive
  <2> QED BY <1>1, <2>1 DEF Moves
<1>8. CloseTells(d, ts) => CloseTells(d, x)
  BY <1>1, <1>7 DEF CloseTells
<1>9. Tell(d, x)
  <2>1. \A u \in Executors : ApprovalTells(d.states[u], x, u)
    BY <1>6 DEF Tell
  <2>2. d.status = "Sent" => /\ \A u \in Executors : WorkTells(d.states[u], x, u) /\ ReviewTells(d.states[u], x, u)
                             /\ CloseTells(d, x)
    BY <1>6, <1>8 DEF Tell
  <2>3. d.status # "Sent" => \A k \in 1..Len(x) : x[k].status = "Completed"
    BY <1>1, <1>7 DEF Tell
  <2> QED BY <1>3, <2>1, <2>2, <2>3 DEF Tell
<1>10. Leaves(U, d, ts, d, x)
  BY <1>7 DEF Leaves
<1> QED
  BY <1>1, <1>9, <1>10 DEF Keeps, x

LEMMA ReportCalls ==
  ASSUME NEW call \in Calls, call.op = "report", NEW d, NEW ts, Shaped(d, ts), Tell(d, ts),
         NEW old, Rows(old), Grown(old, ts), NEW u, call.user = u, Held(u, old, d, ts),
         NEW seen, seen.tasks = old, NEW r \in Report(call, d, ts, seen)
  PROVE  Keeps(u, d, ts, r.doc, r.tasks)
<1>1. d \in Doc /\ Rows(ts) /\ Short(ts)
  BY DEF Shaped
<1>2. PICK i, t : Sends(call, d, ts, old, r, i, t)
  BY <1>1, ReportDoes
<1>3. i \in 1..Len(old) /\ u \in Executors /\ Owes(old, i, u) /\ d.status = "Sent" /\ d.states[u] \in Working
  BY <1>2 DEF Sends, MayReport
<1>4. Owes(ts, i, u)
  BY <1>3, HeldDue
<1> QED
  BY <1>1, <1>2, <1>4, ReportKeeps

LEMMA ReviewCalls ==
  ASSUME NEW call \in Calls, call.op = "review", NEW d, NEW ts, Shaped(d, ts), Tell(d, ts),
         NEW old, Rows(old), Grown(old, ts), Held(Issuer, old, d, ts),
         NEW seen, seen.tasks = old, NEW r \in Review(call, d, ts, seen)
  PROVE  Keeps(Issuer, d, ts, r.doc, r.tasks)
<1>1. d \in Doc /\ Rows(ts)
  BY DEF Shaped
<1>2. PICK j, i, u : Decides(call, d, ts, old, r, j, i, u)
  BY <1>1, ReviewDoes
<1>3. j \in 1..Len(old) /\ i \in 1..Len(old) /\ Asks(old, j, i) /\ old[i].user = u /\ d.status = "Sent"
  BY <1>2 DEF Decides
<1>4. Asks(ts, j, i) /\ ts[i].user = u
  BY <1>3, HeldAsks
<1>5. i \in 1..Len(ts)
  <2>1. Len(old) \in Nat /\ Len(ts) \in Nat /\ Len(old) <= Len(ts)
    BY <1>1 DEF Rows, Grown
  <2> QED BY <1>3, <2>1
<1> QED
  BY <1>1, <1>2, <1>4, <1>5, ReviewKeeps

LEMMA TransferCalls ==
  ASSUME NEW call \in Calls, call.op = "transfer", NEW d, NEW ts, Shaped(d, ts), Tell(d, ts),
         NEW old, Rows(old), Grown(old, ts), NEW U, call.user = U, Held(U, old, d, ts),
         NEW seen, seen.tasks = old, NEW r \in Transfer(call, d, ts, seen)
  PROVE  Keeps(U, d, ts, r.doc, r.tasks)
<1>1. d \in Doc /\ Rows(ts)
  BY DEF Shaped
<1>2. PICK i, t, u, w : PassesOn(call, d, ts, old, r, i, t, u, w)
  BY <1>1, TransferDoes
<1>3. /\ i \in 1..Len(old) /\ u \in Executors /\ U \in {u, Issuer}
      /\ Owes(old, i, u) /\ d.status = "Sent" /\ d.states[u] \in Working
  BY <1>2 DEF PassesOn
<1>4. Owes(ts, i, u)
  BY <1>3, HeldDue
<1> QED
  BY <1>1, <1>2, <1>4, TransferKeeps

LEMMA EffectsKeep ==
  ASSUME NEW call \in Calls, NEW d, NEW ts, Shaped(d, ts), Tell(d, ts), Room(call),
         NEW old, Rows(old), Grown(old, ts), NEW U, call.user = U, Held(U, old, d, ts),
         NEW seen, seen.tasks = old, NEW r \in Effects(call, d, ts, seen)
  PROVE  Keeps(U, d, ts, r.doc, r.tasks)
<1>0. d \in Doc /\ Rows(ts)
  BY DEF Shaped
<1>1. call.op \in {"save", "issue", "start", "report", "progress", "review", "transfer", "close", "remind", "overdue"}
  BY DEF Calls
<1>2. CASE call.op = "save"
  <2>1. r \in SaveDraft(call, d, ts, seen) /\ call.version < MaxVersion /\ (d.status = "none" => d.version = 0)
    BY <1>2 DEF Effects, Room, Shaped
  <2>2. /\ d.status \in {"none", "Draft"} /\ r.tasks = ts /\ r.doc.status = "Draft"
        /\ \A u \in Executors : r.doc.states[u] \in {"none", "Pending"}
    BY <1>0, <1>2, <2>1, SaveDoes
  <2> QED BY <2>2, SaveKeeps
<1>3. CASE call.op = "issue"
  <2>1. r \in Issue(call, d, ts, seen)
    BY <1>3 DEF Effects
  <2>2. d.version <= MaxVersion
    <3>1. d.status = "Draft"
      BY <2>1 DEF Issue
    <3> QED BY <3>1 DEF Shaped
  <2> QED BY <1>0, <2>1, <2>2, IssueDoes, IssueKeeps
<1>4. CASE call.op = "start"
  <2>1. r \in Start(call, d, ts, seen)
    BY <1>4 DEF Effects
  <2> QED BY <1>0, <1>4, <2>1, StartDoes, StartKeeps
<1>5. CASE call.op = "report"
  BY <1>5, ReportCalls DEF Effects
<1>6. CASE call.op = "progress"
  <2>1. r \in Progress(call, d, ts, seen)
    BY <1>6 DEF Effects
  <2>2. PICK t : Notes(call, d, ts, r, t)
    BY <1>0, <1>6, <2>1, ProgressDoes
  <2> QED BY <1>0, <2>2, ProgressKeeps
<1>7. CASE call.op = "review"
  <2>1. U = Issuer
    BY <1>7, CallTypes
  <2> QED BY <1>7, <2>1, ReviewCalls DEF Effects
<1>8. CASE call.op = "transfer"
  BY <1>8, TransferCalls DEF Effects
<1>9. CASE call.op = "close"
  <2>1. r \in Close(call, d, ts, seen)
    BY <1>9 DEF Effects
  <2>2. PICK i : Ceases(d, ts, old, r, i)
    BY <1>0, <2>1, CloseDoes
  <2> QED BY <1>0, <2>2, CloseKeeps
<1>10. CASE call.op \in {"remind", "overdue"}
  <2>1. r \in Remind(call, d, ts, seen) \cup NotifyOverdue(call, d, ts, seen)
    BY <1>10 DEF Effects
  <2> QED BY <1>0, <2>1, RemindDoes, RemindKeeps
<1> QED
  BY <1>1, <1>2, <1>3, <1>4, <1>5, <1>6, <1>7, <1>8, <1>9, <1>10

-----------------------------------------------------------------------------
(* The calls in flight.                                                    *)

LEMMA InitTold == ASSUME Init PROVE Tell(doc, tasks) /\ KeyTells /\ Holds
<1>1. doc = NoDoc /\ tasks = << >> /\ (\A k \in Keys : receipts[k] = NoCall) /\ \A w \in Workers : txn[w] = Idle
  BY DEF Init
<1>2. Tell(doc, tasks)
  <2>1. \A i : i \notin 1..Len(tasks)
    BY <1>1
  <2>2. doc.status = "none" /\ \A u \in Executors : doc.states[u] = "none"
    BY <1>1 DEF NoDoc
  <2>3. Sound(tasks)
    BY <2>1 DEF Sound
  <2>4. \A u \in Executors : ApprovalTells(doc.states[u], tasks, u)
    BY <2>2 DEF ApprovalTells
  <2> QED BY <2>1, <2>2, <2>3, <2>4 DEF Tell
<1>3. \A w \in Workers : ~Busy(w) /\ ~Live(txn[w])
  BY <1>1 DEF Busy, Live, Idle
<1> QED
  BY <1>1, <1>2, <1>3 DEF KeyTells, Holds

\* What a call reads now is held.
LEMMA SnapshotHeld ==
  ASSUME NEW V, NEW op
  PROVE  Held(V, Snapshot(op).tasks, doc, tasks)
<1>1. Snapshot(op).tasks = tasks \/ Snapshot(op).tasks = << >>
  BY DEF Snapshot
<1>2. Held(V, tasks, doc, tasks)
  BY DEF Held, Owes
<1>3. Held(V, << >>, doc, tasks)
  <2>1. \A i : i \notin 1..Len(<< >>)
    OBVIOUS
  <2> QED BY <2>1 DEF Held
<1> QED
  BY <1>1, <1>2, <1>3

\* The inductive invariant.
IInv == BaseInv /\ Tell(doc, tasks) /\ KeyTells /\ Holds

LEMMA BeginTold ==
  ASSUME IInv, ~Impatient, NEW w \in Workers, Begin(w)
  PROVE  KeyTells' /\ Holds'
<1>1. PICK call \in Asked, key \in Keys \cup {NoKey} :
        /\ Serve(w, call, key, NoCall)
        /\ call.user = Scheduler \/ \A v \in Workers : Busy(v) => txn[v].call.user # call.user
        /\ key = NoKey <=> call.user = Scheduler
  BY BeginDoes DEF IInv
<1>2. /\ txn'[w] = [call |-> call, key |-> key, seen |-> Snapshot(call.op), known |-> NoCall]
      /\ \A v \in Workers : v # w => txn'[v] = txn[v]
  BY <1>1, ServeServes DEF IInv
<1>3. txn'[w].call = call /\ txn'[w].key = key /\ txn'[w].seen = Snapshot(call.op)
  BY <1>2
<1>4. /\ receipts' = [k \in Keys |-> IF InFlight(k) THEN receipts[k] ELSE NoCall]
      /\ doc' = doc /\ tasks' = tasks
  BY DEF Begin
<1>5. ASSUME NEW v \in Workers, v # w, Live(txn[v])' PROVE txn'[v] = txn[v] /\ Busy(v) /\ Live(txn[v])
  <2>1. txn'[v] = txn[v] /\ txn[v].call # NoCall
    BY <1>2, <1>5 DEF Live
  <2>2. txn[v].key \in Keys => InFlight(txn[v].key)
    BY DEF InFlight
  <2> QED BY <1>4, <1>5, <2>1, <2>2 DEF Live, NotReceipted, Busy
<1>6. KeyTells'
  <2>1. \A k \in Keys : receipts'[k] # NoCall => receipts'[k].user # Scheduler
    BY <1>4 DEF IInv, KeyTells
  <2>2. ASSUME NEW v \in Workers, Busy(v)' PROVE (txn'[v].key = NoKey <=> txn'[v].call.user = Scheduler)
    <3>1. CASE v = w
      BY <1>1, <1>3, <3>1
    <3>2. CASE v # w
      <4>1. txn'[v] = txn[v] /\ Busy(v)
        BY <1>2, <2>2, <3>2 DEF Busy
      <4> QED BY <4>1 DEF IInv, KeyTells
    <3> QED BY <3>1, <3>2
  <2>3. ASSUME NEW v \in Workers, NEW x \in Workers, Live(txn[v])', Live(txn[x])',
               txn'[v].call.user = txn'[x].call.user, txn'[v].call.user # Scheduler
        PROVE  txn'[v].key = txn'[x].key
    <3>1. CASE v # w /\ x # w
      <4>1. txn'[v] = txn[v] /\ txn'[x] = txn[x] /\ Live(txn[v]) /\ Live(txn[x])
        BY <1>5, <2>3, <3>1
      <4> QED BY <2>3, <4>1 DEF IInv, KeyTells
    <3>2. CASE v = w /\ x # w
      BY <1>1, <1>3, <1>5, <2>3, <3>2
    <3>3. CASE v # w /\ x = w
      BY <1>1, <1>3, <1>5, <2>3, <3>3
    <3> QED BY <3>1, <3>2, <3>3
  <2> QED BY <2>1, <2>2, <2>3 DEF KeyTells
<1>7. ASSUME NEW v \in Workers, Live(txn[v])' PROVE Held(txn'[v].call.user, txn'[v].seen.tasks, doc', tasks')
  <2>1. CASE v = w
    BY <1>3, <1>4, <2>1, SnapshotHeld
  <2>2. CASE v # w
    <3>1. txn'[v] = txn[v] /\ Live(txn[v])
      BY <1>5, <1>7, <2>2
    <3> QED BY <1>4, <3>1 DEF IInv, Holds
  <2> QED BY <2>1, <2>2
<1> QED
  BY <1>6, <1>7 DEF Holds

LEMMA RetryTold ==
  ASSUME IInv, NEW w \in Workers, Retry(w)
  PROVE  KeyTells' /\ Holds'
<1>1. PICK call \in Asked, key \in Keys :
        /\ Serve(w, call, key, receipts[key])
        /\ receipts[key] = call \/ \E v \in Workers : txn[v].key = key /\ txn[v].call = call
  BY RetryDoes DEF IInv
<1>2. /\ txn'[w] = [call |-> call, key |-> key, seen |-> Snapshot(call.op), known |-> receipts[key]]
      /\ \A v \in Workers : v # w => txn'[v] = txn[v]
  <2>1. key \in Keys \cup {NoKey}
    OBVIOUS
  <2> QED BY <1>1, <2>1, ServeServes DEF IInv
<1>3. txn'[w].call = call /\ txn'[w].key = key /\ txn'[w].seen = Snapshot(call.op)
  BY <1>2
<1>4. receipts' = receipts /\ doc' = doc /\ tasks' = tasks
  BY DEF Retry
<1>5. call # NoCall /\ key # NoKey
  BY DirectiveTypes DEF DirectiveTypes, Asked
<1>6. call.user # Scheduler
  <2>1. CASE receipts[key] = call
    BY <1>5, <2>1 DEF IInv, KeyTells
  <2>2. ASSUME NEW v \in Workers, txn[v].key = key, txn[v].call = call PROVE call.user # Scheduler
    BY <1>5, <2>2 DEF IInv, KeyTells, Busy
  <2> QED BY <1>1, <2>1, <2>2
<1>7. ASSUME NEW v \in Workers, v # w, Live(txn[v])' PROVE txn'[v] = txn[v] /\ Live(txn[v])
  BY <1>2, <1>4, <1>7 DEF Live, NotReceipted
<1>8. ASSUME Live(txn[w])', NEW v \in Workers, v # w, Live(txn[v])', txn'[v].call.user = call.user
      PROVE  txn'[v].key = key
  <2>1. receipts[key] = NoCall
    BY <1>3, <1>4, <1>8 DEF Live, NotReceipted
  <2>2. PICK x \in Workers : txn[x].key = key /\ txn[x].call = call
    BY <1>1, <1>5, <2>1
  <2>3. Live(txn[x])
    BY <1>5, <2>1, <2>2 DEF Live, NotReceipted
  <2>4. txn'[v] = txn[v] /\ Live(txn[v])
    BY <1>7, <1>8
  <2> QED BY <1>6, <1>8, <2>2, <2>3, <2>4 DEF IInv, KeyTells
<1>9. KeyTells'
  <2>1. ASSUME NEW v \in Workers, Busy(v)' PROVE (txn'[v].key = NoKey <=> txn'[v].call.user = Scheduler)
    <3>1. CASE v = w
      BY <1>3, <1>5, <1>6, <3>1
    <3>2. CASE v # w
      <4>1. txn'[v] = txn[v] /\ Busy(v)
        BY <1>2, <2>1, <3>2 DEF Busy
      <4> QED BY <4>1 DEF IInv, KeyTells
    <3> QED BY <3>1, <3>2
  <2>2. ASSUME NEW v \in Workers, NEW x \in Workers, Live(txn[v])', Live(txn[x])',
               txn'[v].call.user = txn'[x].call.user, txn'[v].call.user # Scheduler
        PROVE  txn'[v].key = txn'[x].key
    <3>1. CASE v # w /\ x # w
      <4>1. txn'[v] = txn[v] /\ txn'[x] = txn[x] /\ Live(txn[v]) /\ Live(txn[x])
        BY <1>7, <2>2, <3>1
      <4> QED BY <2>2, <4>1 DEF IInv, KeyTells
    <3>2. CASE v = w /\ x # w
      BY <1>3, <1>8, <2>2, <3>2
    <3>3. CASE v # w /\ x = w
      BY <1>3, <1>8, <2>2, <3>3
    <3> QED BY <3>1, <3>2, <3>3
  <2> QED BY <1>4, <2>1, <2>2 DEF KeyTells, IInv
<1>10. ASSUME NEW v \in Workers, Live(txn[v])' PROVE Held(txn'[v].call.user, txn'[v].seen.tasks, doc', tasks')
  <2>1. CASE v = w
    BY <1>3, <1>4, <2>1, SnapshotHeld
  <2>2. CASE v # w
    <3>1. txn'[v] = txn[v] /\ Live(txn[v])
      BY <1>7, <1>10, <2>2
    <3> QED BY <1>4, <3>1 DEF IInv, Holds
  <2> QED BY <2>1, <2>2
<1> QED
  BY <1>9, <1>10 DEF Holds

\* A directive that is closed stays as it is.
LEMMA ClosedStays ==
  ASSUME NEW call \in Calls, NEW d, d.status = "Closed", NEW ts, NEW seen, NEW r \in Effects(call, d, ts, seen)
  PROVE  r.doc = d
<1>1. call.op \in {"save", "issue", "start", "report", "progress", "review", "transfer", "close", "remind", "overdue"}
  BY DEF Calls
<1>2. CASE call.op = "save"
  BY <1>2 DEF Effects, SaveDraft
<1>3. CASE call.op = "issue"
  BY <1>3 DEF Effects, Issue
<1>4. CASE call.op = "start"
  BY <1>4 DEF Effects, Start, MayStart
<1>5. CASE call.op = "report"
  BY <1>5 DEF Effects, Report, MayReport
<1>6. CASE call.op = "progress"
  BY <1>6 DEF Effects, Progress, MayReport
<1>7. CASE call.op = "review"
  BY <1>7 DEF Effects, Review
<1>8. CASE call.op = "transfer"
  BY <1>8 DEF Effects, Transfer, MayTransfer
<1>9. CASE call.op = "close"
  BY <1>9 DEF Effects, Close, MayClose
<1>10. CASE call.op \in {"remind", "overdue"}
  BY <1>10, WrittenRows DEF Effects, Remind, NotifyOverdue
<1> QED
  BY <1>1, <1>2, <1>3, <1>4, <1>5, <1>6, <1>7, <1>8, <1>9, <1>10

\* A call keeps what calls of other users hold.
LEMMA OthersHold ==
  ASSUME NEW U, NEW V, U # V \/ V = Scheduler, NEW d, NEW ts, Shaped(d, ts), NEW e, NEW x, Leaves(U, d, ts, e, x),
         d.status = "Closed" => e.status = "Closed", NEW old, Grown(old, ts), Rows(old), Held(V, old, d, ts)
  PROVE  Held(V, old, e, x)
<1>1. CASE V = Scheduler
  BY <1>1, DirectiveTypes DEF Held, DirectiveTypes
<1>2. CASE U # V /\ d.status = "Sent"
  BY <1>2, LeavesHeld DEF Shaped
<1>3. CASE d.status = "Closed"
  BY <1>3 DEF Held
<1>4. CASE d.status \in {"none", "Draft"}
  <2>1. ts = << >> /\ Len(old) \in Nat
    BY <1>4 DEF Shaped, Rows
  <2>2. Len(old) = 0
    BY <2>1 DEF Grown
  <2>3. \A i : i \notin 1..Len(old)
    BY <2>2
  <2> QED BY <2>3 DEF Held
<1>5. d.status \in {"none", "Draft", "Sent", "Closed"}
  BY DEF Shaped, Doc
<1> QED
  BY <1>1, <1>2, <1>3, <1>4, <1>5

LEMMA FinishKeeps ==
  ASSUME IInv, NEW w \in Workers, Finish(w)
  PROVE  /\ Keeps(txn[w].call.user, doc, tasks, doc', tasks')
         /\ doc.status = "Closed" => doc' = doc
<1> DEFINE call == txn[w].call
           seen == txn[w].seen
           old == txn[w].seen.tasks
<1>1. PICK r : r \in Effects(call, doc, tasks, seen) /\ doc' = r.doc /\ tasks' = r.tasks
  BY FinishDoes DEF Commits, IInv
<1>2. call \in Calls /\ Room(call) /\ Rows(old) /\ Grown(old, tasks) /\ Shaped(doc, tasks) /\ Tell(doc, tasks)
  BY FinishDoes DEF Commits, IInv, BaseInv, Serves, Asked
<1>3. Held(call.user, old, doc, tasks)
  <2>1. Live(txn[w])
    BY DEF Finish, Busy, Live
  <2> QED BY <2>1 DEF IInv, Holds
<1>4. seen.tasks = old
  OBVIOUS
<1> HIDE DEF call, seen, old
<1>5. Keeps(call.user, doc, tasks, r.doc, r.tasks)
  BY <1>1, <1>2, <1>3, <1>4, EffectsKeep
<1>6. doc.status = "Closed" => r.doc = doc
  BY <1>1, <1>2, ClosedStays
<1> QED
  BY <1>1, <1>5, <1>6 DEF call

LEMMA FinishTold ==
  ASSUME IInv, NEW w \in Workers, Finish(w)
  PROVE  Tell(doc', tasks') /\ KeyTells' /\ Holds'
<1> DEFINE U == txn[w].call.user
           key == txn[w].key
<1>1. Keeps(U, doc, tasks, doc', tasks') /\ (doc.status = "Closed" => doc' = doc)
  BY FinishKeeps
<1>2. Tell(doc', tasks') /\ Leaves(U, doc, tasks, doc', tasks')
  BY <1>1 DEF Keeps
<1>3. txn'[w] = Idle /\ \A v \in Workers : v # w => txn'[v] = txn[v]
  BY IdleBase DEF Finish, IInv
<1>4. ~Busy(w)' /\ ~Live(txn[w])'
  BY <1>3 DEF Busy, Live, Idle
<1>5. Live(txn[w]) /\ Busy(w) /\ (key = NoKey <=> U = Scheduler) /\ key \in Keys \cup {NoKey} /\ txn[w].call # NoCall
  BY DEF Finish, Busy, Live, IInv, KeyTells, BaseInv, Serves
<1>6. IF key = NoKey THEN receipts' = receipts ELSE receipts' = [receipts EXCEPT ![key] = txn[w].call]
  BY DEF Finish
<1>7. receipts \in [Keys -> Asked \cup {NoCall}]
  BY DEF IInv, BaseInv, Receipted
<1> HIDE DEF U, key
<1>8. \A k \in Keys : IF k = key THEN receipts'[k] = txn[w].call ELSE receipts'[k] = receipts[k]
  <2>1. CASE key = NoKey
    BY <1>6, <2>1, DirectiveTypes DEF DirectiveTypes
  <2>2. CASE key # NoKey
    BY <1>6, <1>7, <2>2
  <2> QED BY <2>1, <2>2
<1>9. ASSUME NEW v \in Workers, Live(txn[v])'
      PROVE  /\ v # w /\ txn'[v] = txn[v] /\ Live(txn[v])
             /\ U # txn[v].call.user \/ txn[v].call.user = Scheduler
  <2>1. v # w
    BY <1>4, <1>9
  <2>2. txn'[v] = txn[v]
    BY <1>3, <2>1
  <2>3. txn[v].call # NoCall /\ (txn[v].key \in Keys => receipts'[txn[v].key] = NoCall)
    BY <1>9, <2>2 DEF Live, NotReceipted
  <2>4. txn[v].key \in Keys => txn[v].key # key /\ receipts[txn[v].key] = NoCall
    BY <1>5, <1>8, <2>3
  <2>5. Live(txn[v])
    BY <2>3, <2>4 DEF Live, NotReceipted
  <2>6. ASSUME U = txn[v].call.user, U # Scheduler PROVE FALSE
    <3>1. txn[v].key = key
      BY <1>5, <2>5, <2>6 DEF IInv, KeyTells, U, key
    <3>2. key \in Keys
      BY <1>5, <2>6
    <3> QED BY <2>4, <3>1, <3>2
  <2> QED BY <2>1, <2>2, <2>5, <2>6
<1>10. KeyTells'
  <2>1. ASSUME NEW k \in Keys, receipts'[k] # NoCall PROVE receipts'[k].user # Scheduler
    <3>1. CASE k = key
      <4>1. key # NoKey
        BY <3>1, DirectiveTypes DEF DirectiveTypes
      <4> QED BY <1>5, <1>8, <3>1, <4>1 DEF U
    <3>2. CASE k # key
      BY <1>8, <2>1, <3>2 DEF IInv, KeyTells
    <3> QED BY <3>1, <3>2
  <2>2. ASSUME NEW v \in Workers, Busy(v)' PROVE (txn'[v].key = NoKey <=> txn'[v].call.user = Scheduler)
    <3>1. v # w /\ txn'[v] = txn[v]
      BY <1>3, <1>4, <2>2
    <3>2. Busy(v)
      BY <2>2, <3>1 DEF Busy
    <3> QED BY <3>1, <3>2 DEF IInv, KeyTells
  <2>3. ASSUME NEW v \in Workers, NEW x \in Workers, Live(txn[v])', Live(txn[x])',
               txn'[v].call.user = txn'[x].call.user, txn'[v].call.user # Scheduler
        PROVE  txn'[v].key = txn'[x].key
    <3>1. txn'[v] = txn[v] /\ txn'[x] = txn[x] /\ Live(txn[v]) /\ Live(txn[x])
      BY <1>9, <2>3
    <3> QED BY <2>3, <3>1 DEF IInv, KeyTells
  <2> QED BY <2>1, <2>2, <2>3 DEF KeyTells
<1>11. ASSUME NEW v \in Workers, Live(txn[v])' PROVE Held(txn'[v].call.user, txn'[v].seen.tasks, doc', tasks')
  <2>1. /\ txn'[v] = txn[v] /\ Live(txn[v])
        /\ U # txn[v].call.user \/ txn[v].call.user = Scheduler
    BY <1>9, <1>11
  <2>2. /\ Shaped(doc, tasks) /\ Rows(txn[v].seen.tasks) /\ Grown(txn[v].seen.tasks, tasks)
        /\ Held(txn[v].call.user, txn[v].seen.tasks, doc, tasks)
    BY <2>1 DEF IInv, BaseInv, Serves, Holds
  <2> QED BY <1>1, <1>2, <2>1, <2>2, OthersHold
<1> QED
  BY <1>2, <1>10, <1>11 DEF Holds

LEMMA GiveUpTold ==
  ASSUME IInv, NEW w \in Workers, GiveUp(w)
  PROVE  KeyTells' /\ Holds'
<1>1. txn'[w] = Idle /\ \A v \in Workers : v # w => txn'[v] = txn[v]
  BY IdleBase DEF GiveUp, IInv
<1>2. UNCHANGED <<doc, tasks, receipts>>
  BY DEF GiveUp
<1>3. ~Busy(w)' /\ ~Live(txn[w])'
  BY <1>1 DEF Busy, Live, Idle
<1>4. ASSUME NEW v \in Workers, Live(txn[v])' PROVE txn'[v] = txn[v] /\ Live(txn[v])
  BY <1>1, <1>2, <1>3, <1>4 DEF Live, NotReceipted
<1>5. ASSUME NEW v \in Workers, Busy(v)' PROVE txn'[v] = txn[v] /\ Busy(v)
  BY <1>1, <1>3, <1>5 DEF Busy
<1> QED
  BY <1>2, <1>4, <1>5 DEF KeyTells, Holds, IInv

LEMMA NextTold == ASSUME IInv, ~Impatient, [Next]_vars PROVE IInv'
<1>1. BaseInv'
  BY NextBase DEF IInv
<1>2. ASSUME UNCHANGED <<doc, tasks, receipts, txn>> PROVE Tell(doc', tasks') /\ KeyTells' /\ Holds'
  BY <1>2 DEF IInv, KeyTells, Holds, Live, Busy, NotReceipted
<1>3. ASSUME UNCHANGED vars PROVE Tell(doc', tasks') /\ KeyTells' /\ Holds'
  <2>1. UNCHANGED <<doc, tasks, receipts, txn>>
    BY <1>3 DEF vars
  <2> QED BY <1>2, <2>1
<1>4. ASSUME NEW w \in Workers, Begin(w) \/ Retry(w) \/ GiveUp(w) PROVE Tell(doc', tasks') /\ KeyTells' /\ Holds'
  <2>1. doc' = doc /\ tasks' = tasks
    BY <1>4 DEF Begin, Retry, GiveUp
  <2>2. KeyTells' /\ Holds'
    BY <1>4, BeginTold, RetryTold, GiveUpTold
  <2> QED BY <2>1, <2>2 DEF IInv
<1>5. ASSUME NEW w \in Workers, Finish(w) PROVE Tell(doc', tasks') /\ KeyTells' /\ Holds'
  BY <1>5, FinishTold
<1>6. ASSUME NEW u \in Movable, Reassign(u) PROVE Tell(doc', tasks') /\ KeyTells' /\ Holds'
  BY <1>2, <1>6 DEF Reassign
<1>7. ASSUME Tick PROVE Tell(doc', tasks') /\ KeyTells' /\ Holds'
  BY <1>2, <1>7 DEF Tick
<1> QED
  BY <1>1, <1>3, <1>4, <1>5, <1>6, <1>7 DEF Next, IInv

\* What the tasks tell and what calls in flight hold is kept by every step, if a
\* user waits for an answer before the next call (_mutation, _open_task).
THEOREM Invariance == ASSUME ~Impatient PROVE Spec => []IInv
<1>1. Init => IInv
  BY InitBase, InitTold DEF IInv
<1>2. IInv /\ [Next]_vars => IInv'
  BY NextTold
<1> QED
  BY <1>1, <1>2, PTL DEF Spec

-----------------------------------------------------------------------------
(* What the invariant says of the tasks, counted.                          *)

\* A set that holds at most one element, and that one if P.
LEMMA OneOrNone ==
  ASSUME NEW S, NEW P \in BOOLEAN, \A x, y \in S : x = y, P <=> S # {}
  PROVE  Cardinality(S) = IF P THEN 1 ELSE 0
<1>1. CASE S = {}
  BY <1>1, FS_EmptySet
<1>2. CASE S # {}
  <2>1. PICK x : x \in S
    BY <1>2
  <2>2. S = {x}
    BY <2>1
  <2>3. Cardinality({x}) = 1
    BY FS_Singleton
  <2> QED BY <1>2, <2>2, <2>3
<1> QED
  BY <1>1, <1>2

LEMMA Tables == ASSUME IInv PROVE DOMAIN tasks = 1..Len(tasks) /\ Rows(tasks) /\ Sound(tasks) /\ doc \in Doc
<1>1. tasks \in Seq(Task)
  BY DEF IInv, BaseInv, Shaped, Rows
<1> QED
  BY <1>1 DEF IInv, BaseInv, Shaped, Rows, Tell

LEMMA WorkCounted ==
  ASSUME IInv, doc.status = "Sent", NEW u \in Executors
  PROVE  Cardinality(OpenAmong(tasks, u, "Report")) = IF doc.states[u] \in Working THEN 1 ELSE 0
<1>1. \A i : i \in OpenAmong(tasks, u, "Report") <=> Due(tasks, i, u)
  BY Tables DEF OpenAmong, Due, Owes
<1>2. WorkTells(doc.states[u], tasks, u)
  BY DEF IInv, Tell
<1>3. \A i, k \in OpenAmong(tasks, u, "Report") : i = k
  <2>1. \A i, k : Due(tasks, i, u) /\ Due(tasks, k, u) => i <= k /\ k <= i /\ i \in 1..Len(tasks) /\ k \in 1..Len(tasks)
    BY <1>2 DEF WorkTells, Due
  <2>2. \A i, k \in Nat : i <= k /\ k <= i => i = k
    OBVIOUS
  <2>3. \A i : i \in 1..Len(tasks) => i \in Nat
    BY Tables DEF Rows
  <2> QED BY <1>1, <2>1, <2>2, <2>3
<1>4. doc.states[u] \in Working <=> OpenAmong(tasks, u, "Report") # {}
  BY <1>1, <1>2 DEF WorkTells
<1>5. (doc.states[u] \in Working) \in BOOLEAN
  OBVIOUS
<1> QED
  BY <1>3, <1>4, <1>5, OneOrNone

LEMMA ReviewsJudge ==
  ASSUME IInv, NEW u \in Executors
  PROVE  \A j : j \in OpenReviews(u) <=> Judges(tasks, j, u)
<1>1. \A j \in 1..Len(tasks) : tasks[j].kind = "Review" => tasks[j].user = Issuer
  BY Tables DEF Rows, Row
<1> QED
  BY <1>1, Tables DEF OpenReviews, OpenAmong, Judges

LEMMA ReportsHanded ==
  ASSUME IInv, NEW u
  PROVE  \A i : i \in Reports(u) <=> Handed(tasks, i, u)
BY Tables DEF Reports, Handed

LEMMA ReviewsCounted ==
  ASSUME IInv, doc.status = "Sent", NEW u \in Executors
  PROVE  /\ Cardinality(OpenReviews(u)) = IF doc.states[u] = "Awaiting Review" THEN 1 ELSE 0
         /\ \A j \in OpenReviews(u), i \in Reports(u) : i <= tasks[j].subject
<1>1. ReviewTells(doc.states[u], tasks, u)
  BY DEF IInv, Tell
<1>2. \A j, k \in OpenReviews(u) : j = k
  BY <1>1, ReviewsJudge DEF ReviewTells
<1>3. doc.states[u] = "Awaiting Review" <=> OpenReviews(u) # {}
  BY <1>1, ReviewsJudge DEF ReviewTells
<1>4. Cardinality(OpenReviews(u)) = IF doc.states[u] = "Awaiting Review" THEN 1 ELSE 0
  <2>1. (doc.states[u] = "Awaiting Review") \in BOOLEAN
    OBVIOUS
  <2> QED BY <1>2, <1>3, <2>1, OneOrNone
<1>5. \A j \in OpenReviews(u), i \in Reports(u) : i <= tasks[j].subject
  BY <1>1, ReviewsJudge, ReportsHanded DEF ReviewTells
<1> QED
  BY <1>4, <1>5

LEMMA ClosesCounted ==
  ASSUME IInv, doc.status = "Sent"
  PROVE  Cardinality(OpenAmong(tasks, Issuer, "Close")) = IF AllApproved(doc) THEN 1 ELSE 0
<1>1. CloseTells(doc, tasks)
  BY DEF IInv, Tell
<1>2. \A i \in 1..Len(tasks) : tasks[i].kind = "Close" => tasks[i].user = Issuer
  BY Tables DEF Rows, Row
<1>3. \A i : i \in OpenAmong(tasks, Issuer, "Close") <=> i \in 1..Len(tasks) /\ tasks[i].kind = "Close"
  BY <1>1, <1>2, Tables DEF OpenAmong, CloseTells
<1>4. \A i, k \in OpenAmong(tasks, Issuer, "Close") : i = k
  BY <1>1, <1>3 DEF CloseTells
<1>5. AllApproved(doc) <=> OpenAmong(tasks, Issuer, "Close") # {}
  BY <1>1, <1>3 DEF CloseTells
<1>6. AllApproved(doc) \in BOOLEAN
  BY DEF AllApproved
<1> QED
  BY <1>4, <1>5, <1>6, OneOrNone

LEMMA DutiesTold == IInv => DutiesOpen
<1> SUFFICES ASSUME IInv PROVE DutiesOpen
  OBVIOUS
<1>1. doc.status # "Sent" => \A i \in DOMAIN tasks : tasks[i].status = "Completed"
  BY Tables DEF IInv, Tell
<1> QED
  BY <1>1, WorkCounted, ReviewsCounted, ClosesCounted DEF DutiesOpen

LEMMA ApprovalsTold == IInv => ApprovedByReview
<1> SUFFICES ASSUME IInv, NEW u \in Executors, doc.states[u] = "Approved"
             PROVE  \E i \in Reports(u) :
                      /\ \A h \in Reports(u) : h <= i
                      /\ \E j \in DOMAIN tasks : tasks[j].subject = i /\ tasks[j].action = "Approve"
  BY DEF ApprovedByReview
<1>1. PICK i, j : Handed(tasks, i, u) /\ Passes(tasks, j, i) /\ \A k : Handed(tasks, k, u) => k <= i
  BY DEF IInv, Tell, ApprovalTells
<1>2. i \in Reports(u) /\ \A h \in Reports(u) : h <= i
  BY <1>1, ReportsHanded
<1>3. j \in DOMAIN tasks /\ tasks[j].subject = i /\ tasks[j].action = "Approve"
  BY <1>1, Tables DEF Passes
<1> QED
  BY <1>2, <1>3

\* If a user waits for an answer before the next call, the tasks tell the state of
\* the directive: an executor at work has one open task, one who waits has one
\* review of the latest report with the issuer, approvals are of the last report,
\* and the issuer may close exactly when all are approved (every call of
\* directives.py).
THEOREM TasksTellStateHolds == ASSUME ~Impatient PROVE Spec => []TasksTellState
<1>1. IInv => TasksTellState
  BY DutiesTold, ApprovalsTold, BaseTypes DEF IInv, TasksTellState
<1> QED
  BY <1>1, Invariance, PTL
================================================================================
