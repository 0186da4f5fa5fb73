------------------------------ MODULE HrDocument ------------------------------
(***************************************************************************)
(* The five HR documents: salary change orders, employment contracts,      *)
(* introduction letters, employment certificates and hiring orders.  Each  *)
(* is a row whose values_json holds the whole document; it is drafted from *)
(* the company's template, sent, reviewed by a workflow if the template    *)
(* names one, and issued under an official number.                         *)
(*                                                                         *)
(* They follow one another's pattern and differ where it matters: which    *)
(* calls lock the row before they read it, which compare a revision or the *)
(* stamp of the document, which keys are unique.  A behaviour is about the *)
(* documents of one kind.                                                  *)
(*                                                                         *)
(* A call is a REPEATABLE READ transaction: Begin keeps what its plain     *)
(* reads see of the rows that matter to it (row, form, keys, taken, all    *)
(* of one snapshot), Finish commits against the committed rows c.  An      *)
(* operator returns the rows the call may commit, {} when it is refused or *)
(* changes nothing.                                                        *)
(***************************************************************************)
EXTENDS Naturals, FiniteSets

CONSTANTS
  Kinds,    \* of documents considered
  Serial,   \* kinds whose calls are served one at a time
  MaxDocs,  \* bound: documents
  MaxInst,  \* bound: workflow instances
  Keys,     \* idempotency keys the clients use
  Workers,  \* processes that serve calls
  MaxRev,   \* bound: the revision up to which each document is edited, sent or applied
  MaxVersion, \* bound: published versions of the template
  MaxDay    \* bound: days the clock and the dates of salary orders run over

AllKinds == {"Salary", "Contract", "Letter", "Certificate", "Hiring"}

Docs == 1..MaxDocs

Instances == 1..MaxInst

NoKey == "no key"

Days == 1..MaxDay

\* effective_date of an order that names none.
Undated == 0

ASSUME HrAssumption ==
  /\ Kinds \subseteq AllKinds
  /\ Serial \subseteq AllKinds
  /\ MaxDocs \in Nat /\ MaxInst \in Nat /\ MaxVersion \in Nat
  /\ MaxDay \in Nat \ {0}
  /\ MaxRev \in [1..MaxDocs -> Nat]
  /\ NoKey \notin Keys

VARIABLES
  kind,  \* of the documents of this behaviour
  db,    \* committed rows
  txn,   \* the call each worker serves
  today  \* nowdate()

vars == <<kind, db, txn, today>>

-----------------------------------------------------------------------------
(* Rows.                                                                   *)

Ends == {"completed", "rejected", "cancelled", "failed"}

DocStatuses == {"none", "draft", "pending", "final", "rejected", "cancelled", "failed"}

\* ASOUD Form Entry.  key is the key of the call that created it, sent that of
\* the call that sent it, wf whether the template snapshot names a workflow,
\* inst the workflow instance, 0 if none, applied the operation that carried a
\* salary change to payroll, date the day it takes effect.
Document == [status : DocStatuses, rev : Nat, key : Keys \cup {NoKey},
             sent : Keys \cup {NoKey}, inst : 0..MaxInst, wf : BOOLEAN,
             number : Nat, applied : Keys \cup {NoKey}, date : {Undated} \cup Days]

\* The request and its instance, under the key derived from entry and key.
NoInstance == [status |-> "none", of |-> 0, key |-> NoKey]

Instance == {NoInstance} \cup [status : {"running"} \cup Ends, of : Docs, key : Keys]

\* ASOUD Form: draft is the workflow choice of the draft, wf that of the
\* active revision.  A save of the same content is no change.
Template == [active : 0..MaxVersion, wf : BOOLEAN, draft : BOOLEAN]

\* assigned counts the Salary Structure Assignments made from a document by the
\* day they start, series the official numbers given.
Rows == [doc : [Docs -> Document], inst : [Instances -> Instance], form : Template,
         assigned : [Docs -> [Days -> Nat]], series : Nat]

NoDocument == [status |-> "none", rev |-> 0, key |-> NoKey, sent |-> NoKey, inst |-> 0,
               wf |-> FALSE, number |-> 0, applied |-> NoKey, date |-> Undated]

-----------------------------------------------------------------------------
(* How the kinds differ.                                                   *)

\* These read the row, check it and write the whole of it back unlocked.
Unlocked == {"Salary", "Hiring"}

\* request_key is a unique column; a contract only sets fingerprint.
UniqueKey(k) == k # "Contract"

\* The revision the client saw is optional.
RevisionOptional == {"Contract", "Letter"}

\* Workflow choices a new snapshot may carry: those of the active revision, or
\* else of the draft, of the default template, or none at all; the caller of a
\* contract may name another.
Governing(k, form) ==
  (IF k = "Contract" THEN {TRUE} ELSE {}) \cup
  (IF form.active > 0 THEN {form.wf}
   ELSE CASE k = "Hiring" -> {}
          [] k = "Salary" -> {FALSE}
          [] OTHER -> {form.draft})

\* Dates a caller may give; no other kind keeps one.
Dates(k) == IF k = "Salary" THEN {Undated} \cup Days ELSE {Undated}

-----------------------------------------------------------------------------
(* The template.                                                           *)

\* save_..._template: the stamp of what was loaded is compared.
SaveTemplate(form, c, wf) ==
  IF form # c.form THEN {} ELSE {[c EXCEPT !.form = [form EXCEPT !.draft = wf]]}

\* publish_..._template: a revision with the next version becomes active.
PublishTemplate(form, c) ==
  IF form # c.form \/ form.active = MaxVersion THEN {}
  ELSE {[c EXCEPT !.form = [form EXCEPT !.active = form.active + 1, !.wf = form.draft]]}

-----------------------------------------------------------------------------
(* Drafts.                                                                 *)

FreshDoc(c) ==
  {d \in Docs : /\ c.doc[d].status = "none"
                /\ \A x \in Docs : c.doc[x].status = "none" => d <= x}

NewDraft(key, wf, date) ==
  [NoDocument EXCEPT !.status = "draft", !.rev = 1, !.key = key, !.wf = wf, !.date = date]

UsedKeys(c) == {c.doc[d].key : d \in Docs} \ {NoKey}

\* Mutation of Create: request_key is not unique.
CreateAnyKey(k, keys, form, c, key) ==
  IF key \in keys THEN {}
  ELSE {[c EXCEPT !.doc[d] = NewDraft(key, wf, date)] :
          d \in FreshDoc(c), wf \in Governing(k, form), date \in Dates(k)}

\* A new draft; the document a repeated key made is looked for in the
\* snapshot, and the unique column refuses the one the snapshot missed.
Create(k, keys, form, c, key) ==
  IF key \in keys \/ (UniqueKey(k) /\ key \in UsedKeys(c)) THEN {}
  ELSE {[c EXCEPT !.doc[d] = NewDraft(key, wf, date)] :
          d \in FreshDoc(c), wf \in Governing(k, form), date \in Dates(k)}

Redrafted(row, wf, date) == [row EXCEPT !.rev = row.rev + 1, !.wf = wf, !.date = date]

\* save_hiring_order and save_salary_change_order of an existing order.
EditUnlocked(k, row, form, c, d) ==
  IF row.status # "draft" THEN {}
  ELSE {[c EXCEPT !.doc[d] = Redrafted(row, wf, date)] :
          wf \in IF k = "Hiring" THEN {row.wf} ELSE Governing(k, form), date \in Dates(k)}

\* save_draft of a letter or a certificate: the row is locked.
EditLocked(k, row, form, c, d) ==
  IF \/ c.doc[d].status # "draft"
     \/ k \notin RevisionOptional /\ c.doc[d].rev # row.rev
  THEN {}
  ELSE {[c EXCEPT !.doc[d] = [c.doc[d] EXCEPT !.rev = c.doc[d].rev + 1, !.wf = wf]] :
          wf \in Governing(k, form)}

\* save_contract_draft: the Contract document is saved too, and its stamp
\* tells that the row is still the one of the snapshot.
EditContract(k, row, form, c, d) ==
  IF row # c.doc[d] \/ row.status \in {"none", "pending", "final"} THEN {}
  ELSE {[c EXCEPT !.doc[d] = [row EXCEPT !.status = "draft", !.rev = row.rev + 1,
                                         !.sent = NoKey, !.inst = 0, !.wf = wf]] :
          wf \in Governing(k, form)}

\* Mutation of Edit: letters and certificates are read unlocked too.
EditAllUnlocked(k, row, form, c, d) ==
  IF k = "Contract" THEN EditContract(k, row, form, c, d)
  ELSE EditUnlocked(k, row, form, c, d)

Edit(k, row, form, c, d) ==
  CASE k \in Unlocked -> EditUnlocked(k, row, form, c, d)
    [] k = "Contract" -> EditContract(k, row, form, c, d)
    [] OTHER -> EditLocked(k, row, form, c, d)

-----------------------------------------------------------------------------
(* Sending, and what the workflow makes of the document.                   *)

\* Mutation of Issue: the status is spelt as the letters spell it.
IssueCapital(c, d, row) ==
  [c EXCEPT !.doc[d] = [row EXCEPT !.status = "Final", !.number = c.series + 1],
            !.series = c.series + 1]

\* _issue, _finalize: the next number of the series, under its row lock.
Issue(c, d, row) ==
  [c EXCEPT !.doc[d] = [row EXCEPT !.status = "final", !.number = c.series + 1],
            !.series = c.series + 1]

\* on_instance_update: the row is locked and must still wait for this very
\* instance; an instance that is not over changes nothing.
OnInstanceUpdate(c, i) ==
  LET d == c.inst[i].of
      row == [c.doc[d] EXCEPT !.rev = c.doc[d].rev + 1]
  IN IF \/ c.inst[i].status = "running"
        \/ c.doc[d].status # "pending"
        \/ c.doc[d].inst # i
     THEN c
     ELSE IF c.inst[i].status = "completed" THEN Issue(c, d, row)
     ELSE [c EXCEPT !.doc[d] = [row EXCEPT !.status = c.inst[i].status]]

\* The link between the row and the request; a contract's fingerprint, so far
\* the key of its creation, becomes that of the request.
Link(k, c, d, i) ==
  [c EXCEPT !.doc[d] = [c.doc[d] EXCEPT !.inst = i,
                                        !.key = IF k = "Contract" THEN NoKey ELSE c.doc[d].key]]

FreshInst(c) ==
  {i \in Instances : /\ c.inst[i].status = "none"
                     /\ \A x \in Instances : c.inst[x].status = "none" => i <= x}

\* create_request: the request of that key, or a new one; a workflow without
\* approvals is over before create_request returns.
Requests(c, d, key) ==
  LET made == {i \in Instances : c.inst[i].of = d /\ c.inst[i].key = key}
  IN {<<i, c>> : i \in made} \cup
     {<<i, [c EXCEPT !.inst[i] = [status |-> s, of |-> d, key |-> key]]>> :
        i \in {x \in FreshInst(c) : made = {}}, s \in {"running", "completed"}}

\* Mutation of Review: the event an immediate end fired is not looked at again.
ReviewWithoutEvent(k, c, d, key) ==
  {Link(k, r[2], d, r[1]) : r \in Requests(c, d, key)}

Review(k, c, d, key) ==
  {OnInstanceUpdate(Link(k, r[2], d, r[1]), r[1]) : r \in Requests(c, d, key)}

\* A contract that was cancelled or failed is sent again as it is.
Sendable(k, status) ==
  status = "draft" \/ (k = "Contract" /\ status \in {"cancelled", "failed"})

\* submit: row locked, a repeated key answered, status and revision compared.
Send(k, rev, c, d, key) ==
  LET row == [c.doc[d] EXCEPT !.status = "pending", !.sent = key,
                              !.rev = c.doc[d].rev + 1]
      sent == [c EXCEPT !.doc[d] = row]
  IN IF \/ c.doc[d].sent = key
        \/ ~Sendable(k, c.doc[d].status)
        \/ k # "Contract" /\ c.doc[d].rev # rev
     THEN {}
     ELSE IF c.doc[d].wf THEN Review(k, sent, d, key)
     ELSE IF k = "Salary" THEN {sent}
     ELSE {Issue(sent, d, row)}

\* The end of an instance and its hook, in one transaction of the engine.
EndReview(c, i, end) ==
  IF c.inst[i].status # "running" THEN {}
  ELSE {OnInstanceUpdate([c EXCEPT !.inst[i] = [c.inst[i] EXCEPT !.status = end]], i)}

-----------------------------------------------------------------------------
(* What only a salary change order has.                                    *)

\* approve_salary_change_order, by hand when no workflow reviews it.
Approve(row, c, d) ==
  IF row.status # "pending" \/ row.inst # 0 THEN {}
  ELSE {Issue(c, d, [row EXCEPT !.rev = row.rev + 1])}

\* reject_salary_change_order, whether or not a workflow reviews it.
Reject(row, c, d) ==
  IF row.status \notin {"draft", "pending"} THEN {}
  ELSE {[c EXCEPT !.doc[d] = [row EXCEPT !.status = "rejected", !.rev = row.rev + 1]]}

\* Mutation of Effective: an order takes effect on the day it is applied.
EffectiveToday(row, day) == day

\* An order without a date takes effect on the day it is applied.
Effective(row, day) == IF row.date = Undated THEN day ELSE row.date

Marked(row, c, d, key) ==
  [c EXCEPT !.doc[d] = [row EXCEPT !.applied = key, !.rev = row.rev + 1]]

Assigned(c, d, day) == [c EXCEPT !.assigned[d][day] = c.assigned[d][day] + 1]

\* What becomes of an order carried to payroll, taken being the days of which
\* the snapshot shows an assignment.  Without a salary structure, that of an
\* assignment the employee has or else one of the company, the order is marked
\* and no more; HRMS refuses a second assignment from the same day.
Carried(row, taken, c, d, key, day) ==
  {x \in {Marked(row, c, d, key)} : taken = {}} \cup
  {Assigned(Marked(row, c, d, key), d, e) : e \in {Effective(row, day)} \ taken}

\* Mutation of Apply: an order under review is applied.
ApplyPending(row, taken, c, d, key, day) ==
  IF row.status \notin {"pending", "final"} \/ row.applied = key THEN {}
  ELSE Carried(row, taken, c, d, key, day)

\* apply_salary_change_order_to_payroll on that day.
Apply(row, taken, c, d, key, day) ==
  IF row.status # "final" \/ row.applied = key THEN {}
  ELSE Carried(row, taken, c, d, key, day)

-----------------------------------------------------------------------------
(* Calls as transactions.                                                  *)

Txn == [op : {"save_template"}, wf : BOOLEAN, form : Template]
         \cup [op : {"publish"}, form : Template]
         \cup [op : {"create"}, key : Keys, keys : SUBSET Keys, form : Template]
         \cup [op : {"edit"}, doc : Docs, row : Document, form : Template]
         \cup [op : {"send"}, doc : Docs, key : Keys, rev : Nat]
         \cup [op : {"approve", "reject"}, doc : Docs, row : Document]
         \cup [op : {"apply"}, doc : Docs, key : Keys, row : Document,
               taken : SUBSET Days]

NoTxn == [op |-> "none"]

\* The calls a client may make of what it sees now.
Calls ==
  [op : {"save_template"}, wf : BOOLEAN, form : {db.form}]
    \cup [op : {"publish"}, form : {db.form}]
    \cup [op : {"create"}, key : Keys, keys : {UsedKeys(db)}, form : {db.form}]
    \cup UNION {[op : {"edit"}, doc : {d}, row : {db.doc[d]}, form : {db.form}]
                  \cup [op : {"send"}, doc : {d}, key : Keys, rev : {db.doc[d].rev}]
                : d \in {x \in Docs : db.doc[x].status # "none" /\ db.doc[x].rev < MaxRev[x]}}

Taken(c, d) == {day \in Days : c.assigned[d][day] > 0}

\* Those only a salary change order has.
SalaryCalls ==
  UNION {[op : {"approve", "reject"}, doc : {d}, row : {db.doc[d]}]
           \cup [op : {x \in {"apply"} : db.doc[d].rev <= MaxRev[d]}, doc : {d}, key : Keys,
                 row : {db.doc[d]}, taken : {Taken(db, d)}]
         : d \in {x \in Docs : db.doc[x].status # "none"}}

\* Calls on documents of a kind in Serial do not overlap.
InTurn == kind \in Serial => \A w \in Workers : txn[w] = NoTxn

\* A call reads what its caller sees.
Begin(w) ==
  /\ txn[w] = NoTxn
  /\ InTurn
  /\ \E call \in Calls \cup {t \in SalaryCalls : kind = "Salary"} :
       txn' = [txn EXCEPT ![w] = call]
  /\ UNCHANGED <<kind, db, today>>

\* Refused, a replay that changes nothing, a deadlock, a lost connection.
Abort(w) ==
  /\ txn[w] # NoTxn
  /\ txn' = [txn EXCEPT ![w] = NoTxn]
  /\ UNCHANGED <<kind, db, today>>

Commit(w, results) ==
  /\ db' \in results
  /\ txn' = [txn EXCEPT ![w] = NoTxn]
  /\ UNCHANGED <<kind, today>>

FinishSaveTemplate(w) ==
  txn[w].op = "save_template" /\ Commit(w, SaveTemplate(txn[w].form, db, txn[w].wf))

FinishPublish(w) ==
  txn[w].op = "publish" /\ Commit(w, PublishTemplate(txn[w].form, db))

FinishCreate(w) ==
  txn[w].op = "create"
  /\ Commit(w, Create(kind, txn[w].keys, txn[w].form, db, txn[w].key))

FinishEdit(w) ==
  txn[w].op = "edit"
  /\ Commit(w, Edit(kind, txn[w].row, txn[w].form, db, txn[w].doc))

FinishSend(w) ==
  txn[w].op = "send" /\ Commit(w, Send(kind, txn[w].rev, db, txn[w].doc, txn[w].key))

FinishApprove(w) ==
  txn[w].op = "approve" /\ Commit(w, Approve(txn[w].row, db, txn[w].doc))

FinishReject(w) ==
  txn[w].op = "reject" /\ Commit(w, Reject(txn[w].row, db, txn[w].doc))

FinishApply(w) ==
  txn[w].op = "apply"
  /\ Commit(w, Apply(txn[w].row, txn[w].taken, db, txn[w].doc, txn[w].key, today))

\* The engine ends an instance; nothing it read before its locks matters here.
ReviewEnds ==
  /\ InTurn
  /\ \E i \in Instances, end \in Ends : db' \in EndReview(db, i, end)
  /\ UNCHANGED <<kind, txn, today>>

\* The next day, which only a salary change order notices.
NextDay ==
  /\ kind = "Salary"
  /\ today < MaxDay
  /\ today' = today + 1
  /\ UNCHANGED <<kind, db, txn>>

Init ==
  /\ kind \in Kinds
  /\ db = [doc |-> [d \in Docs |-> NoDocument], inst |-> [i \in Instances |-> NoInstance],
           form |-> [active |-> 0, wf |-> FALSE, draft |-> FALSE],
           assigned |-> [d \in Docs |-> [day \in Days |-> 0]], series |-> 0]
  /\ txn = [w \in Workers |-> NoTxn]
  /\ today = 1

Next ==
  \/ ReviewEnds
  \/ NextDay
  \/ \E w \in Workers :
       \/ Begin(w)
       \/ Abort(w)
       \/ FinishSaveTemplate(w)
       \/ FinishPublish(w)
       \/ FinishCreate(w)
       \/ FinishEdit(w)
       \/ FinishSend(w)
       \/ FinishApprove(w)
       \/ FinishReject(w)
       \/ FinishApply(w)

Spec == Init /\ [][Next]_vars

-----------------------------------------------------------------------------
(* Properties.                                                             *)

\* Rows and transactions have their shape.
TypeOK ==
  /\ kind \in AllKinds
  /\ db \in Rows
  /\ txn \in [Workers -> Txn \cup {NoTxn}]
  /\ today \in Days

\* A document as the register of the office sees it.
Stage(status) ==
  CASE status = "none" -> "absent"
    [] status = "draft" -> "open"
    [] status = "pending" -> "review"
    [] status = "final" -> "issued"
    [] OTHER -> "closed"

Register == INSTANCE OfficialRegister
  WITH Papers <- Docs,
       stage <- [d \in Docs |-> Stage(db.doc[d].status)],
       number <- [d \in Docs |-> db.doc[d].number],
       issued <- db.series

\* Whatever calls overlap, each document is issued at most once, keeps its
\* number and its standing, and no number is lost: the documents implement the
\* register (row lock or stamp of every call that writes a document).
RegisterKept == Register!Spec

\* The review decides: a document under review waits for an instance that is
\* running, unless it is a salary order decided by hand, and one whose template
\* names a workflow is issued only when its own instance completed.  A salary change
\* reaches payroll only after its order is final, and the order says so; from
\* one day it does so once, under whatever operation it is repeated, and an
\* order that names its day reaches it from no other (on_instance_update, and
\* its explicit call after create_request; apply_salary_change_order_to_payroll).
ReviewDecides ==
  \A d \in Docs :
    LET row == db.doc[d] IN
    /\ row.status = "pending" =>
         \/ row.inst # 0 /\ db.inst[row.inst].status = "running"
         \/ row.inst = 0 /\ kind = "Salary" /\ ~row.wf
    /\ row.status = "final" /\ row.wf =>
         row.inst # 0 /\ db.inst[row.inst].status = "completed"
    /\ \A day \in Days :
         /\ db.assigned[d][day] <= 1
         /\ db.assigned[d][day] > 0 =>
              row.status = "final" /\ row.applied # NoKey /\ row.date \in {Undated, day}

\* A creation repeated under its key, even while the first is in flight, makes
\* no second document (request_key of ASOUD Form Entry).
CreatedOnce ==
  \A d, x \in Docs :
    db.doc[d].key = db.doc[x].key /\ db.doc[d].key # NoKey /\ UniqueKey(kind) => d = x

=============================================================================
