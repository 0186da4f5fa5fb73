---------------------------- MODULE NativeDocument ----------------------------
(***************************************************************************)
(* The document an approved request leaves in ERPNext: the dispatcher that *)
(* creates it (request_native_documents.dispatch), the retry, the void and *)
(* the reissue of the manager (request_void_actions), the receipt task of  *)
(* a delivery (request_followup_runtime), and the desk, where staff submit *)
(* and cancel the document by hand.                                        *)
(*                                                                         *)
(* A call is a REPEATABLE READ transaction: Begin takes the snapshot its   *)
(* plain reads see, Finish is the rest up to the commit, when it holds the *)
(* rows it locked and reads those as they are.  v is the snapshot with the *)
(* call's own writes in it, c the committed rows with them.                *)
(*                                                                         *)
(* The requests of one kind are of one employee and ask for the same       *)
(* thing: one punch, the same days, the same asset.  Those of different    *)
(* kinds have nothing in common.                                           *)
(***************************************************************************)
EXTENDS Naturals, FiniteSets

CONSTANTS
  Requests,  \* approved sooner or later
  Kind,      \* what the form of each executes as
  Workers,   \* processes that serve calls
  MaxDocs,   \* bound: documents that can be created
  DeskOps    \* what staff do by hand: "submit", "cancel"

\* "Template" is a purchase request, the others name the executor of a form;
\* "Movement" is a delivery.
Kinds == {"Template", "Advance", "Movement", "Leave", "Mission", "Shift", "Checkin"}

NoRequest == "none"

ASSUME KindTypes ==
  /\ Kind \in [Requests -> Kinds]
  /\ MaxDocs \in Nat
  /\ DeskOps \subseteq {"submit", "cancel"}
  /\ NoRequest \notin Requests

VARIABLES
  db,  \* committed rows
  txn  \* the call each worker serves

vars == <<db, txn>>

-----------------------------------------------------------------------------
(* Rows.                                                                   *)

Docs == 1..MaxDocs

\* "None" stands for the empty field.
NativeStatuses == {"None", "Created", "Skipped", "Failed", "Needs Review", "Voided"}

\* approved: the workflow instance is Completed.  doc: native_name, 0 if none.
Request == [approved : BOOLEAN, native : NativeStatuses, doc : 0..MaxDocs]

\* docstatus 0, 1, 2; "None" before the row exists.
Document == [of : Requests \cup {NoRequest},
             status : {"None", "Draft", "Submitted", "Cancelled"}]

\* The Voided and Reissued activities of a request: the latest of them, the
\* blocker the latest void recorded, the documents voided, the reissues.
History == [last : {"None", "Voided", "Reissued"}, blocked : BOOLEAN,
            voided : SUBSET Docs, reissues : Nat]

TaskStatuses == {"None", "Open", "Completed", "Rejected", "Cancelled"}

Rows == [req : [Requests -> Request], doc : [Docs -> Document],
         task : [Docs -> TaskStatuses], log : [Requests -> History]]

NotApproved == [approved |-> FALSE, native |-> "None", doc |-> 0]

NoDocument == [of |-> NoRequest, status |-> "None"]

NoHistory == [last |-> "None", blocked |-> FALSE, voided |-> {}, reissues |-> 0]

Live(document) == document.status \in {"Draft", "Submitted"}

-----------------------------------------------------------------------------
(* What the kinds do.                                                      *)

\* These executors submit what they insert, the others leave a draft.
SubmittedAtOnce(r) == Kind[r] \in {"Leave", "Mission"}

\* These refuse (a mission: leave to HR) what another document already covers.
Exclusive(r) == Kind[r] \in {"Leave", "Mission", "Shift", "Checkin"}

\* void_plan refuses an Attendance Request.
Voidable(r) == Kind[r] # "Mission"

\* void_plan: "already" when the snapshot shows no document that counts.
VoidPlan(document) ==
  CASE document.status \in {"None", "Cancelled"} -> "already"
    [] document.status = "Submitted" -> "cancel"
    [] document.status = "Draft" -> "mark"

\* reissue_blocker.
Blocker(r, plan) == Kind[r] = "Checkin" \/ (Kind[r] = "Shift" /\ plan = "mark")

-----------------------------------------------------------------------------
(* dispatch: the executor in its savepoint, and the result on the request. *)

\* Mutation of Result: the status is no option of the field.
ResultMisspelt(c, r, status) == [c EXCEPT !.req[r].native = "Error"]

\* native_name needs no reset: it is empty whenever an executor runs.
Result(c, r, status) == [c EXCEPT !.req[r].native = status]

\* Mutation of Create: the receipt task is left out.
CreateWithoutTask(c, r, d) ==
  [c EXCEPT !.doc[d] = [of |-> r, status |-> IF SubmittedAtOnce(r) THEN "Submitted" ELSE "Draft"],
            !.req[r].native = "Created", !.req[r].doc = d]

\* A fresh document, its receipt task and the link to it.
Create(c, r, d) ==
  [c EXCEPT !.doc[d] = [of |-> r, status |-> IF SubmittedAtOnce(r) THEN "Submitted" ELSE "Draft"],
            !.task[d] = IF Kind[r] = "Movement" THEN "Open" ELSE "None",
            !.req[r].native = "Created", !.req[r].doc = d]

\* The next name of the naming series.
Fresh(c) ==
  {d \in Docs : /\ c.doc[d].status = "None"
                /\ \A x \in Docs : c.doc[x].status = "None" => d <= x}

\* A template finds the document it made before, whatever became of it.
Existing(v, r) == {d \in Docs : Kind[r] = "Template" /\ v.doc[d].of = r}

\* Mutation of Conflicts: no duplicate is looked for.
NoConflicts(v, r) == {d \in Docs : FALSE}

Conflicts(v, r) ==
  {d \in Docs : Exclusive(r) /\ Live(v.doc[d]) /\ Kind[v.doc[d].of] = Kind[r]}

\* on_approved or execute; a failure rolls the savepoint back.
Execute(v, c, r) ==
  {Result(c, r, "Failed")} \cup
  IF Existing(v, r) # {}
  THEN {[c EXCEPT !.req[r].native = "Created", !.req[r].doc = d] : d \in Existing(v, r)}
  ELSE IF Conflicts(v, r) # {}
  THEN {x \in {Result(c, r, "Needs Review")} : Kind[r] = "Mission"}
  ELSE {Create(c, r, d) : d \in Fresh(c)}
       \cup {x \in {Result(c, r, "Skipped")} : Kind[r] = "Template"}
       \cup {x \in {Result(c, r, "Needs Review")} : Kind[r] = "Checkin"}

Dispatch(v, c, r) ==
  IF \/ Kind[r] # "Template" /\ ~v.req[r].approved
     \/ v.req[r].native \in {"Created", "Skipped", "Needs Review"}
  THEN {c}
  ELSE Execute(v, c, r)

-----------------------------------------------------------------------------
(* The calls: the rows each may commit, {} when it is refused.             *)

\* Mutation of Approve: the hook reads the instance before it is saved.
ApproveHookFirst(v, c, r) ==
  IF c.req[r].approved THEN {} ELSE Dispatch(v, [c EXCEPT !.req[r].approved = TRUE], r)

\* The decision that completes the instance; its hook dispatches.
Approve(v, c, r) ==
  IF c.req[r].approved THEN {}
  ELSE LET done == [c EXCEPT !.req[r].approved = TRUE]
       IN Dispatch([v EXCEPT !.req[r] = done.req[r]], done, r)

\* Mutation of Retry: the request is read without its lock.
RetryUnlocked(v, c, r) ==
  IF v.req[r].approved /\ v.req[r].native = "Failed" THEN Dispatch(v, c, r) ELSE {}

\* create_native_document.
Retry(v, c, r) ==
  IF v.req[r].approved /\ c.req[r].native = "Failed" THEN Dispatch(v, c, r) ELSE {}

\* cancel_open_tasks, when a movement is cancelled.
CancelTask(v, c, d) ==
  IF v.task[d] = "Open" THEN [c EXCEPT !.task[d] = "Cancelled"] ELSE c

\* Mutation of CancelDocument: the movement's task is left open.
CancelDocumentOnly(v, c, d) ==
  IF v.doc[d] # c.doc[d] \/ c.doc[d].status # "Submitted" THEN {}
  ELSE {[c EXCEPT !.doc[d].status = "Cancelled"]}

\* cancel() of ERPNext, which compares the stamp of what it loaded.
CancelDocument(v, c, d) ==
  IF v.doc[d] # c.doc[d] \/ c.doc[d].status # "Submitted" THEN {}
  ELSE {CancelTask(v, [c EXCEPT !.doc[d].status = "Cancelled"], d)}

\* The result of a void and its activity.
RecordVoid(c, r, plan) ==
  [c EXCEPT !.req[r].native = "Voided",
            !.log[r] = [c.log[r] EXCEPT !.last = "Voided", !.blocked = Blocker(r, plan),
                                        !.voided = c.log[r].voided \cup {c.req[r].doc}]]

\* Mutation of Void: the document is not cancelled.
VoidOnRecord(v, c, r) ==
  IF ~v.req[r].approved \/ c.req[r].native # "Created" \/ ~Voidable(r) THEN {}
  ELSE {RecordVoid(c, r, VoidPlan(v.doc[c.req[r].doc]))}

\* void.
Void(v, c, r) ==
  IF ~v.req[r].approved \/ c.req[r].native # "Created" \/ ~Voidable(r) THEN {}
  ELSE LET d == c.req[r].doc
           plan == VoidPlan(v.doc[d])
       IN {RecordVoid(x, r, plan) :
             x \in IF plan = "cancel" THEN CancelDocument(v, c, d) ELSE {c}}

\* Mutation of Cleared: the activity is forgotten.
ClearedUnmarked(c, r) ==
  [c EXCEPT !.req[r] = [@ EXCEPT !.native = "None", !.doc = 0]]

\* The request as before its first dispatch, and the activity of a reissue.
Cleared(c, r) ==
  [c EXCEPT !.req[r] = [c.req[r] EXCEPT !.native = "None", !.doc = 0],
            !.log[r] = [c.log[r] EXCEPT !.last = "Reissued",
                                        !.reissues = c.log[r].reissues + 1]]

\* What the caller then sees: the row it wrote, but the instance, and so its
\* status, still from the snapshot.
SeenAfter(v, x, r) ==
  [v EXCEPT !.req[r] = [x.req[r] EXCEPT !.approved = v.req[r].approved]]

\* Mutation of Reissue: the blocker is not looked at.
ReissueBlocked(v, c, r) ==
  IF c.req[r].native # "Voided" \/ Kind[r] = "Template" THEN {}
  ELSE Dispatch(SeenAfter(v, Cleared(c, r), r), Cleared(c, r), r)

\* reissue; a repeat that finds the request Created commits nothing.
Reissue(v, c, r) ==
  IF c.req[r].native # "Voided" \/ Kind[r] = "Template" \/ v.log[r].blocked THEN {}
  ELSE Dispatch(SeenAfter(v, Cleared(c, r), r), Cleared(c, r), r)

\* Mutation of Receivable: the movement is read without its lock.
ReceivableUnlocked(v, c, d) ==
  v.task[d] = "Open" /\ c.task[d] = "Open" /\ v.doc[d].status = "Draft"

\* _lock and _draft_movement, and the stamp the task is saved with.
Receivable(v, c, d) ==
  v.task[d] = "Open" /\ c.task[d] = "Open" /\ c.doc[d].status = "Draft"

\* confirm; the movement it submits was loaded from the snapshot.
Confirm(v, c, d) ==
  IF ~Receivable(v, c, d) \/ v.doc[d] # c.doc[d] THEN {}
  ELSE {[c EXCEPT !.doc[d].status = "Submitted", !.task[d] = "Completed"]}

\* reject.
Reject(v, c, d) ==
  IF ~Receivable(v, c, d) THEN {} ELSE {[c EXCEPT !.task[d] = "Rejected"]}

\* submit() of ERPNext.
SubmitDocument(v, c, d) ==
  IF \/ v.doc[d] # c.doc[d]
     \/ c.doc[d].status # "Draft"
     \/ Kind[c.doc[d].of] = "Checkin"
  THEN {}
  ELSE {[c EXCEPT !.doc[d].status = "Submitted"]}

-----------------------------------------------------------------------------
(* Calls as transactions.                                                  *)

RequestOps == {"approve", "retry", "void", "reissue"}

TaskOps == {"confirm", "reject"}

Ops == RequestOps \cup TaskOps \cup DeskOps

Txn == [op : RequestOps, of : Requests, v : Rows]
         \cup [op : TaskOps \cup DeskOps, of : Docs, v : Rows]

NoTxn == [op |-> "none"]

\* A call reads what its caller sees; one about a row it does not see ends.
Begin(w) ==
  /\ txn[w] = NoTxn
  /\ \/ \E op \in RequestOps, r \in Requests :
          txn' = [txn EXCEPT ![w] = [op |-> op, of |-> r, v |-> db]]
     \/ \E op \in TaskOps, d \in Docs :
          /\ db.task[d] = "Open"
          /\ txn' = [txn EXCEPT ![w] = [op |-> op, of |-> d, v |-> db]]
     \/ \E op \in DeskOps, d \in Docs :
          /\ Live(db.doc[d])
          /\ txn' = [txn EXCEPT ![w] = [op |-> op, of |-> d, v |-> db]]
  /\ UNCHANGED db

Commit(w, results) ==
  /\ db' \in results
  /\ txn' = [txn EXCEPT ![w] = NoTxn]

\* Refused, by our rules or ERPNext's, a deadlock, a lost connection.
Abort(w) ==
  /\ txn[w] # NoTxn
  /\ txn' = [txn EXCEPT ![w] = NoTxn]
  /\ UNCHANGED db

FinishApprove(w) ==
  txn[w].op = "approve" /\ Commit(w, Approve(txn[w].v, db, txn[w].of))

FinishRetry(w) ==
  txn[w].op = "retry" /\ Commit(w, Retry(txn[w].v, db, txn[w].of))

FinishVoid(w) ==
  txn[w].op = "void" /\ Commit(w, Void(txn[w].v, db, txn[w].of))

FinishReissue(w) ==
  txn[w].op = "reissue" /\ Commit(w, Reissue(txn[w].v, db, txn[w].of))

FinishConfirm(w) ==
  txn[w].op = "confirm" /\ Commit(w, Confirm(txn[w].v, db, txn[w].of))

FinishReject(w) ==
  txn[w].op = "reject" /\ Commit(w, Reject(txn[w].v, db, txn[w].of))

FinishSubmit(w) ==
  txn[w].op = "submit" /\ Commit(w, SubmitDocument(txn[w].v, db, txn[w].of))

FinishCancel(w) ==
  txn[w].op = "cancel" /\ Commit(w, CancelDocument(txn[w].v, db, txn[w].of))

Init ==
  /\ db = [req |-> [r \in Requests |-> NotApproved], doc |-> [d \in Docs |-> NoDocument],
           task |-> [d \in Docs |-> "None"], log |-> [r \in Requests |-> NoHistory]]
  /\ txn = [w \in Workers |-> NoTxn]

Next ==
  \E w \in Workers :
    \/ Begin(w)
    \/ Abort(w)
    \/ FinishApprove(w)
    \/ FinishRetry(w)
    \/ FinishVoid(w)
    \/ FinishReissue(w)
    \/ FinishConfirm(w)
    \/ FinishReject(w)
    \/ FinishSubmit(w)
    \/ FinishCancel(w)

Spec == Init /\ [][Next]_vars

-----------------------------------------------------------------------------
(* Properties.                                                             *)

\* Rows and transactions have their shape.
TypeOK ==
  /\ db \in Rows
  /\ txn \in [Workers -> Txn \cup {NoTxn}]

\* A document that counts is the one its request names as Created, or was
\* voided on record (dispatch, "once"; the row lock of retry, void and reissue).
EveryDocumentKnown ==
  \A d \in Docs : Live(db.doc[d]) =>
    LET r == db.doc[d].of IN
    \/ db.req[r].native = "Created" /\ db.req[r].doc = d
    \/ d \in db.log[r].voided

\* A repeated or racing reissue creates nothing: a request has at most one
\* document more than it was reissued (reissue: "a repeat changes nothing").
OneDocumentPerIssue ==
  \A r \in Requests :
    Cardinality({d \in Docs : db.doc[d].of = r}) <= 1 + db.log[r].reissues

\* No approval, retry, void, reissue or failed attempt leaves a document behind
\* that nobody knows of, or makes one too many.
NothingLeftBehind == EveryDocumentKnown /\ OneDocumentPerIssue

\* The status of the request and its activities tell the same story: Voided
\* exactly when the latest of void and reissue is a void (void, reissue).
MarkersTell ==
  \A r \in Requests : db.req[r].native = "Voided" <=> db.log[r].last = "Voided"

\* A receipt task is open while its movement can be received, and confirmed
\* only with it (confirm, cancel_open_tasks).
TaskTellsMovement ==
  \A d \in Docs :
    /\ db.task[d] = "Open" => Live(db.doc[d])
    /\ db.task[d] = "Completed" => db.doc[d].status \in {"Submitted", "Cancelled"}

\* A delivery waits for the answer of the requester unless staff submitted it
\* (create_followup in the savepoint of the document).
DraftIsAnswered ==
  \A d \in Docs : db.doc[d].status = "Draft" /\ Kind[db.doc[d].of] = "Movement"
    => db.task[d] \in {"Open", "Rejected"}

\* What the rows of a request say of its document is true: its status of the
\* voids and reissues, its receipt task of the movement.
ReceiptTells == TaskTellsMovement /\ MarkersTell /\ DraftIsAnswered

\* The answer of the requester stands, whatever becomes of the movement.
AnswerStands ==
  [][\A d \in Docs : db.task[d] \in {"Completed", "Rejected"} => db'.task[d] = db.task[d]]_vars

\* A void leaves nothing effective behind: a voided document is never in
\* force again (docs/api/form-execution.md:515).
VoidIsEffective ==
  \A r \in Requests : \A d \in db.log[r].voided : db.doc[d].status # "Submitted"

\* An approved request shows a result someone can act on: it is never left
\* without one, which neither a retry nor a void nor a reissue accepts.
NotStranded ==
  \A r \in Requests : db.req[r].approved => db.req[r].native # "None"

\* Two requests of one employee do not book the same days or punch twice (the
\* comment on the Employee lock of attendance_correction and period).
NoDoubleBooking ==
  \A r \in Requests : Exclusive(r) =>
    Cardinality({d \in Docs : Live(db.doc[d]) /\ Kind[db.doc[d].of] = Kind[r]}) <= 1

\* A void that recorded why a reissue cannot work is not reissued
\* (docs/api/form-execution.md:515-516).
BlockedStaysVoided ==
  \A r \in Requests :
    db.req[r].native = "Voided" /\ db.log[r].blocked => db'.req[r] = db.req[r]

\* Of requests that are served one after another, what is voided is out of force
\* and stays so if it was blocked, none is left without a result, and no two
\* book the same (create_native_document, void, reissue, period).
ServedInTurn ==
  [][VoidIsEffective' /\ NotStranded' /\ NoDoubleBooking' /\ BlockedStaysVoided]_vars

=============================================================================
