------------------------- MODULE NativeDocumentProofs -------------------------
(***************************************************************************)
(* Proofs about NativeDocument, for every kind, any requests and workers,  *)
(* and calls that overlap in any way.                                      *)
(*                                                                         *)
(* A call changes rows that it holds and decides partly by a snapshot that *)
(* may be old.  Good is what the committed rows satisfy; Later says how an *)
(* older state of the rows relates to a newer one, and so what a call may  *)
(* still conclude from its snapshot.                                       *)
(***************************************************************************)
EXTENDS NativeDocument, FiniteSetTheorems, TLAPS

\* A document that counts has an owner that knows of it.
Known(c, d) ==
  LET r == c.doc[d].of IN
  /\ r \in Requests
  /\ \/ c.req[r].native = "Created" /\ c.req[r].doc = d
     \/ d \in c.log[r].voided

\* The committed rows.
Good(c) ==
  /\ c \in Rows
  /\ \A d \in Docs : Live(c.doc[d]) => Known(c, d)
  /\ \A r \in Requests : c.req[r].native = "Voided" <=> c.log[r].last = "Voided"
  /\ \A r \in Requests : c.req[r].native = "Created" => c.req[r].doc \in Docs
  /\ \A r \in Requests : c.req[r].approved = FALSE => c.req[r].native = "None"
  /\ \A d \in Docs : c.task[d] = "Open" => Live(c.doc[d])
  /\ \A d \in Docs : c.doc[d].status = "None" => c.task[d] = "None"
  /\ \A d \in Docs : c.task[d] = "Completed" => c.doc[d].status \in {"Submitted", "Cancelled"}

\* What time does to a document: a submitted one is at most cancelled, and
\* keeps its task as it is until then; answers and cancellations are final.
Later(v, c) ==
  \A d \in Docs :
    /\ v.doc[d].status = "Submitted" => c.doc[d].status \in {"Submitted", "Cancelled"}
    /\ v.doc[d].status = "Submitted" /\ c.doc[d].status = "Submitted" => c.task[d] = v.task[d]
    /\ v.doc[d].status = "Cancelled" => c.doc[d].status = "Cancelled"
    /\ v.task[d] \in {"Completed", "Rejected"} => c.task[d] = v.task[d]

\* The inductive invariant.
IInv ==
  /\ Good(db)
  /\ txn \in [Workers -> Txn \cup {NoTxn}]
  /\ \A w \in Workers : txn[w] # NoTxn => Later(txn[w].v, db)

-----------------------------------------------------------------------------
(* Later is a preorder.                                                    *)

\* Nothing happened.
LEMMA LaterSame == ASSUME NEW c PROVE Later(c, c)
BY DEF Later

\* What happened before and what happens now.
LEMMA LaterStill ==
  ASSUME NEW v, NEW c, NEW x, Later(v, c), Later(c, x) PROVE Later(v, x)
BY DEF Later

-----------------------------------------------------------------------------
(* The dispatcher.                                                         *)

\* A request that waits for a document: nothing of it counts unless voided.
Waiting(c, r) ==
  /\ c.req[r].approved = TRUE
  /\ c.req[r].native \notin {"Created", "Voided"}

\* The request with an old document.
Found(c, r, d) == [c EXCEPT !.req[r].native = "Created", !.req[r].doc = d]

\* The statuses without a document.
Fruitless == {"Failed", "Needs Review", "Skipped"}

\* Every result of the dispatcher is one of four.
LEMMA Dispatched ==
  ASSUME NEW v, NEW c, NEW r \in Requests, NEW x \in Dispatch(v, c, r)
  PROVE \/ x = c
        \/ \E s \in Fruitless : x = Result(c, r, s)
        \/ \E d \in Docs : x = Found(c, r, d)
        \/ \E d \in Docs : c.doc[d].status = "None" /\ x = Create(c, r, d)
BY DEF Dispatch, Execute, Fresh, Existing, Found, Fruitless

\* A document is as it was, or new and the one the request names.
SameOrNew(c, x, r, d) ==
  \/ x.doc[d] = c.doc[d] /\ x.task[d] = c.task[d]
  \/ /\ c.doc[d].status = "None"
     /\ Live(x.doc[d]) /\ x.doc[d].of = r
     /\ x.req[r].native = "Created" /\ x.req[r].doc = d
     /\ x.task[d] = "Open" \/ x.task[d] = "None"

\* What the dispatcher does to the rows keeps them good, when it only gives
\* the request another status and perhaps a document, old or new.
LEMMA GivenGood ==
  ASSUME NEW c, Good(c), NEW r \in Requests, Waiting(c, r),
         NEW x, x \in Rows, x.log = c.log,
         x.req[r].approved = TRUE, x.req[r].native # "Voided", x.req[r].native # "None",
         x.req[r].native = "Created" => x.req[r].doc \in Docs,
         \A q \in Requests : q # r => x.req[q] = c.req[q],
         \A d \in Docs : SameOrNew(c, x, r, d)
  PROVE Good(x) /\ Later(c, x)
<1>1. \A d \in Docs : Live(x.doc[d]) => Known(x, d)
  BY DEF Good, Known, Waiting, SameOrNew
<1>2. \A q \in Requests : x.req[q].native = "Voided" <=> x.log[q].last = "Voided"
  BY DEF Good, Waiting
<1>3. \A q \in Requests : x.req[q].native = "Created" => x.req[q].doc \in Docs
  BY DEF Good
<1>4. \A q \in Requests : x.req[q].approved = FALSE => x.req[q].native = "None"
  BY DEF Good
<1>5. \A d \in Docs : /\ x.task[d] = "Open" => Live(x.doc[d])
                      /\ x.doc[d].status = "None" => x.task[d] = "None"
                      /\ x.task[d] = "Completed" => x.doc[d].status \in {"Submitted", "Cancelled"}
  BY DEF Good, Live, SameOrNew
<1>6. Later(c, x)
  BY DEF Good, Later, SameOrNew
<1> QED
  BY <1>1, <1>2, <1>3, <1>4, <1>5, <1>6 DEF Good

\* A status without a document changes no document.
LEMMA ResultGood ==
  ASSUME NEW c, Good(c), NEW r \in Requests, Waiting(c, r),
         NEW s \in Fruitless
  PROVE Good(Result(c, r, s)) /\ Later(c, Result(c, r, s))
<1> DEFINE x == Result(c, r, s)
           row == [c.req[r] EXCEPT !.native = s]
<1>1. c \in Rows
  BY DEF Good
<1>2. x = [c EXCEPT !.req = [c.req EXCEPT ![r] = row]]
  BY DEF Result
<1>3. c.req[r] \in Request
  BY <1>1 DEF Rows
<1>4. row \in Request
  BY <1>3 DEF Request, NativeStatuses, Fruitless
<1>5. row.native = s /\ row.approved = c.req[r].approved
  BY <1>3 DEF Request
<1>6. row.approved = TRUE
  BY <1>5 DEF Waiting
<1> HIDE DEF x, row
<1>7. x \in Rows
  BY <1>1, <1>2, <1>4 DEF Rows
<1>8. /\ x.doc = c.doc /\ x.task = c.task /\ x.log = c.log /\ x.req[r] = row
      /\ \A q \in Requests : q # r => x.req[q] = c.req[q]
  BY <1>1, <1>2 DEF Rows
<1>9. Good(x) /\ Later(c, x)
  BY <1>5, <1>6, <1>7, <1>8, GivenGood DEF Fruitless, SameOrNew
<1> QED
  BY <1>9 DEF x

\* A template may name a document it made before.
LEMMA FoundGood ==
  ASSUME NEW c, Good(c), NEW r \in Requests, Waiting(c, r), NEW d \in Docs,
         NEW x, x = Found(c, r, d)
  PROVE Good(x) /\ Later(c, x)
<1> DEFINE row == [c.req[r] EXCEPT !.native = "Created", !.doc = d]
<1>1. c \in Rows
  BY DEF Good
<1>2. x = [c EXCEPT !.req = [c.req EXCEPT ![r] = row]]
  BY <1>1 DEF Rows, Request, Found
<1>3. row \in Request /\ row.native = "Created" /\ row.doc = d /\ row.approved = TRUE
  <2>1. c.req[r] \in Request
    BY <1>1 DEF Rows
  <2>2. d \in 0..MaxDocs
    BY KindTypes DEF Docs
  <2>3. row \in Request
    BY <2>1, <2>2 DEF Request, NativeStatuses
  <2>4. row.native = "Created" /\ row.doc = d /\ row.approved = c.req[r].approved
    BY <2>1 DEF Request
  <2> QED
    BY <2>3, <2>4 DEF Waiting
<1> HIDE DEF row
<1>4. x \in Rows
  BY <1>1, <1>2, <1>3 DEF Rows
<1>5. /\ x.doc = c.doc /\ x.task = c.task /\ x.log = c.log /\ x.req[r] = row
      /\ \A q \in Requests : q # r => x.req[q] = c.req[q]
  BY <1>1, <1>2 DEF Rows
<1> QED
  BY <1>3, <1>4, <1>5, GivenGood DEF SameOrNew

\* A fresh document takes a name nobody has.
LEMMA CreatedGood ==
  ASSUME NEW c, Good(c), NEW r \in Requests, Waiting(c, r),
         NEW d \in Docs, c.doc[d].status = "None", NEW x, x = Create(c, r, d)
  PROVE Good(x) /\ Later(c, x)
<1> DEFINE row == [c.req[r] EXCEPT !.native = "Created", !.doc = d]
           made == [of |-> r, status |-> IF SubmittedAtOnce(r) THEN "Submitted" ELSE "Draft"]
           todo == IF Kind[r] = "Movement" THEN "Open" ELSE "None"
<1>1. c \in Rows
  BY DEF Good
<1>2. x = [c EXCEPT !.req = [c.req EXCEPT ![r] = row], !.doc = [c.doc EXCEPT ![d] = made],
                    !.task = [c.task EXCEPT ![d] = todo]]
  BY ZenonT(40), <1>1 DEF Rows, Request, Create
<1>3. row \in Request /\ row.native = "Created" /\ row.doc = d /\ row.approved = TRUE
  <2>1. c.req[r] \in Request
    BY <1>1 DEF Rows
  <2>2. d \in 0..MaxDocs
    BY KindTypes DEF Docs
  <2>3. row \in Request
    BY <2>1, <2>2 DEF Request, NativeStatuses
  <2>4. row.native = "Created" /\ row.doc = d /\ row.approved = c.req[r].approved
    BY <2>1 DEF Request
  <2> QED
    BY <2>3, <2>4 DEF Waiting
<1>4. made \in Document /\ made.of = r /\ Live(made)
  BY DEF Document, Live
<1>5. todo \in {"Open", "None"} /\ todo \in TaskStatuses
  BY DEF TaskStatuses
<1> HIDE DEF row, made, todo
<1>6. x \in Rows
  <2>1. /\ [c.req EXCEPT ![r] = row] \in [Requests -> Request]
        /\ [c.doc EXCEPT ![d] = made] \in [Docs -> Document]
        /\ [c.task EXCEPT ![d] = todo] \in [Docs -> TaskStatuses]
    BY <1>1, <1>3, <1>4, <1>5 DEF Rows
  <2> QED
    BY <1>1, <1>2, <2>1 DEF Rows
<1>7. /\ x.log = c.log /\ x.req[r] = row /\ x.doc[d] = made /\ x.task[d] = todo
      /\ \A q \in Requests : q # r => x.req[q] = c.req[q]
      /\ \A e \in Docs : e # d => x.doc[e] = c.doc[e] /\ x.task[e] = c.task[e]
  BY <1>1, <1>2 DEF Rows
<1>8. \A e \in Docs : SameOrNew(c, x, r, e)
  BY <1>3, <1>4, <1>5, <1>7 DEF SameOrNew
<1>9. x.req[r].approved = TRUE /\ x.req[r].native = "Created" /\ x.req[r].doc \in Docs
  BY <1>3, <1>7
<1>10. x.log = c.log /\ \A q \in Requests : q # r => x.req[q] = c.req[q]
  BY <1>7
<1> QED
  <2>1. x.req[r].native # "Voided" /\ x.req[r].native # "None"
    BY <1>9
  <2>2. x.req[r].native = "Created" => x.req[r].doc \in Docs
    BY <1>9
  <2> QED
    BY <1>6, <1>8, <1>9, <1>10, <2>1, <2>2, GivenGood

\* The dispatcher as a whole.
LEMMA DispatchGood ==
  ASSUME NEW c, Good(c), NEW r \in Requests, Waiting(c, r), NEW v, NEW x \in Dispatch(v, c, r)
  PROVE Good(x) /\ Later(c, x)
<1>1. CASE x = c
  BY <1>1, LaterSame
<1>2. CASE \E s \in Fruitless : x = Result(c, r, s)
  BY <1>2, ResultGood
<1>3. CASE \E d \in Docs : x = Found(c, r, d)
  BY <1>3, FoundGood
<1>4. CASE \E d \in Docs : c.doc[d].status = "None" /\ x = Create(c, r, d)
  BY <1>4, CreatedGood
<1>5. \/ x = c
      \/ \E s \in Fruitless : x = Result(c, r, s)
      \/ \E d \in Docs : x = Found(c, r, d)
      \/ \E d \in Docs : c.doc[d].status = "None" /\ x = Create(c, r, d)
  BY Dispatched
<1> QED
  BY <1>1, <1>2, <1>3, <1>4, <1>5

-----------------------------------------------------------------------------
(* The calls that change a request.                                        *)

\* What a call may do to one request and its history.
LEMMA RequestGood ==
  ASSUME NEW c, Good(c), NEW r \in Requests,
         NEW x, x \in Rows, x.doc = c.doc, x.task = c.task,
         \A q \in Requests : q # r => x.req[q] = c.req[q] /\ x.log[q] = c.log[q],
         \A d \in Docs : Live(c.doc[d]) /\ c.doc[d].of = r => Known(x, d),
         x.req[r].native = "Voided" <=> x.log[r].last = "Voided",
         x.req[r].native = "Created" => x.req[r].doc \in Docs,
         x.req[r].approved = FALSE => x.req[r].native = "None"
  PROVE Good(x) /\ Later(c, x)
<1>1. \A d \in Docs : Live(x.doc[d]) => Known(x, d)
  BY DEF Good, Known
<1>2. \A q \in Requests : /\ x.req[q].native = "Voided" <=> x.log[q].last = "Voided"
                          /\ x.req[q].native = "Created" => x.req[q].doc \in Docs
                          /\ x.req[q].approved = FALSE => x.req[q].native = "None"
  BY DEF Good
<1> QED
  BY <1>1, <1>2 DEF Good, Later

\* The final decision and its hook.
LEMMA ApproveGood ==
  ASSUME NEW c, Good(c), NEW r \in Requests, NEW v, NEW x \in Approve(v, c, r)
  PROVE Good(x) /\ Later(c, x)
<1> DEFINE row == [c.req[r] EXCEPT !.approved = TRUE]
           done == [c EXCEPT !.req[r].approved = TRUE]
           view == [v EXCEPT !.req[r] = done.req[r]]
<1>1. c \in Rows /\ c.req[r] \in Request /\ c.log \in [Requests -> History]
  BY DEF Good, Rows
<1>2. c.req[r].approved = FALSE /\ x \in Dispatch(view, done, r)
  BY <1>1 DEF Approve, Request
<1>3. c.req[r].native = "None"
  BY <1>2 DEF Good
<1>4. row \in Request /\ row.native = "None" /\ row.approved = TRUE
  BY <1>1, <1>3 DEF Request
<1>5. done = [c EXCEPT !.req = [c.req EXCEPT ![r] = row]]
  BY <1>1 DEF Rows, Request
<1> HIDE DEF row, done, view
<1>6. done \in Rows
  BY <1>1, <1>4, <1>5 DEF Rows
<1>7. /\ done.doc = c.doc /\ done.task = c.task /\ done.log = c.log /\ done.req[r] = row
      /\ \A q \in Requests : q # r => done.req[q] = c.req[q]
  BY <1>1, <1>5 DEF Rows
<1>8. \A d \in Docs : Live(c.doc[d]) /\ c.doc[d].of = r => Known(done, d)
  BY <1>3, <1>7 DEF Good, Known
<1>9. done.log[r].last # "Voided"
  BY <1>3, <1>7 DEF Good
<1>10. Good(done) /\ Later(c, done)
  BY <1>4, <1>6, <1>7, <1>8, <1>9, RequestGood
<1>11. Waiting(done, r)
  BY <1>4, <1>7 DEF Waiting
<1>12. Good(x) /\ Later(done, x)
  BY <1>2, <1>10, <1>11, DispatchGood
<1> QED
  BY <1>10, <1>12, LaterStill

\* The retry of a failed request.
LEMMA RetryGood ==
  ASSUME NEW c, Good(c), NEW r \in Requests, NEW v, NEW x \in Retry(v, c, r)
  PROVE Good(x) /\ Later(c, x)
<1>1. c.req[r].native = "Failed" /\ x \in Dispatch(v, c, r)
  BY DEF Retry
<1>2. c.req[r].approved \in BOOLEAN
  BY DEF Good, Rows, Request
<1>3. Waiting(c, r)
  BY <1>1, <1>2 DEF Good, Waiting
<1> QED
  BY <1>1, <1>3, DispatchGood

\* The reissue of a voided request.
LEMMA ReissueGood ==
  ASSUME NEW c, Good(c), NEW r \in Requests, NEW v, NEW x \in Reissue(v, c, r)
  PROVE Good(x) /\ Later(c, x)
<1> DEFINE row == [c.req[r] EXCEPT !.native = "None", !.doc = 0]
           past == [c.log[r] EXCEPT !.last = "Reissued", !.reissues = c.log[r].reissues + 1]
           cleared == Cleared(c, r)
           view == SeenAfter(v, cleared, r)
<1>1. c \in Rows /\ c.req[r] \in Request /\ c.log[r] \in History
  BY DEF Good, Rows
<1>2. c.req[r].native = "Voided" /\ x \in Dispatch(view, cleared, r)
  BY DEF Reissue
<1>3. c.req[r].approved = TRUE
  BY <1>1, <1>2 DEF Good, Request
<1>4. 0 \in 0..MaxDocs
  BY KindTypes
<1>5. row \in Request /\ row.native = "None" /\ row.approved = TRUE
  BY <1>1, <1>3, <1>4 DEF Request, NativeStatuses
<1>6. past \in History /\ past.last = "Reissued" /\ past.voided = c.log[r].voided
  <2>1. c.log[r].reissues + 1 \in Nat
    BY <1>1 DEF History
  <2>2. past \in History
    BY <1>1, <2>1 DEF History
  <2> QED
    BY <1>1, <2>2 DEF History
<1>7. cleared = [c EXCEPT !.req = [c.req EXCEPT ![r] = row], !.log = [c.log EXCEPT ![r] = past]]
  BY DEF Cleared
<1> HIDE DEF row, past, cleared, view
<1>8. cleared \in Rows
  BY <1>1, <1>5, <1>6, <1>7 DEF Rows
<1>9. /\ cleared.doc = c.doc /\ cleared.task = c.task
      /\ cleared.req[r] = row /\ cleared.log[r] = past
      /\ \A q \in Requests : q # r => cleared.req[q] = c.req[q] /\ cleared.log[q] = c.log[q]
  BY <1>1, <1>7 DEF Rows
<1>10. \A d \in Docs : Live(c.doc[d]) /\ c.doc[d].of = r => Known(cleared, d)
  BY <1>2, <1>6, <1>9 DEF Good, Known
<1>11. Good(cleared) /\ Later(c, cleared)
  BY <1>5, <1>6, <1>8, <1>9, <1>10, RequestGood
<1>12. Waiting(cleared, r)
  BY <1>5, <1>9 DEF Waiting
<1>13. Good(x) /\ Later(cleared, x)
  BY <1>2, <1>11, <1>12, DispatchGood
<1> QED
  BY <1>11, <1>13, LaterStill

-----------------------------------------------------------------------------
(* The calls that change a document and its task.                          *)

\* What a call may do to one document.
LEMMA DocumentGood ==
  ASSUME NEW c, Good(c), NEW d \in Docs, Live(c.doc[d]),
         NEW x, x \in Rows, x.req = c.req, x.log = c.log,
         \A e \in Docs : e # d => x.doc[e] = c.doc[e] /\ x.task[e] = c.task[e],
         x.doc[d].of = c.doc[d].of, x.doc[d].status # "None",
         c.doc[d].status = "Submitted" => x.doc[d].status \in {"Submitted", "Cancelled"},
         c.doc[d].status = "Submitted" /\ x.doc[d].status = "Submitted" => x.task[d] = c.task[d],
         c.task[d] \in {"Completed", "Rejected"} => x.task[d] = c.task[d],
         x.task[d] = "Open" => Live(x.doc[d]),
         x.task[d] = "Completed" => x.doc[d].status \in {"Submitted", "Cancelled"}
  PROVE Good(x) /\ Later(c, x)
<1>1. \A e \in Docs : Live(x.doc[e]) => Known(x, e)
  BY DEF Good, Known
<1>2. \A e \in Docs :
        /\ x.task[e] = "Open" => Live(x.doc[e])
        /\ x.doc[e].status = "None" => x.task[e] = "None"
        /\ x.task[e] = "Completed" => x.doc[e].status \in {"Submitted", "Cancelled"}
  BY DEF Good
<1>3. Later(c, x)
  BY DEF Later, Live
<1> QED
  BY <1>1, <1>2, <1>3 DEF Good

\* Another docstatus and another status of the task.
Moved(c, d, status, todo) == [c EXCEPT !.doc[d].status = status, !.task[d] = todo]

\* What such a change leaves alone.
LEMMA MovedRows ==
  ASSUME NEW c, Good(c), NEW d \in Docs,
         NEW status, status = "Submitted" \/ status = "Cancelled" \/ status = c.doc[d].status,
         NEW todo \in TaskStatuses, NEW x, x = Moved(c, d, status, todo)
  PROVE /\ x \in Rows /\ x.req = c.req /\ x.log = c.log
        /\ \A e \in Docs : e # d => x.doc[e] = c.doc[e] /\ x.task[e] = c.task[e]
        /\ x.doc[d].of = c.doc[d].of /\ x.doc[d].status = status /\ x.task[d] = todo
<1> DEFINE row == [c.doc[d] EXCEPT !.status = status]
<1>1. c \in Rows /\ c.doc[d] \in Document
  BY DEF Good, Rows
<1>2. row \in Document /\ row.status = status /\ row.of = c.doc[d].of
  BY <1>1 DEF Document
<1>3. x = [c EXCEPT !.doc = [c.doc EXCEPT ![d] = row], !.task = [c.task EXCEPT ![d] = todo]]
  BY <1>1 DEF Rows, Document, Moved
<1> HIDE DEF row
<1>4. x \in Rows
  <2>1. /\ [c.doc EXCEPT ![d] = row] \in [Docs -> Document]
        /\ [c.task EXCEPT ![d] = todo] \in [Docs -> TaskStatuses]
    BY <1>1, <1>2 DEF Rows
  <2> QED
    BY <1>1, <1>3, <2>1 DEF Rows
<1> QED
  BY <1>1, <1>2, <1>3, <1>4 DEF Rows

\* A cancellation, with the hook on the task.
LEMMA CancelGood ==
  ASSUME NEW c, Good(c), NEW d \in Docs, NEW v, Later(v, c), NEW x \in CancelDocument(v, c, d)
  PROVE Good(x) /\ Later(c, x) /\ x.req = c.req /\ x.log = c.log
<1> DEFINE todo == IF v.task[d] = "Open" THEN "Cancelled" ELSE c.task[d]
<1>1. c \in Rows /\ c.doc[d] \in Document /\ c.task[d] \in TaskStatuses
  BY DEF Good, Rows
<1>2. c.doc[d].status = "Submitted" /\ c.task[d] = v.task[d]
  BY DEF CancelDocument, Later
<1>3. x = CancelTask(v, [c EXCEPT !.doc[d].status = "Cancelled"], d)
  BY DEF CancelDocument
<1>4. x = Moved(c, d, "Cancelled", todo)
  BY <1>1, <1>3 DEF CancelTask, Moved, Rows
<1>5. todo \in TaskStatuses /\ todo # "Open"
  BY <1>1, <1>2 DEF TaskStatuses
<1>6. c.task[d] \in {"Completed", "Rejected"} => todo = c.task[d]
  BY <1>2
<1> HIDE DEF todo
<1>7. /\ x \in Rows /\ x.req = c.req /\ x.log = c.log
      /\ \A e \in Docs : e # d => x.doc[e] = c.doc[e] /\ x.task[e] = c.task[e]
      /\ x.doc[d].of = c.doc[d].of /\ x.doc[d].status = "Cancelled" /\ x.task[d] = todo
  BY <1>4, <1>5, MovedRows
<1> QED
  BY <1>2, <1>5, <1>6, <1>7, DocumentGood DEF Live

\* The receipt of a movement.
LEMMA ConfirmGood ==
  ASSUME NEW c, Good(c), NEW d \in Docs, NEW v, NEW x \in Confirm(v, c, d)
  PROVE Good(x) /\ Later(c, x)
<1>1. /\ c.doc[d].status = "Draft" /\ c.task[d] = "Open"
      /\ x = Moved(c, d, "Submitted", "Completed")
  BY DEF Confirm, Receivable, Moved
<1>2. /\ x \in Rows /\ x.req = c.req /\ x.log = c.log
      /\ \A e \in Docs : e # d => x.doc[e] = c.doc[e] /\ x.task[e] = c.task[e]
      /\ x.doc[d].of = c.doc[d].of /\ x.doc[d].status = "Submitted" /\ x.task[d] = "Completed"
  BY <1>1, MovedRows DEF TaskStatuses
<1> QED
  BY <1>1, <1>2, DocumentGood DEF Live

\* The answer that nothing was received.
LEMMA RejectGood ==
  ASSUME NEW c, Good(c), NEW d \in Docs, NEW v, NEW x \in Reject(v, c, d)
  PROVE Good(x) /\ Later(c, x)
<1>1. /\ c.doc[d].status = "Draft" /\ c.task[d] = "Open"
      /\ x = [c EXCEPT !.task[d] = "Rejected"]
  BY DEF Reject, Receivable
<1>2. c \in Rows
  BY DEF Good
<1>3. /\ x \in Rows /\ x.req = c.req /\ x.log = c.log /\ x.doc = c.doc
      /\ \A e \in Docs : e # d => x.task[e] = c.task[e]
      /\ x.task[d] = "Rejected"
  BY <1>1, <1>2 DEF Rows, TaskStatuses
<1> QED
  BY <1>1, <1>3, DocumentGood DEF Live

\* A submission by staff.
LEMMA SubmitGood ==
  ASSUME NEW c, Good(c), NEW d \in Docs, NEW v, NEW x \in SubmitDocument(v, c, d)
  PROVE Good(x) /\ Later(c, x)
<1>1. c.doc[d].status = "Draft" /\ x = [c EXCEPT !.doc[d].status = "Submitted"]
  BY DEF SubmitDocument
<1>2. c \in Rows /\ c.task[d] \in TaskStatuses
  BY DEF Good, Rows
<1>3. x = Moved(c, d, "Submitted", c.task[d])
  BY <1>1, <1>2 DEF Moved, Rows
<1>4. /\ x \in Rows /\ x.req = c.req /\ x.log = c.log
      /\ \A e \in Docs : e # d => x.doc[e] = c.doc[e] /\ x.task[e] = c.task[e]
      /\ x.doc[d].of = c.doc[d].of /\ x.doc[d].status = "Submitted" /\ x.task[d] = c.task[d]
  BY <1>2, <1>3, MovedRows
<1> QED
  BY <1>1, <1>4, DocumentGood DEF Live

\* The record of a void.
LEMMA RecordGood ==
  ASSUME NEW c, Good(c), NEW r \in Requests, c.req[r].native = "Created",
         NEW plan, NEW x, x = RecordVoid(c, r, plan)
  PROVE Good(x) /\ Later(c, x)
<1> DEFINE row == [c.req[r] EXCEPT !.native = "Voided"]
           past == [c.log[r] EXCEPT !.last = "Voided", !.blocked = Blocker(r, plan),
                                    !.voided = c.log[r].voided \cup {c.req[r].doc}]
<1>1. c \in Rows /\ c.req[r] \in Request /\ c.log[r] \in History /\ c.req[r].doc \in Docs
  BY DEF Good, Rows
<1>2. c.req[r].approved = TRUE
  BY <1>1 DEF Good, Request
<1>3. row \in Request /\ row.native = "Voided" /\ row.approved = TRUE
  BY <1>1, <1>2 DEF Request, NativeStatuses
<1>4. past.last = "Voided" /\ past.voided = c.log[r].voided \cup {c.req[r].doc}
  BY <1>1 DEF History
<1>5. past \in History
  <2>1. Blocker(r, plan) \in BOOLEAN
    BY DEF Blocker
  <2>2. c.log[r].voided \cup {c.req[r].doc} \in SUBSET Docs
    BY <1>1 DEF History
  <2> QED
    BY <1>1, <2>1, <2>2 DEF History
<1>6. x = [c EXCEPT !.req = [c.req EXCEPT ![r] = row], !.log = [c.log EXCEPT ![r] = past]]
  BY DEF RecordVoid
<1> HIDE DEF row, past
<1>7. x \in Rows
  <2>1. /\ [c.req EXCEPT ![r] = row] \in [Requests -> Request]
        /\ [c.log EXCEPT ![r] = past] \in [Requests -> History]
    BY <1>1, <1>3, <1>5 DEF Rows
  <2> QED
    BY <1>1, <1>6, <2>1 DEF Rows
<1>8. /\ x.doc = c.doc /\ x.task = c.task /\ x.req[r] = row /\ x.log[r] = past
      /\ \A q \in Requests : q # r => x.req[q] = c.req[q] /\ x.log[q] = c.log[q]
  BY <1>1, <1>6 DEF Rows
<1>9. \A d \in Docs : Live(c.doc[d]) /\ c.doc[d].of = r => Known(x, d)
  BY <1>4, <1>8 DEF Good, Known
<1>10. /\ x.req[r].native = "Voided" /\ x.req[r].approved = TRUE
       /\ x.log[r].last = "Voided"
  BY <1>3, <1>4, <1>8
<1>11. /\ x.req[r].native = "Voided" <=> x.log[r].last = "Voided"
       /\ x.req[r].native = "Created" => x.req[r].doc \in Docs
       /\ x.req[r].approved = FALSE => x.req[r].native = "None"
  BY <1>10
<1> QED
  BY ONLY <1>7, <1>8, <1>9, <1>11, Good(c), r \in Requests, RequestGood

\* The void, whatever its plan.
LEMMA VoidGood ==
  ASSUME NEW c, Good(c), NEW r \in Requests, NEW v, Later(v, c), NEW x \in Void(v, c, r)
  PROVE Good(x) /\ Later(c, x)
<1> DEFINE d == c.req[r].doc
           plan == VoidPlan(v.doc[d])
<1>1. c.req[r].native = "Created"
  BY DEF Void
<1>2. d \in Docs
  BY <1>1 DEF Good
<1>3. PICK y : /\ y \in IF plan = "cancel" THEN CancelDocument(v, c, d) ELSE {c}
               /\ x = RecordVoid(y, r, plan)
  BY DEF Void
<1> HIDE DEF d, plan
<1>4. Good(y) /\ Later(c, y) /\ y.req = c.req
  <2>1. CASE y = c
    BY <2>1, LaterSame
  <2>2. CASE y \in CancelDocument(v, c, d)
    BY <1>2, <2>2, CancelGood
  <2> QED
    BY <1>3, <2>1, <2>2
<1>5. Good(x) /\ Later(y, x)
  BY <1>1, <1>3, <1>4, RecordGood
<1> QED
  BY <1>4, <1>5, LaterStill

-----------------------------------------------------------------------------
(* The steps.                                                              *)

\* The start.
LEMMA InitGood == Init => IInv
<1> SUFFICES ASSUME Init PROVE IInv
  OBVIOUS
<1>1. db \in Rows
  <2>1. NotApproved \in Request /\ NoDocument \in Document /\ NoHistory \in History
    BY KindTypes DEF NotApproved, Request, NativeStatuses, NoDocument, Document, NoHistory, History
  <2>2. "None" \in TaskStatuses
    BY DEF TaskStatuses
  <2> QED
    BY <2>1, <2>2 DEF Init, Rows
<1>2. /\ \A r \in Requests : db.req[r] = NotApproved /\ db.log[r] = NoHistory
      /\ \A d \in Docs : db.doc[d] = NoDocument /\ db.task[d] = "None"
  BY DEF Init
<1>3. Good(db)
  BY <1>1, <1>2 DEF Good, NotApproved, NoHistory, NoDocument, Live
<1> QED
  BY <1>3 DEF Init, IInv

\* A step that commits rows which follow from the old ones.
LEMMA CommitGood ==
  ASSUME IInv, NEW w \in Workers, Good(db'), Later(db, db'),
         txn' = [txn EXCEPT ![w] = NoTxn]
  PROVE IInv'
<1>1. txn' \in [Workers -> Txn \cup {NoTxn}]
  BY DEF IInv
<1>2. ASSUME NEW u \in Workers, txn'[u] # NoTxn PROVE Later(txn'[u].v, db')
  <2>1. txn'[u] = txn[u] /\ Later(txn[u].v, db)
    BY <1>2 DEF IInv
  <2> QED
    BY <2>1, LaterStill
<1> QED
  BY <1>1, <1>2 DEF IInv

\* What a call is about follows from what it does.
LEMMA CallTypes ==
  ASSUME IInv, NEW w \in Workers, NEW op, txn[w].op = op,
         op \in RequestOps \cup TaskOps \cup {"submit", "cancel"}
  PROVE /\ Later(txn[w].v, db)
        /\ op \in RequestOps => txn[w].of \in Requests
        /\ op \notin RequestOps => txn[w].of \in Docs
<1>1. txn[w] # NoTxn /\ txn[w] \in Txn
  BY DEF IInv, NoTxn, RequestOps, TaskOps
<1> QED
  BY <1>1, KindTypes DEF IInv, Txn, RequestOps, TaskOps

\* What it saw were rows.
LEMMA SnapshotType ==
  ASSUME IInv, NEW w \in Workers, txn[w].op \in RequestOps PROVE txn[w].v \in Rows
<1>1. txn[w] # NoTxn /\ txn[w] \in Txn
  BY DEF IInv, NoTxn, RequestOps
<1> QED
  BY <1>1 DEF Txn

\* Every committed step.
LEMMA FinishGood ==
  ASSUME IInv, NEW w \in Workers,
         \/ FinishApprove(w) \/ FinishRetry(w) \/ FinishVoid(w) \/ FinishReissue(w)
         \/ FinishConfirm(w) \/ FinishReject(w) \/ FinishSubmit(w) \/ FinishCancel(w)
  PROVE Good(db') /\ Later(db, db') /\ txn' = [txn EXCEPT ![w] = NoTxn]
<1> DEFINE v == txn[w].v
           k == txn[w].of
<1>1. Good(db)
  BY DEF IInv
<1>2. CASE FinishApprove(w)
  <2>1. k \in Requests /\ db' \in Approve(v, db, k)
    BY <1>2, CallTypes DEF FinishApprove, Commit, RequestOps
  <2> QED
    BY <1>1, <1>2, <2>1, ApproveGood DEF FinishApprove, Commit
<1>3. CASE FinishRetry(w)
  <2>1. k \in Requests /\ db' \in Retry(v, db, k)
    BY <1>3, CallTypes DEF FinishRetry, Commit, RequestOps
  <2> QED
    BY <1>1, <1>3, <2>1, RetryGood DEF FinishRetry, Commit
<1>4. CASE FinishVoid(w)
  <2>1. k \in Requests /\ Later(v, db) /\ db' \in Void(v, db, k)
    BY <1>4, CallTypes DEF FinishVoid, Commit, RequestOps
  <2> QED
    BY <1>1, <1>4, <2>1, VoidGood DEF FinishVoid, Commit
<1>5. CASE FinishReissue(w)
  <2>1. k \in Requests /\ db' \in Reissue(v, db, k)
    BY <1>5, CallTypes DEF FinishReissue, Commit, RequestOps
  <2> QED
    BY <1>1, <1>5, <2>1, ReissueGood DEF FinishReissue, Commit
<1>6. CASE FinishConfirm(w)
  <2>1. k \in Docs /\ db' \in Confirm(v, db, k)
    BY <1>6, CallTypes DEF FinishConfirm, Commit, RequestOps, TaskOps
  <2> QED
    BY <1>1, <1>6, <2>1, ConfirmGood DEF FinishConfirm, Commit
<1>7. CASE FinishReject(w)
  <2>1. k \in Docs /\ db' \in Reject(v, db, k)
    BY <1>7, CallTypes DEF FinishReject, Commit, RequestOps, TaskOps
  <2> QED
    BY <1>1, <1>7, <2>1, RejectGood DEF FinishReject, Commit
<1>8. CASE FinishSubmit(w)
  <2>1. k \in Docs /\ db' \in SubmitDocument(v, db, k)
    BY <1>8, CallTypes DEF FinishSubmit, Commit, RequestOps, TaskOps
  <2> QED
    BY <1>1, <1>8, <2>1, SubmitGood DEF FinishSubmit, Commit
<1>9. CASE FinishCancel(w)
  <2>1. k \in Docs /\ Later(v, db) /\ db' \in CancelDocument(v, db, k)
    BY <1>9, CallTypes DEF FinishCancel, Commit, RequestOps, TaskOps
  <2> QED
    BY <1>1, <1>9, <2>1, CancelGood DEF FinishCancel, Commit
<1> QED
  BY <1>2, <1>3, <1>4, <1>5, <1>6, <1>7, <1>8, <1>9

\* The invariant is inductive, and time moves on.
LEMMA StepGood == IInv /\ [Next]_vars => IInv' /\ Later(db, db')
<1> SUFFICES ASSUME IInv, [Next]_vars PROVE IInv' /\ Later(db, db')
  OBVIOUS
<1>1. CASE UNCHANGED vars
  BY <1>1, LaterSame DEF IInv, vars
<1>2. ASSUME NEW w \in Workers, Begin(w) PROVE IInv' /\ Later(db, db')
  <2>1. db' = db /\ Later(db, db) /\ Good(db) /\ db \in Rows
    BY <1>2, LaterSame DEF Begin, IInv, Good
  <2>2. PICK t \in Txn : t.v = db /\ txn' = [txn EXCEPT ![w] = t]
    BY <1>2, <2>1 DEF Begin, Txn
  <2>3. txn' \in [Workers -> Txn \cup {NoTxn}]
    BY <2>2 DEF IInv
  <2>4. ASSUME NEW u \in Workers, txn'[u] # NoTxn PROVE Later(txn'[u].v, db)
    <3>1. CASE u = w
      BY <2>1, <2>2, <3>1 DEF IInv
    <3>2. CASE u # w
      BY <2>2, <2>4, <3>2 DEF IInv
    <3> QED
      BY <3>1, <3>2
  <2> QED
    BY <2>1, <2>3, <2>4 DEF IInv
<1>3. ASSUME NEW w \in Workers, Abort(w) PROVE IInv' /\ Later(db, db')
  <2>1. Good(db') /\ Later(db, db') /\ txn' = [txn EXCEPT ![w] = NoTxn]
    BY <1>3, LaterSame DEF Abort, IInv
  <2> QED
    BY <2>1, CommitGood
<1>4. ASSUME NEW w \in Workers,
             \/ FinishApprove(w) \/ FinishRetry(w) \/ FinishVoid(w) \/ FinishReissue(w)
             \/ FinishConfirm(w) \/ FinishReject(w) \/ FinishSubmit(w) \/ FinishCancel(w)
      PROVE IInv' /\ Later(db, db')
  <2>1. Good(db') /\ Later(db, db') /\ txn' = [txn EXCEPT ![w] = NoTxn]
    BY <1>4, FinishGood
  <2> QED
    BY <2>1, CommitGood
<1> QED
  BY <1>1, <1>2, <1>3, <1>4 DEF Next

\* The inductive invariant: the committed rows are good, and every snapshot a
\* call still uses is an earlier state of them.
THEOREM Invariance == Spec => []IInv
<1>1. Init => IInv
  BY InitGood
<1>2. IInv /\ [Next]_vars => IInv'
  BY StepGood
<1> QED
  BY <1>1, <1>2, PTL DEF Spec

\* Every reachable row and transaction has its shape.
THEOREM Typing == Spec => []TypeOK
<1>1. IInv => TypeOK
  BY DEF IInv, Good, TypeOK
<1> QED
  BY <1>1, Invariance, PTL

-----------------------------------------------------------------------------
(* One document for each time a request was issued, and nobody waits for a *)
(* delivery that nobody was asked about.                                   *)

Of(c, r) == {d \in Docs : c.doc[d].of = r}

\* A request that waits for a document has room for it.
Allowed(c, r) ==
  IF c.req[r].native \in {"Created", "Voided"} THEN 1 + c.log[r].reissues ELSE c.log[r].reissues

Paired(c) ==
  /\ \A r \in Requests : Cardinality(Of(c, r)) <= Allowed(c, r)
  /\ \A d \in Docs : c.doc[d].status = "Draft" /\ Kind[c.doc[d].of] = "Movement"
       => c.task[d] \in {"Open", "Rejected"}

\* What the dispatcher and the calls that end in it do: a result of the
\* request, and perhaps a fresh document.
Makes(v, c, x, r, d) ==
  /\ c.doc[d].status = "None" /\ Conflicts(v, r) = {}
  /\ x.req[r].native = "Created" /\ x.req[r].doc = d
  /\ x.doc[d] = [of |-> r, status |-> IF SubmittedAtOnce(r) THEN "Submitted" ELSE "Draft"]
  /\ x.task[d] = IF Kind[r] = "Movement" THEN "Open" ELSE "None"
  /\ \A e \in Docs : e # d => x.doc[e] = c.doc[e] /\ x.task[e] = c.task[e]

Gives(v, c, x, r) ==
  /\ \A q \in Requests : q # r => x.req[q] = c.req[q] /\ x.log[q] = c.log[q]
  /\ x.req[r].native # "Voided" /\ x.log[r].voided = c.log[r].voided
  /\ \/ /\ x.doc = c.doc /\ x.task = c.task
        /\ x.req[r].native = "Created" => x.req[r].doc \in Existing(v, r)
     \/ \E d \in Docs : Makes(v, c, x, r, d)

LEMMA Numbers ==
  ASSUME NEW c, NEW r
  PROVE  IsFiniteSet(Of(c, r)) /\ Cardinality(Of(c, r)) \in Nat
<1>1. IsFiniteSet(Docs)
  BY KindTypes, FS_Interval DEF Docs
<1>2. Of(c, r) \subseteq Docs
  BY DEF Of
<1> QED
  BY <1>1, <1>2, FS_Subset, FS_CardinalityType

\* A document more is at most one more.
LEMMA OneMore ==
  ASSUME NEW c, NEW r, NEW x, NEW d, Of(x, r) \subseteq Of(c, r) \cup {d}
  PROVE  Cardinality(Of(x, r)) <= Cardinality(Of(c, r)) + 1
<1> DEFINE S == Of(c, r)
<1>1. IsFiniteSet(S) /\ Cardinality(S) \in Nat
  BY Numbers
<1> HIDE DEF S
<1>2. IsFiniteSet(S \cup {d}) /\ Cardinality(S \cup {d}) <= Cardinality(S) + 1
  <2>1. CASE d \in S
    <3>1. S \cup {d} = S
      BY <2>1
    <3> QED BY <1>1, <3>1
  <2>2. CASE d \notin S
    <3>1. Cardinality(S \cup {d}) = Cardinality(S) + 1 /\ IsFiniteSet(S \cup {d})
      BY <1>1, <2>2, FS_AddElement
    <3>2. Cardinality(S) + 1 <= Cardinality(S) + 1
      BY <1>1
    <3> QED BY <3>1, <3>2
  <2> QED BY <2>1, <2>2
<1>3. Cardinality(Of(x, r)) <= Cardinality(S \cup {d})
  BY <1>2, FS_Subset DEF S
<1>4. Cardinality(S \cup {d}) \in Nat /\ Cardinality(Of(x, r)) \in Nat
  BY <1>2, FS_CardinalityType, Numbers
<1> QED
  BY <1>1, <1>2, <1>3, <1>4 DEF S

LEMMA SameNumber ==
  ASSUME NEW c, NEW x, NEW r, \A d \in Docs : x.doc[d].of = c.doc[d].of
  PROVE  Cardinality(Of(x, r)) = Cardinality(Of(c, r))
<1>1. Of(x, r) = Of(c, r)
  BY DEF Of
<1> QED
  BY <1>1

\* Room for the document is what the caller has to see to.
LEMMA GivesPaired ==
  ASSUME NEW c \in Rows, Paired(c), NEW r \in Requests, NEW v, NEW x \in Rows, Gives(v, c, x, r),
         Cardinality(Of(c, r)) <= x.log[r].reissues
  PROVE  Paired(x)
<1>1. \A q \in Requests : x.log[q].reissues \in Nat /\ Cardinality(Of(c, q)) \in Nat
  BY Numbers DEF Rows, History
<1>2. \A q \in Requests : q # r => Allowed(x, q) = Allowed(c, q)
  BY DEF Gives, Allowed
<1>3. CASE x.doc = c.doc /\ x.task = c.task
  <2>1. \A q \in Requests : Cardinality(Of(x, q)) = Cardinality(Of(c, q))
    BY <1>3, SameNumber
  <2>2. Cardinality(Of(c, r)) <= Allowed(x, r)
    BY <1>1 DEF Allowed
  <2> QED BY <1>2, <1>3, <2>1, <2>2 DEF Paired
<1>4. ASSUME NEW d \in Docs, Makes(v, c, x, r, d) PROVE Paired(x)
  <2>1. x.doc[d].of = r /\ \A e \in Docs : e # d => x.doc[e] = c.doc[e]
    BY <1>4 DEF Makes
  <2>2. Cardinality(Of(x, r)) <= Allowed(x, r)
    <3>1. Of(x, r) \subseteq Of(c, r) \cup {d}
      BY <2>1 DEF Of
    <3>2. Cardinality(Of(x, r)) <= Cardinality(Of(c, r)) + 1
      BY <3>1, OneMore
    <3>3. Allowed(x, r) = 1 + x.log[r].reissues
      BY <1>4 DEF Allowed, Makes
    <3> QED BY <1>1, <3>2, <3>3, Numbers
  <2>3. ASSUME NEW q \in Requests, q # r PROVE Cardinality(Of(x, q)) <= Allowed(x, q)
    <3>1. Of(x, q) \subseteq Of(c, q)
      BY <2>1, <2>3 DEF Of
    <3>2. Cardinality(Of(x, q)) <= Cardinality(Of(c, q))
      BY <3>1, Numbers, FS_Subset
    <3>3. Cardinality(Of(c, q)) <= Allowed(x, q)
      BY <1>2, <2>3 DEF Paired
    <3>4. Allowed(x, q) \in Nat
      BY <1>1 DEF Allowed
    <3> QED BY <3>2, <3>3, <3>4, Numbers
  <2>4. ASSUME NEW e \in Docs, x.doc[e].status = "Draft", Kind[x.doc[e].of] = "Movement"
        PROVE x.task[e] \in {"Open", "Rejected"}
    BY <1>4, <2>1, <2>4 DEF Makes, Paired
  <2> QED BY <2>2, <2>3, <2>4 DEF Paired
<1> QED
  BY <1>3, <1>4 DEF Gives

\* What every result of the dispatcher has in common.
LEMMA DispatchGives ==
  ASSUME NEW c \in Rows, NEW r \in Requests, Waiting(c, r), NEW v, NEW x \in Dispatch(v, c, r)
  PROVE  /\ Gives(v, c, x, r) /\ x.log = c.log
         /\ v.req[r] = c.req[r] => x.req[r].native # "None"
<1>0. /\ c.req[r] \in Request /\ c.req \in [Requests -> Request] /\ c.doc \in [Docs -> Document]
      /\ c.task \in [Docs -> TaskStatuses] /\ c = [req |-> c.req, doc |-> c.doc, task |-> c.task, log |-> c.log]
  BY DEF Rows
<1>1. ASSUME x = c,
             \/ Kind[r] # "Template" /\ ~v.req[r].approved
             \/ v.req[r].native \in {"Created", "Skipped", "Needs Review"}
      PROVE  Gives(v, c, x, r) /\ x.log = c.log /\ (v.req[r] = c.req[r] => x.req[r].native # "None")
  <2>1. Gives(v, c, x, r)
    BY <1>1 DEF Gives, Waiting
  <2>2. CASE v.req[r].native \in {"Created", "Skipped", "Needs Review"}
    BY <1>1, <2>1, <2>2
  <2>3. CASE Kind[r] # "Template" /\ ~v.req[r].approved
    BY <1>1, <2>1, <2>3 DEF Waiting
  <2> QED BY <1>1, <2>2, <2>3
<1>2. ASSUME NEW s \in Fruitless, x = Result(c, r, s)
      PROVE  Gives(v, c, x, r) /\ x.log = c.log /\ x.req[r].native # "None"
  <2>1. /\ x.doc = c.doc /\ x.task = c.task /\ x.log = c.log /\ x.req[r].native = s
        /\ \A q \in Requests : q # r => x.req[q] = c.req[q]
    BY <1>0, <1>2 DEF Result, Request
  <2> QED BY <2>1 DEF Gives, Fruitless
<1>3. ASSUME NEW d \in Existing(v, r), x = Found(c, r, d)
      PROVE  Gives(v, c, x, r) /\ x.log = c.log /\ x.req[r].native # "None"
  <2>1. /\ x.doc = c.doc /\ x.task = c.task /\ x.log = c.log
        /\ x.req[r].native = "Created" /\ x.req[r].doc = d
        /\ \A q \in Requests : q # r => x.req[q] = c.req[q]
    BY <1>0, <1>3 DEF Found, Request
  <2> QED BY <2>1 DEF Gives
<1>4. ASSUME NEW d \in Docs, c.doc[d].status = "None", Conflicts(v, r) = {}, x = Create(c, r, d)
      PROVE  Gives(v, c, x, r) /\ x.log = c.log /\ x.req[r].native # "None"
  <2>1. /\ x.log = c.log /\ x.req[r].native = "Created" /\ x.req[r].doc = d
        /\ \A q \in Requests : q # r => x.req[q] = c.req[q]
        /\ x.doc[d] = [of |-> r, status |-> IF SubmittedAtOnce(r) THEN "Submitted" ELSE "Draft"]
        /\ x.task[d] = IF Kind[r] = "Movement" THEN "Open" ELSE "None"
        /\ \A e \in Docs : e # d => x.doc[e] = c.doc[e] /\ x.task[e] = c.task[e]
    BY <1>0, <1>4 DEF Create, Request
  <2>2. Makes(v, c, x, r, d)
    BY <1>4, <2>1 DEF Makes
  <2> QED BY <2>1, <2>2 DEF Gives
<1> QED
  <2>1. CASE x \in Execute(v, c, r)
    <3>1. \/ \E s \in Fruitless : x = Result(c, r, s)
          \/ \E d \in Existing(v, r) : x = Found(c, r, d)
          \/ \E d \in Docs : c.doc[d].status = "None" /\ Conflicts(v, r) = {} /\ x = Create(c, r, d)
      BY <2>1 DEF Execute, Fresh, Found, Fruitless
    <3> QED BY <1>2, <1>3, <1>4, <3>1
  <2> QED BY <1>1, <2>1 DEF Dispatch

\* A call that ends in the dispatcher, from the request as it found it.
LEMMA ApproveGives ==
  ASSUME NEW c, Good(c), NEW r \in Requests, NEW v \in Rows, NEW x \in Approve(v, c, r)
  PROVE  /\ c.req[r].native = "None" /\ c.req[r].approved = FALSE /\ x.log = c.log
         /\ Gives(v, c, x, r) /\ x.req[r].native # "None"
<1> DEFINE row == [c.req[r] EXCEPT !.approved = TRUE]
           done == [c EXCEPT !.req[r].approved = TRUE]
           view == [v EXCEPT !.req[r] = done.req[r]]
<1>1. c \in Rows /\ c.req[r] \in Request
  BY DEF Good, Rows
<1>2. c.req[r].approved = FALSE /\ x \in Dispatch(view, done, r)
  BY <1>1 DEF Approve, Request
<1>3. c.req[r].native = "None"
  BY <1>2 DEF Good
<1>4. row \in Request /\ row.native = "None" /\ row.approved = TRUE
  BY <1>1, <1>3 DEF Request
<1>5. done = [c EXCEPT !.req = [c.req EXCEPT ![r] = row]]
  BY <1>1 DEF Rows, Request
<1> HIDE DEF row, done
<1>6. done \in Rows
  BY <1>1, <1>4, <1>5 DEF Rows
<1>7. /\ done.doc = c.doc /\ done.task = c.task /\ done.log = c.log /\ done.req[r] = row
      /\ \A q \in Requests : q # r => done.req[q] = c.req[q]
  BY <1>1, <1>5 DEF Rows
<1>8. view.doc = v.doc /\ view.req[r] = done.req[r]
  BY DEF Rows
<1> HIDE DEF view
<1>9. Gives(view, done, x, r) /\ x.log = done.log /\ x.req[r].native # "None"
  <2>1. Waiting(done, r)
    BY <1>4, <1>7 DEF Waiting
  <2> QED BY <1>2, <1>6, <1>8, <2>1, DispatchGives
<1>10. Conflicts(view, r) = Conflicts(v, r) /\ Existing(view, r) = Existing(v, r)
  BY <1>8 DEF Conflicts, Existing
<1>11. Gives(v, c, x, r)
  BY <1>7, <1>9, <1>10 DEF Gives, Makes
<1> QED
  BY <1>2, <1>3, <1>7, <1>9, <1>11

LEMMA RetryGives ==
  ASSUME NEW c, Good(c), NEW r \in Requests, NEW v, NEW x \in Retry(v, c, r)
  PROVE  /\ c.req[r].native = "Failed" /\ x.log = c.log /\ Gives(v, c, x, r)
         /\ v.req[r] = c.req[r] => x.req[r].native # "None"
<1>1. c.req[r].native = "Failed" /\ x \in Dispatch(v, c, r)
  BY DEF Retry
<1>2. c \in Rows /\ c.req[r].approved \in BOOLEAN
  BY DEF Good, Rows, Request
<1>3. Waiting(c, r)
  BY <1>1, <1>2 DEF Good, Waiting
<1> QED
  BY <1>1, <1>2, <1>3, DispatchGives

LEMMA ReissueGives ==
  ASSUME NEW c, Good(c), NEW r \in Requests, NEW v \in Rows, NEW x \in Reissue(v, c, r)
  PROVE  /\ c.req[r].native = "Voided" /\ ~v.log[r].blocked
         /\ x.log[r].reissues = c.log[r].reissues + 1 /\ Gives(v, c, x, r)
         /\ v.req[r].approved = TRUE => x.req[r].native # "None"
<1> DEFINE row == [c.req[r] EXCEPT !.native = "None", !.doc = 0]
           past == [c.log[r] EXCEPT !.last = "Reissued", !.reissues = c.log[r].reissues + 1]
           cleared == Cleared(c, r)
           seen == [cleared.req[r] EXCEPT !.approved = v.req[r].approved]
           view == SeenAfter(v, cleared, r)
<1>1. c \in Rows /\ c.req[r] \in Request /\ c.log[r] \in History
  BY DEF Good, Rows
<1>2. c.req[r].native = "Voided" /\ ~v.log[r].blocked /\ x \in Dispatch(view, cleared, r)
  BY DEF Reissue
<1>3. c.req[r].approved = TRUE
  BY <1>1, <1>2 DEF Good, Request
<1>4. 0 \in 0..MaxDocs
  BY KindTypes
<1>5. row \in Request /\ row.native = "None" /\ row.approved = TRUE
  BY <1>1, <1>3, <1>4 DEF Request, NativeStatuses
<1>6. past \in History /\ past.voided = c.log[r].voided /\ past.reissues = c.log[r].reissues + 1
  <2>1. c.log[r].reissues + 1 \in Nat
    BY <1>1 DEF History
  <2> QED
    BY <1>1, <2>1 DEF History
<1>7. cleared = [c EXCEPT !.req = [c.req EXCEPT ![r] = row], !.log = [c.log EXCEPT ![r] = past]]
  BY DEF Cleared
<1>8. view = [v EXCEPT !.req = [v.req EXCEPT ![r] = seen]]
  BY DEF SeenAfter, Rows
<1> HIDE DEF row, past, cleared, view
<1>9. cleared \in Rows
  BY <1>1, <1>5, <1>6, <1>7 DEF Rows
<1>10. /\ cleared.doc = c.doc /\ cleared.task = c.task
       /\ cleared.req[r] = row /\ cleared.log[r] = past
       /\ \A q \in Requests : q # r => cleared.req[q] = c.req[q] /\ cleared.log[q] = c.log[q]
  BY <1>1, <1>7 DEF Rows
<1>11. view.doc = v.doc /\ (v.req[r].approved = TRUE => view.req[r] = cleared.req[r])
  <2>1. view.doc = v.doc /\ view.req[r] = seen
    BY <1>8 DEF Rows
  <2>2. v.req[r].approved = TRUE => seen = cleared.req[r]
    BY <1>5, <1>10 DEF Request
  <2> QED BY <2>1, <2>2
<1>12. /\ Gives(view, cleared, x, r) /\ x.log = cleared.log
       /\ v.req[r].approved = TRUE => x.req[r].native # "None"
  <2>1. Waiting(cleared, r)
    BY <1>5, <1>10 DEF Waiting
  <2> QED BY <1>2, <1>9, <1>11, <2>1, DispatchGives
<1>13. Conflicts(view, r) = Conflicts(v, r) /\ Existing(view, r) = Existing(v, r)
  BY <1>11 DEF Conflicts, Existing
<1>14. Gives(v, c, x, r)
  BY <1>6, <1>10, <1>12, <1>13 DEF Gives, Makes
<1> QED
  BY <1>2, <1>6, <1>10, <1>12, <1>14

\* What a call does to one document: staff or the requester move it on, or the
\* requester refuses it.
Handles(c, x, d) ==
  /\ x.req = c.req /\ x.log = c.log
  /\ \A e \in Docs : e # d => x.doc[e] = c.doc[e] /\ x.task[e] = c.task[e]
  /\ x.doc[d].of = c.doc[d].of
  /\ \/ x.doc[d].status \in {"Submitted", "Cancelled"}
     \/ x.doc[d].status = "Draft" /\ x.task[d] = "Rejected"

LEMMA HandlesPaired ==
  ASSUME NEW c, Paired(c), NEW d \in Docs, NEW x, Handles(c, x, d)
  PROVE  Paired(x)
<1>1. \A r \in Requests : Cardinality(Of(x, r)) = Cardinality(Of(c, r)) /\ Allowed(x, r) = Allowed(c, r)
  BY SameNumber DEF Handles, Allowed
<1>2. \A e \in Docs : x.doc[e].status = "Draft" /\ Kind[x.doc[e].of] = "Movement"
        => x.task[e] \in {"Open", "Rejected"}
  BY DEF Handles, Paired
<1> QED
  BY <1>1, <1>2 DEF Paired

LEMMA CancelHandles ==
  ASSUME NEW c, Good(c), NEW d \in Docs, NEW v, Later(v, c), NEW x \in CancelDocument(v, c, d)
  PROVE  /\ Handles(c, x, d) /\ x.doc[d].status = "Cancelled" /\ Live(c.doc[d])
         /\ x.task[d] = IF v.task[d] = "Open" THEN "Cancelled" ELSE c.task[d]
<1> DEFINE todo == IF v.task[d] = "Open" THEN "Cancelled" ELSE c.task[d]
<1>1. c \in Rows /\ c.task[d] \in TaskStatuses
  BY DEF Good, Rows
<1>2. c.doc[d].status = "Submitted" /\ x = CancelTask(v, [c EXCEPT !.doc[d].status = "Cancelled"], d)
  BY DEF CancelDocument
<1>3. x = Moved(c, d, "Cancelled", todo)
  BY <1>1, <1>2 DEF CancelTask, Moved, Rows
<1>4. todo \in TaskStatuses
  BY <1>1 DEF TaskStatuses
<1> HIDE DEF todo
<1>5. /\ x \in Rows /\ x.req = c.req /\ x.log = c.log
      /\ \A e \in Docs : e # d => x.doc[e] = c.doc[e] /\ x.task[e] = c.task[e]
      /\ x.doc[d].of = c.doc[d].of /\ x.doc[d].status = "Cancelled" /\ x.task[d] = todo
  BY <1>3, <1>4, MovedRows
<1> QED
  BY <1>2, <1>5 DEF Handles, Live, todo

LEMMA OthersHandle ==
  ASSUME NEW c, Good(c), NEW d \in Docs, NEW v,
         NEW x \in Confirm(v, c, d) \cup Reject(v, c, d) \cup SubmitDocument(v, c, d)
  PROVE  Handles(c, x, d)
<1>1. c \in Rows /\ c.task[d] \in TaskStatuses
  BY DEF Good, Rows
<1>2. CASE x \in Confirm(v, c, d)
  <2>1. x = Moved(c, d, "Submitted", "Completed")
    BY <1>2 DEF Confirm, Moved
  <2>2. /\ x \in Rows /\ x.req = c.req /\ x.log = c.log
        /\ \A e \in Docs : e # d => x.doc[e] = c.doc[e] /\ x.task[e] = c.task[e]
        /\ x.doc[d].of = c.doc[d].of /\ x.doc[d].status = "Submitted"
    BY <2>1, MovedRows DEF TaskStatuses
  <2> QED BY <2>2 DEF Handles
<1>3. CASE x \in SubmitDocument(v, c, d)
  <2>1. x = [c EXCEPT !.doc[d].status = "Submitted"]
    BY <1>3 DEF SubmitDocument
  <2>2. x = Moved(c, d, "Submitted", c.task[d])
    BY <1>1, <2>1 DEF Moved, Rows
  <2>3. /\ x \in Rows /\ x.req = c.req /\ x.log = c.log
        /\ \A e \in Docs : e # d => x.doc[e] = c.doc[e] /\ x.task[e] = c.task[e]
        /\ x.doc[d].of = c.doc[d].of /\ x.doc[d].status = "Submitted"
    BY <1>1, <2>2, MovedRows
  <2> QED BY <2>3 DEF Handles
<1>4. CASE x \in Reject(v, c, d)
  <2>1. c.doc[d].status = "Draft" /\ x = [c EXCEPT !.task[d] = "Rejected"]
    BY <1>4 DEF Reject, Receivable
  <2>2. /\ x.req = c.req /\ x.log = c.log /\ x.doc = c.doc /\ x.task[d] = "Rejected"
        /\ \A e \in Docs : e # d => x.task[e] = c.task[e]
    BY <1>1, <2>1 DEF Rows
  <2> QED BY <2>1, <2>2 DEF Handles
<1> QED
  BY <1>2, <1>3, <1>4

\* The record of a void names the document it is about.
LEMMA Recorded ==
  ASSUME NEW c, Good(c), NEW r \in Requests, NEW plan, NEW x, x = RecordVoid(c, r, plan)
  PROVE  /\ x.doc = c.doc /\ x.task = c.task /\ x.req[r].native = "Voided"
         /\ x.log[r].voided = c.log[r].voided \cup {c.req[r].doc}
         /\ x.log[r].reissues = c.log[r].reissues
         /\ \A q \in Requests : q # r => x.req[q] = c.req[q] /\ x.log[q] = c.log[q]
<1> DEFINE row == [c.req[r] EXCEPT !.native = "Voided"]
           past == [c.log[r] EXCEPT !.last = "Voided", !.blocked = Blocker(r, plan),
                                    !.voided = c.log[r].voided \cup {c.req[r].doc}]
<1>1. c \in Rows /\ c.req[r] \in Request /\ c.log[r] \in History
  BY DEF Good, Rows
<1>2. row.native = "Voided"
  BY <1>1 DEF Request
<1>3. past.voided = c.log[r].voided \cup {c.req[r].doc} /\ past.reissues = c.log[r].reissues
  BY <1>1 DEF History
<1>4. x = [c EXCEPT !.req = [c.req EXCEPT ![r] = row], !.log = [c.log EXCEPT ![r] = past]]
  BY <1>1 DEF RecordVoid, Rows
<1> HIDE DEF row, past
<1>5. /\ x.doc = c.doc /\ x.task = c.task /\ x.req[r] = row /\ x.log[r] = past
      /\ \A q \in Requests : q # r => x.req[q] = c.req[q] /\ x.log[q] = c.log[q]
  BY <1>1, <1>4 DEF Rows
<1> QED
  BY <1>2, <1>3, <1>5

LEMMA RecordPaired ==
  ASSUME NEW c, Good(c), Paired(c), NEW r \in Requests, c.req[r].native = "Created",
         NEW plan, NEW x, x = RecordVoid(c, r, plan)
  PROVE  Paired(x)
<1>1. /\ x.doc = c.doc /\ x.task = c.task /\ x.req[r].native = "Voided"
      /\ x.log[r].reissues = c.log[r].reissues
      /\ \A q \in Requests : q # r => x.req[q] = c.req[q] /\ x.log[q] = c.log[q]
  BY Recorded
<1>2. \A q \in Requests : Allowed(x, q) = Allowed(c, q)
  BY <1>1 DEF Allowed
<1>3. \A q \in Requests : Cardinality(Of(x, q)) = Cardinality(Of(c, q))
  BY <1>1, SameNumber
<1> QED
  BY <1>1, <1>2, <1>3 DEF Paired

LEMMA VoidPaired ==
  ASSUME NEW c, Good(c), Paired(c), NEW r \in Requests, NEW v, Later(v, c), NEW x \in Void(v, c, r)
  PROVE  Paired(x)
<1> DEFINE d == c.req[r].doc
           plan == VoidPlan(v.doc[d])
<1>1. c.req[r].native = "Created"
  BY DEF Void
<1>2. d \in Docs
  BY <1>1 DEF Good
<1>3. PICK y : /\ y \in IF plan = "cancel" THEN CancelDocument(v, c, d) ELSE {c}
               /\ x = RecordVoid(y, r, plan)
  BY DEF Void
<1> HIDE DEF d, plan
<1>4. CASE y = c
  BY <1>1, <1>3, <1>4, RecordPaired
<1>5. CASE y \in CancelDocument(v, c, d)
  <2>1. Good(y) /\ y.req = c.req
    BY <1>2, <1>5, CancelGood
  <2>2. Paired(y)
    BY <1>2, <1>5, CancelHandles, HandlesPaired
  <2> QED BY <1>1, <1>3, <2>1, <2>2, RecordPaired
<1> QED
  BY <1>3, <1>4, <1>5

\* A call that issues had room: nothing before, nothing since, or a reissue.
LEMMA IssuePaired ==
  ASSUME NEW c, Good(c), Paired(c), NEW r \in Requests, NEW v \in Rows,
         NEW x \in Approve(v, c, r) \cup Retry(v, c, r) \cup Reissue(v, c, r), Good(x)
  PROVE  Paired(x)
<1>1. c \in Rows /\ x \in Rows /\ c.log[r].reissues \in Nat /\ x.log[r].reissues \in Nat
  BY DEF Good, Rows, History
<1>2. Gives(v, c, x, r) /\ Allowed(c, r) <= x.log[r].reissues
  <2>1. CASE x \in Approve(v, c, r)
    <3>1. Gives(v, c, x, r) /\ c.req[r].native = "None" /\ x.log = c.log
      BY <2>1, ApproveGives
    <3> QED BY <1>1, <3>1 DEF Allowed
  <2>2. CASE x \in Retry(v, c, r)
    <3>1. Gives(v, c, x, r) /\ c.req[r].native = "Failed" /\ x.log = c.log
      BY <2>2, RetryGives
    <3> QED BY <1>1, <3>1 DEF Allowed
  <2>3. CASE x \in Reissue(v, c, r)
    <3>1. Gives(v, c, x, r) /\ c.req[r].native = "Voided" /\ x.log[r].reissues = c.log[r].reissues + 1
      BY <2>3, ReissueGives
    <3> QED BY <1>1, <3>1 DEF Allowed
  <2> QED BY <2>1, <2>2, <2>3
<1>3. Cardinality(Of(c, r)) <= x.log[r].reissues
  <2>1. Allowed(c, r) \in Nat
    BY <1>1 DEF Allowed
  <2> QED BY <1>1, <1>2, <2>1, Numbers DEF Paired
<1> QED
  BY <1>1, <1>2, <1>3, GivesPaired

\* Every step.
LEMMA StepPaired == IInv /\ Paired(db) /\ [Next]_vars => Paired(db')
<1> SUFFICES ASSUME IInv, Paired(db), [Next]_vars PROVE Paired(db')
  OBVIOUS
<1>1. Good(db) /\ Good(db')
  BY StepGood DEF IInv
<1>2. CASE db' = db
  BY <1>2
<1>3. ASSUME NEW w \in Workers, NEW r \in Requests, txn[w].v \in Rows,
             db' \in Approve(txn[w].v, db, r) \cup Retry(txn[w].v, db, r) \cup Reissue(txn[w].v, db, r)
      PROVE  Paired(db')
  BY <1>1, <1>3, IssuePaired
<1>4. ASSUME NEW w \in Workers, NEW r \in Requests, Later(txn[w].v, db), db' \in Void(txn[w].v, db, r)
      PROVE  Paired(db')
  BY <1>1, <1>4, VoidPaired
<1>5. ASSUME NEW w \in Workers, NEW d \in Docs, Later(txn[w].v, db), db' \in CancelDocument(txn[w].v, db, d)
      PROVE  Paired(db')
  BY <1>1, <1>5, CancelHandles, HandlesPaired
<1>6. ASSUME NEW w \in Workers, NEW d \in Docs,
             db' \in Confirm(txn[w].v, db, d) \cup Reject(txn[w].v, db, d)
                       \cup SubmitDocument(txn[w].v, db, d)
      PROVE  Paired(db')
  BY <1>1, <1>6, OthersHandle, HandlesPaired
<1>7. CASE UNCHANGED vars \/ \E w \in Workers : Begin(w) \/ Abort(w)
  BY <1>2, <1>7 DEF vars, Begin, Abort
<1>8. ASSUME NEW w \in Workers,
             \/ FinishApprove(w) \/ FinishRetry(w) \/ FinishVoid(w) \/ FinishReissue(w)
             \/ FinishConfirm(w) \/ FinishReject(w) \/ FinishSubmit(w) \/ FinishCancel(w)
      PROVE  Paired(db')
  <2>1. CASE FinishApprove(w) \/ FinishRetry(w) \/ FinishVoid(w) \/ FinishReissue(w)
    <3>1. txn[w].of \in Requests /\ Later(txn[w].v, db) /\ txn[w].v \in Rows
      BY <2>1, CallTypes, SnapshotType
           DEF FinishApprove, FinishRetry, FinishVoid, FinishReissue, RequestOps
    <3> QED
      BY <1>3, <1>4, <2>1, <3>1 DEF FinishApprove, FinishRetry, FinishVoid, FinishReissue, Commit
  <2>2. CASE FinishConfirm(w) \/ FinishReject(w) \/ FinishSubmit(w) \/ FinishCancel(w)
    <3>1. txn[w].of \in Docs /\ Later(txn[w].v, db)
      BY <2>2, CallTypes
           DEF FinishConfirm, FinishReject, FinishSubmit, FinishCancel, RequestOps, TaskOps
    <3> QED
      BY <1>5, <1>6, <2>2, <3>1 DEF FinishConfirm, FinishReject, FinishSubmit, FinishCancel, Commit
  <2> QED BY <1>8, <2>1, <2>2
<1> QED
  BY <1>7, <1>8 DEF Next

LEMMA InitPaired == Init => Paired(db)
<1> SUFFICES ASSUME Init PROVE Paired(db)
  OBVIOUS
<1>1. /\ \A r \in Requests : db.req[r] = NotApproved /\ db.log[r] = NoHistory
      /\ \A d \in Docs : db.doc[d] = NoDocument
  BY DEF Init
<1>2. ASSUME NEW r \in Requests PROVE Cardinality(Of(db, r)) <= Allowed(db, r)
  <2>1. Of(db, r) = {}
    BY <1>1, KindTypes DEF Of, NoDocument
  <2>2. Allowed(db, r) = 0
    BY <1>1 DEF Allowed, NotApproved, NoHistory
  <2> QED BY <2>1, <2>2, FS_EmptySet
<1> QED
  BY <1>1, <1>2 DEF Paired, NoDocument

LEMMA PairedInvariance == Spec => [](IInv /\ Paired(db))
<1>1. Init => IInv /\ Paired(db)
  BY InitGood, InitPaired
<1>2. IInv /\ Paired(db) /\ [Next]_vars => (IInv /\ Paired(db))'
  BY StepGood, StepPaired
<1> QED
  BY <1>1, <1>2, PTL DEF Spec

LEMMA PairedCounts == Paired(db) /\ IInv => OneDocumentPerIssue /\ DraftIsAnswered
<1> SUFFICES ASSUME Paired(db), IInv PROVE OneDocumentPerIssue /\ DraftIsAnswered
  OBVIOUS
<1>1. ASSUME NEW r \in Requests PROVE Cardinality(Of(db, r)) <= 1 + db.log[r].reissues
  <2>1. db.log[r].reissues \in Nat
    BY DEF IInv, Good, Rows, History
  <2>2. Allowed(db, r) <= 1 + db.log[r].reissues /\ Allowed(db, r) \in Nat
    BY <2>1 DEF Allowed
  <2> QED BY <2>1, <2>2, Numbers DEF Paired
<1> QED
  BY <1>1 DEF OneDocumentPerIssue, Of, DraftIsAnswered, Paired

\* However calls overlap, dispatch, retry, void and reissue leave no document
\* that counts and that its request neither names nor records as voided, and
\* a request has at most one document more than it was reissued.
THEOREM NothingLeftBehindHolds == Spec => []NothingLeftBehind
<1>1. IInv => EveryDocumentKnown
  BY DEF IInv, Good, EveryDocumentKnown, Known
<1> QED
  BY <1>1, PairedInvariance, PairedCounts, PTL DEF NothingLeftBehind

\* However calls overlap, a request is Voided exactly when the latest of its
\* void and reissue activities is a void.
THEOREM MarkersTellHolds == Spec => []MarkersTell
<1>1. IInv => MarkersTell
  BY DEF IInv, Good, MarkersTell
<1> QED
  BY <1>1, Invariance, PTL

\* However calls overlap, a receipt task is open only while its movement
\* counts, and confirmed only with it.
THEOREM TaskTellsMovementHolds == Spec => []TaskTellsMovement
<1>1. IInv => TaskTellsMovement
  BY DEF IInv, Good, TaskTellsMovement
<1> QED
  BY <1>1, Invariance, PTL

\* However calls overlap, the status of a request and its receipt task tell what
\* has become of its document, and its requester is asked about a delivery.
THEOREM ReceiptTellsHolds == Spec => []ReceiptTells
<1> QED
  BY TaskTellsMovementHolds, MarkersTellHolds, PairedInvariance, PairedCounts, PTL DEF ReceiptTells

\* No step of any call changes the answer of a requester.
THEOREM AnswerStandsHolds == Spec => AnswerStands
<1>1. IInv /\ [Next]_vars
        => [\A d \in Docs : db.task[d] \in {"Completed", "Rejected"} => db'.task[d] = db.task[d]]_vars
  BY StepGood DEF Later
<1> QED
  BY <1>1, Invariance, PTL DEF Spec, AnswerStands

-----------------------------------------------------------------------------
(* Requests served one after another.                                      *)

\* One call at a time, and what was voided as a draft is out of reach: nobody
\* is asked to receive it, and staff do not submit by hand.
InTurn ==
  /\ \A w1, w2 \in Workers : w1 = w2
  /\ \A r \in Requests : Kind[r] # "Movement"
  /\ "submit" \notin DeskOps

Kept(c) ==
  /\ \A d \in Docs : /\ c.doc[d].status = "None" => c.doc[d].of = NoRequest
                     /\ c.task[d] = "None"
  /\ \A r \in Requests :
       /\ c.req[r].native = "Created" => c.doc[c.req[r].doc].status # "None"
       /\ c.req[r].approved = TRUE => c.req[r].native # "None"
       /\ \A d \in c.log[r].voided : c.doc[d].status \in {"Draft", "Cancelled"}
  /\ \A d, e \in Docs :
       Live(c.doc[d]) /\ Live(c.doc[e]) /\ Exclusive(c.doc[d].of) /\ Kind[c.doc[e].of] = Kind[c.doc[d].of]
         => d = e

AloneInv ==
  /\ IInv /\ Kept(db)
  /\ \A w \in Workers : txn[w] # NoTxn => txn[w].v = db

\* Voided for good when blocked.
Blocked(c, x) ==
  \A r \in Requests : c.req[r].native = "Voided" /\ c.log[r].blocked => x.req[r] = c.req[r]

LEMMA GivesKept ==
  ASSUME InTurn, NEW c, Good(c), Kept(c), NEW r \in Requests, NEW x, Good(x), Gives(c, c, x, r),
         x.req[r].native # "None"
  PROVE  Kept(x)
<1>1. c \in Rows /\ x \in Rows /\ r # NoRequest
  BY KindTypes DEF Good
<1>2. \A d \in Docs : d \in Existing(c, r) => c.doc[d].status # "None"
  BY <1>1 DEF Existing, Kept
<1>3. \A q \in Requests : x.log[q].voided = c.log[q].voided /\ x.log[q].voided \subseteq Docs
  BY <1>1 DEF Gives, Rows, History
<1>4. \A q \in Requests : x.req[q].approved = TRUE => x.req[q].native # "None"
  BY DEF Gives, Kept
<1>5. CASE x.doc = c.doc /\ x.task = c.task /\ (x.req[r].native = "Created" => x.req[r].doc \in Existing(c, r))
  <2>1. \A q \in Requests : x.req[q].native = "Created" => x.doc[x.req[q].doc].status # "None"
    BY <1>2, <1>5 DEF Gives, Kept, Existing
  <2> QED BY <1>3, <1>4, <1>5, <2>1 DEF Kept
<1>6. ASSUME NEW d \in Docs, Makes(c, c, x, r, d) PROVE Kept(x)
  <2>1. /\ c.doc[d].status = "None" /\ x.doc[d].of = r /\ x.doc[d].status \in {"Submitted", "Draft"}
        /\ x.task[d] = "None" /\ x.req[r].doc = d
        /\ \A e \in Docs : e # d => x.doc[e] = c.doc[e] /\ x.task[e] = c.task[e]
    BY <1>6 DEF Makes, InTurn
  <2>2. \A q \in Requests : x.req[q].native = "Created" => x.doc[x.req[q].doc].status # "None"
    BY <2>1 DEF Gives, Kept, Good
  <2>3. \A q \in Requests : \A e \in x.log[q].voided : x.doc[e].status \in {"Draft", "Cancelled"}
    <3> SUFFICES ASSUME NEW q \in Requests, NEW e \in x.log[q].voided
                 PROVE  x.doc[e].status \in {"Draft", "Cancelled"}
      OBVIOUS
    <3>1. e \in Docs /\ c.doc[e].status \in {"Draft", "Cancelled"}
      BY <1>3 DEF Kept
    <3> QED BY <2>1, <3>1
  <2>4. \A e \in Docs : Live(c.doc[e]) /\ Kind[c.doc[e].of] = Kind[r] => ~Exclusive(r)
    BY <1>6 DEF Makes, Conflicts
  <2>5. \A e \in Docs : x.doc[e].status = "None" => x.doc[e].of = NoRequest
    BY <2>1 DEF Kept
  <2>6. \A e, f \in Docs :
          Live(x.doc[e]) /\ Live(x.doc[f]) /\ Exclusive(x.doc[e].of) /\ Kind[x.doc[f].of] = Kind[x.doc[e].of]
            => e = f
    <3> SUFFICES ASSUME NEW e \in Docs, NEW f \in Docs, Live(x.doc[e]), Live(x.doc[f]),
                        Exclusive(x.doc[e].of), Kind[x.doc[f].of] = Kind[x.doc[e].of]
                 PROVE  e = f
      OBVIOUS
    <3>1. CASE e = d \/ f = d
      BY <2>1, <2>4, <3>1 DEF Exclusive
    <3>2. CASE e # d /\ f # d
      BY <2>1, <3>2 DEF Kept
    <3> QED BY <3>1, <3>2
  <2>7. \A e \in Docs : x.task[e] = "None"
    BY <2>1 DEF Kept
  <2> QED BY <1>4, <2>2, <2>3, <2>5, <2>6, <2>7 DEF Kept
<1> QED
  BY <1>5, <1>6 DEF Gives

LEMMA CancelKept ==
  ASSUME NEW c, Good(c), Kept(c), NEW d \in Docs, NEW x \in CancelDocument(c, c, d)
  PROVE  Kept(x)
<1>1. /\ Handles(c, x, d) /\ x.doc[d].status = "Cancelled"
      /\ x.task[d] = IF c.task[d] = "Open" THEN "Cancelled" ELSE c.task[d]
  BY LaterSame, CancelHandles
<1>2. x.task[d] = "None"
  BY <1>1 DEF Kept
<1>3. \A r \in Requests : \A e \in x.log[r].voided : e \in Docs
  BY <1>1 DEF Handles, Good, Rows, History
<1>4. \A r \in Requests :
        /\ x.req[r].native = "Created" => x.doc[x.req[r].doc].status # "None"
        /\ \A e \in x.log[r].voided : x.doc[e].status \in {"Draft", "Cancelled"}
  BY <1>1, <1>3 DEF Handles, Kept, Good
<1>5. \A e, f \in Docs :
        Live(x.doc[e]) /\ Live(x.doc[f]) /\ Exclusive(x.doc[e].of) /\ Kind[x.doc[f].of] = Kind[x.doc[e].of]
          => e = f
  <2>1. \A e \in Docs : Live(x.doc[e]) => e # d /\ x.doc[e] = c.doc[e]
    BY <1>1 DEF Handles, Live
  <2> QED BY <2>1 DEF Kept
<1> QED
  BY <1>1, <1>2, <1>4, <1>5 DEF Handles, Kept

LEMMA VoidKept ==
  ASSUME NEW c, Good(c), Kept(c), NEW r \in Requests, NEW x \in Void(c, c, r)
  PROVE  Kept(x) /\ Blocked(c, x)
<1> DEFINE d == c.req[r].doc
           plan == VoidPlan(c.doc[d])
<1>1. c.req[r].native = "Created"
  BY DEF Void
<1>2. d \in Docs /\ c.doc[d].status # "None" /\ c.doc[d].status \in {"Draft", "Submitted", "Cancelled"}
  BY <1>1 DEF Good, Kept, Rows, Document
<1>3. PICK y : /\ y \in IF plan = "cancel" THEN CancelDocument(c, c, d) ELSE {c}
               /\ x = RecordVoid(y, r, plan)
  BY DEF Void
<1>4. plan = "cancel" <=> c.doc[d].status = "Submitted"
  BY <1>2 DEF VoidPlan
<1> HIDE DEF d, plan
<1>5. Good(y) /\ Kept(y) /\ y.req = c.req /\ y.log = c.log /\ y.doc[d].status \in {"Draft", "Cancelled"}
  <2>1. CASE plan = "cancel"
    <3>1. y \in CancelDocument(c, c, d)
      BY <1>3, <2>1
    <3> QED BY <1>2, <3>1, LaterSame, CancelGood, CancelKept, CancelHandles
  <2>2. CASE plan # "cancel"
    BY <1>2, <1>3, <1>4, <2>2
  <2> QED BY <2>1, <2>2
<1>6. /\ x.doc = y.doc /\ x.task = y.task /\ x.req[r].native = "Voided"
      /\ x.log[r].voided = y.log[r].voided \cup {d}
      /\ \A q \in Requests : q # r => x.req[q] = y.req[q] /\ x.log[q] = y.log[q]
  BY <1>3, <1>5, Recorded DEF d
<1>7. Kept(x)
  BY <1>5, <1>6 DEF Kept
<1> QED
  BY <1>1, <1>5, <1>6, <1>7 DEF Blocked

LEMMA IssueKept ==
  ASSUME InTurn, NEW c, Good(c), Kept(c), NEW r \in Requests,
         NEW x \in Approve(c, c, r) \cup Retry(c, c, r) \cup Reissue(c, c, r), Good(x)
  PROVE  Kept(x) /\ Blocked(c, x)
<1>1. c \in Rows
  BY DEF Good
<1>2. /\ Gives(c, c, x, r) /\ x.req[r].native # "None"
      /\ c.req[r].native # "Voided" \/ ~c.log[r].blocked
  <2>1. CASE x \in Approve(c, c, r)
    BY <1>1, <2>1, ApproveGives
  <2>2. CASE x \in Retry(c, c, r)
    BY <1>1, <2>2, RetryGives
  <2>3. CASE x \in Reissue(c, c, r)
    <3>1. c.req[r].native = "Voided"
      BY <2>3 DEF Reissue
    <3>2. c.req[r].approved = TRUE
      BY <1>1, <3>1 DEF Good, Rows, Request
    <3> QED BY <1>1, <2>3, <3>2, ReissueGives
  <2> QED BY <2>1, <2>2, <2>3
<1>3. Kept(x)
  BY <1>2, GivesKept
<1> QED
  BY <1>2, <1>3 DEF Blocked, Gives

LEMMA InitAlone == Init => AloneInv
<1> SUFFICES ASSUME Init PROVE AloneInv
  OBVIOUS
<1>1. /\ \A r \in Requests : db.req[r] = NotApproved /\ db.log[r] = NoHistory
      /\ \A d \in Docs : db.doc[d] = NoDocument /\ db.task[d] = "None"
      /\ \A w \in Workers : txn[w] = NoTxn
  BY DEF Init
<1>2. Kept(db)
  BY <1>1 DEF Kept, NotApproved, NoHistory, NoDocument, Live
<1> QED
  BY <1>1, <1>2, InitGood DEF AloneInv

LEMMA CommitAlone ==
  ASSUME InTurn, AloneInv, NEW w \in Workers,
         \/ FinishApprove(w) \/ FinishRetry(w) \/ FinishVoid(w) \/ FinishReissue(w)
         \/ FinishConfirm(w) \/ FinishReject(w) \/ FinishSubmit(w) \/ FinishCancel(w)
  PROVE  Kept(db') /\ Blocked(db, db')
<1>1. Good(db) /\ Kept(db) /\ Good(db') /\ IInv
  BY FinishGood DEF AloneInv, IInv
<1>2. txn[w] # NoTxn /\ txn[w].v = db /\ txn[w] \in Txn
  BY DEF AloneInv, IInv, NoTxn, FinishApprove, FinishRetry, FinishVoid, FinishReissue,
         FinishConfirm, FinishReject, FinishSubmit, FinishCancel
<1>3. CASE FinishApprove(w) \/ FinishRetry(w) \/ FinishVoid(w) \/ FinishReissue(w)
  <2>1. txn[w].of \in Requests
    BY <1>1, <1>3, CallTypes DEF FinishApprove, FinishRetry, FinishVoid, FinishReissue, RequestOps
  <2>2. CASE FinishVoid(w)
    BY <1>1, <1>2, <2>1, <2>2, VoidKept DEF FinishVoid, Commit
  <2>3. CASE FinishApprove(w) \/ FinishRetry(w) \/ FinishReissue(w)
    BY <1>1, <1>2, <2>1, <2>3, IssueKept DEF FinishApprove, FinishRetry, FinishReissue, Commit
  <2> QED BY <1>3, <2>2, <2>3
<1>4. CASE FinishConfirm(w) \/ FinishReject(w) \/ FinishSubmit(w) \/ FinishCancel(w)
  <2>1. txn[w].of \in Docs
    BY <1>1, <1>4, CallTypes
         DEF FinishConfirm, FinishReject, FinishSubmit, FinishCancel, RequestOps, TaskOps
  <2>2. CASE FinishCancel(w)
    <3>1. db' \in CancelDocument(db, db, txn[w].of)
      BY <1>2, <2>2 DEF FinishCancel, Commit
    <3>2. Handles(db, db', txn[w].of)
      BY <1>1, <2>1, <3>1, LaterSame, CancelHandles
    <3> QED BY <1>1, <2>1, <3>1, <3>2, CancelKept DEF Blocked, Handles
  <2>3. ~FinishConfirm(w) /\ ~FinishReject(w)
    BY <1>1, <2>1 DEF FinishConfirm, FinishReject, Commit, Confirm, Reject, Receivable, Kept
  <2>4. ~FinishSubmit(w)
    BY <1>2 DEF FinishSubmit, InTurn, Txn, RequestOps, TaskOps
  <2> QED BY <1>4, <2>2, <2>3, <2>4
<1> QED
  BY <1>3, <1>4

LEMMA StepAlone == InTurn /\ AloneInv /\ [Next]_vars => AloneInv' /\ Blocked(db, db')
<1> SUFFICES ASSUME InTurn, AloneInv, [Next]_vars PROVE AloneInv' /\ Blocked(db, db')
  OBVIOUS
<1>1. IInv'
  BY StepGood DEF AloneInv
<1>2. txn \in [Workers -> Txn \cup {NoTxn}]
  BY DEF AloneInv, IInv
<1>3. CASE UNCHANGED vars
  BY <1>1, <1>3 DEF AloneInv, vars, Blocked
<1>4. ASSUME NEW w \in Workers, Begin(w) PROVE AloneInv' /\ Blocked(db, db')
  <2>1. db' = db /\ \E t : t.v = db /\ txn' = [txn EXCEPT ![w] = t]
    BY <1>4 DEF Begin
  <2>2. \A u \in Workers : txn'[u] # NoTxn => txn'[u].v = db'
    BY <1>2, <2>1 DEF AloneInv
  <2> QED BY <1>1, <2>1, <2>2 DEF AloneInv, Blocked
<1>5. ASSUME NEW w \in Workers, Abort(w) PROVE AloneInv' /\ Blocked(db, db')
  BY <1>1, <1>2, <1>5 DEF Abort, AloneInv, Blocked
<1>6. ASSUME NEW w \in Workers,
             \/ FinishApprove(w) \/ FinishRetry(w) \/ FinishVoid(w) \/ FinishReissue(w)
             \/ FinishConfirm(w) \/ FinishReject(w) \/ FinishSubmit(w) \/ FinishCancel(w)
      PROVE AloneInv' /\ Blocked(db, db')
  <2>1. txn' = [txn EXCEPT ![w] = NoTxn]
    BY <1>6, FinishGood DEF AloneInv
  <2>2. \A u \in Workers : txn'[u] = NoTxn
    BY <1>2, <2>1 DEF InTurn
  <2> QED BY <1>1, <1>6, <2>2, CommitAlone DEF AloneInv
<1> QED
  BY <1>3, <1>4, <1>5, <1>6 DEF Next

LEMMA AloneTells == AloneInv => VoidIsEffective /\ NotStranded /\ NoDoubleBooking
<1> SUFFICES ASSUME AloneInv PROVE VoidIsEffective /\ NotStranded /\ NoDoubleBooking
  OBVIOUS
<1>1. VoidIsEffective
  BY DEF AloneInv, Kept, VoidIsEffective
<1>2. NotStranded
  BY DEF AloneInv, IInv, Good, Rows, Request, Kept, NotStranded
<1>3. ASSUME NEW r \in Requests, Exclusive(r)
      PROVE  Cardinality({d \in Docs : Live(db.doc[d]) /\ Kind[db.doc[d].of] = Kind[r]}) <= 1
  <2> DEFINE S == {d \in Docs : Live(db.doc[d]) /\ Kind[db.doc[d].of] = Kind[r]}
  <2>1. ASSUME NEW d \in S, NEW e \in S PROVE d = e
    BY <1>3 DEF AloneInv, Kept, Exclusive
  <2>2. S = {} \/ \E d : S = {d}
    BY <2>1
  <2> HIDE DEF S
  <2>3. Cardinality(S) <= 1
    BY <2>2, FS_EmptySet, FS_Singleton
  <2> QED BY <2>3 DEF S
<1> QED
  BY <1>1, <1>2, <1>3 DEF NoDoubleBooking

\* Of requests served one after another, of any kind but a delivery: a voided
\* document is out of force and a blocked void stays, an approved request shows
\* a result, and no two of one employee book the same.
THEOREM ServedInTurnHolds == ASSUME InTurn PROVE Spec => ServedInTurn
<1>1. Init => AloneInv
  BY InitAlone
<1>2. AloneInv /\ [Next]_vars => AloneInv'
  BY StepAlone
<1>3. AloneInv /\ [Next]_vars
        => [VoidIsEffective' /\ NotStranded' /\ NoDoubleBooking' /\ BlockedStaysVoided]_vars
  <2> SUFFICES ASSUME AloneInv, [Next]_vars
               PROVE  VoidIsEffective' /\ NotStranded' /\ NoDoubleBooking' /\ BlockedStaysVoided
    OBVIOUS
  <2>1. AloneInv' /\ BlockedStaysVoided
    BY StepAlone DEF Blocked, BlockedStaysVoided
  <2>2. VoidIsEffective' /\ NotStranded' /\ NoDoubleBooking'
    BY <2>1, AloneTells, PTL
  <2> QED BY <2>1, <2>2
<1> QED
  BY <1>1, <1>2, <1>3, PTL DEF Spec, ServedInTurn
=============================================================================
