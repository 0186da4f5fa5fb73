--------------------------- MODULE HrDocumentProofs ---------------------------
(***************************************************************************)
(* Proofs about HrDocument, for any number of documents, instances, keys   *)
(* and workers: the shape of its rows, and that the documents keep the     *)
(* register of the office when the calls on the kinds that read their row  *)
(* unlocked do not overlap; then that the review decides, a salary change  *)
(* reaches payroll once from one day, a dated one from its own, and a      *)
(* repeated creation makes no second document.                             *)
(*                                                                         *)
(* The argument: every call moves at most one document, from where it      *)
(* stands to a stage the register allows.  A call that decides by a row it *)
(* read unlocked needs that row to be the committed one, which is what the *)
(* inductive invariant adds to the types.                                  *)
(***************************************************************************)
EXTENDS HrDocument, TLAPS

USE HrAssumption

\* Calls that keep the row they read.
KeepsRow(op) == op = "edit" \/ op = "approve" \/ op = "reject" \/ op = "apply"

\* Calls only a salary change order has.
OfSalary(op) == op = "approve" \/ op = "reject" \/ op = "apply"

\* What the calls in progress may rely on.
Current ==
  \A w \in Workers :
    /\ OfSalary(txn[w].op) => kind = "Salary"
    /\ kind \in Serial /\ txn[w] # NoTxn => \A v \in Workers : v # w => txn[v] = NoTxn
    /\ kind \in Serial /\ KeepsRow(txn[w].op) => txn[w].row = db.doc[txn[w].doc]

-----------------------------------------------------------------------------
(* Rows.                                                                   *)

\* A document replaced by a document.
LEMMA RowSet ==
  ASSUME NEW c \in Rows, NEW d \in Docs, NEW row \in Document
  PROVE [c EXCEPT !.doc[d] = row] \in Rows
<1>1. [c.doc EXCEPT ![d] = row] \in [Docs -> Document]
  BY DEF Rows
<1>2. [c EXCEPT !.doc = [c.doc EXCEPT ![d] = row]] \in Rows
  BY <1>1 DEF Rows
<1>3. [c EXCEPT !.doc[d] = row] = [c EXCEPT !.doc = [c.doc EXCEPT ![d] = row]]
  BY DEF Rows
<1> QED BY <1>2, <1>3

\* What a row lookup returns.
LEMMA DocRow == ASSUME NEW c \in Rows, NEW d \in Docs PROVE c.doc[d] \in Document
BY DEF Rows

\* Its choice of workflow.
LEMMA DocWf == ASSUME NEW row \in Document PROVE row.wf \in BOOLEAN
BY Zenon DEF Document

\* A new snapshot carries a choice of workflow.
LEMMA GoverningType ==
  ASSUME NEW k, NEW form \in Template, NEW wf \in Governing(k, form) PROVE wf \in BOOLEAN
BY DEF Governing, Template

-----------------------------------------------------------------------------
(* Moves: what a call may do to the documents as the register sees them.   *)

\* Document d moves from its stage in c to its stage in x, the others stay.
MovesAt(c, x, d) ==
  /\ \A e \in Docs \ {d} : Stage(x.doc[e].status) = Stage(c.doc[e].status)
                           /\ x.doc[e].number = c.doc[e].number
  /\ LET from == Stage(c.doc[d].status)
         to == Stage(x.doc[d].status)
     IN \/ /\ \/ from = to
              \/ (from = "absent" \/ from = "closed") /\ to = "open"
              \/ (from = "open" \/ from = "closed") /\ to = "review"
              \/ (from = "open" \/ from = "review") /\ to = "closed"
           /\ x.doc[d].number = c.doc[d].number
           /\ x.series = c.series
        \/ /\ from = "open" \/ from = "review" \/ from = "closed"
           /\ to = "issued"
           /\ x.doc[d].number = c.series + 1
           /\ x.series = c.series + 1

\* Nothing the register sees.
Still(c, x) ==
  /\ \A e \in Docs : Stage(x.doc[e].status) = Stage(c.doc[e].status)
                     /\ x.doc[e].number = c.doc[e].number
  /\ x.series = c.series

Moves(c, x) == Still(c, x) \/ \E d \in Docs : MovesAt(c, x, d)

\* The stages by name.
LEMMA StageOf ==
  /\ Stage("none") = "absent"
  /\ Stage("draft") = "open"
  /\ Stage("pending") = "review"
  /\ Stage("final") = "issued"
  /\ Stage("rejected") = "closed"
  /\ Stage("cancelled") = "closed"
  /\ Stage("failed") = "closed"
BY DEF Stage

\* Replacing one document by a row whose stage may follow, number kept.
LEMMA Replace ==
  ASSUME NEW c \in Rows, NEW d \in Docs, NEW row \in Document,
         row.number = c.doc[d].number,
         \/ Stage(row.status) = Stage(c.doc[d].status)
         \/ (Stage(c.doc[d].status) = "absent" \/ Stage(c.doc[d].status) = "closed")
            /\ Stage(row.status) = "open"
         \/ (Stage(c.doc[d].status) = "open" \/ Stage(c.doc[d].status) = "closed")
            /\ Stage(row.status) = "review"
         \/ (Stage(c.doc[d].status) = "open" \/ Stage(c.doc[d].status) = "review")
            /\ Stage(row.status) = "closed"
  PROVE MovesAt(c, [c EXCEPT !.doc[d] = row], d)
<1> DEFINE x == [c EXCEPT !.doc[d] = row]
<1>1. x.doc = [c.doc EXCEPT ![d] = row] /\ x.series = c.series
  BY DEF Rows
<1>2. x.doc[d] = row /\ \A e \in Docs \ {d} : x.doc[e] = c.doc[e]
  BY <1>1 DEF Rows
<1> HIDE DEF x
<1>3. MovesAt(c, x, d)
  BY <1>1, <1>2 DEF MovesAt
<1> QED BY <1>3 DEF x

\* The official number: a row of any stage but absent and issued.
LEMMA IssueMoves ==
  ASSUME NEW c \in Rows, NEW d \in Docs, NEW row \in Document
  PROVE /\ Issue(c, d, row) \in Rows
        /\ Issue(c, d, row).doc[d].status = "final"
        /\ Issue(c, d, row).doc[d].number = c.series + 1
        /\ Issue(c, d, row).series = c.series + 1
        /\ \A e \in Docs \ {d} : Issue(c, d, row).doc[e] = c.doc[e]
<1> DEFINE final == [row EXCEPT !.status = "final", !.number = c.series + 1]
<1>1. c.series \in Nat /\ c.doc \in [Docs -> Document]
  BY DEF Rows
<1>s. c.series + 1 \in Nat /\ "final" \in DocStatuses
  BY <1>1 DEF DocStatuses
<1>2. final \in Document /\ final.status = "final" /\ final.number = c.series + 1
  BY <1>s DEF Document
<1> HIDE DEF final
<1>3. [c.doc EXCEPT ![d] = final] \in [Docs -> Document]
  BY <1>1, <1>2
<1>4. Issue(c, d, row) = [c EXCEPT !.doc = [c.doc EXCEPT ![d] = final], !.series = c.series + 1]
  BY DEF Issue, final, Rows
<1>5. Issue(c, d, row) \in Rows
  BY <1>s, <1>3, <1>4 DEF Rows
<1>6. /\ Issue(c, d, row).doc = [c.doc EXCEPT ![d] = final]
      /\ Issue(c, d, row).series = c.series + 1
  BY <1>4 DEF Rows
<1> QED BY <1>1, <1>2, <1>5, <1>6

-----------------------------------------------------------------------------
(* The workflow and its hook.                                              *)

\* What the hook does: nothing, or the end of the review of one document.
Ended(c, x, d) ==
  /\ Stage(c.doc[d].status) = "review"
  /\ \A e \in Docs \ {d} : x.doc[e] = c.doc[e]
  /\ \/ /\ Stage(x.doc[d].status) = "issued"
        /\ x.doc[d].number = c.series + 1
        /\ x.series = c.series + 1
     \/ /\ Stage(x.doc[d].status) = "closed"
        /\ x.doc[d].number = c.doc[d].number
        /\ x.series = c.series

\* An instance with a status has a document.
LEMMA InstanceOf ==
  ASSUME NEW c \in Rows, NEW i \in Instances, c.inst[i].status # "none"
  PROVE c.inst[i].of \in Docs /\ c.inst[i].status \in {"running"} \cup Ends
<1>1. c.inst[i] \in Instance
  BY DEF Rows
<1>2. NoInstance.status = "none"
  BY DEF NoInstance
<1> QED BY <1>1, <1>2 DEF Instance

\* The hook.
LEMMA HookMoves ==
  ASSUME NEW c \in Rows, NEW i \in Instances, c.inst[i].status # "none"
  PROVE /\ OnInstanceUpdate(c, i) \in Rows
        /\ \/ OnInstanceUpdate(c, i) = c
           \/ Ended(c, OnInstanceUpdate(c, i), c.inst[i].of)
<1> DEFINE d == c.inst[i].of
           row == [c.doc[d] EXCEPT !.rev = c.doc[d].rev + 1]
           over == [row EXCEPT !.status = c.inst[i].status]
           x == OnInstanceUpdate(c, i)
<1>1. d \in Docs /\ c.inst[i].status \in {"running"} \cup Ends
  BY InstanceOf
<1>2. c.doc[d] \in Document
  BY <1>1, DocRow
<1>r. c.doc[d].rev + 1 \in Nat
  BY <1>2 DEF Document
<1>3. /\ row \in Document
      /\ row.status = c.doc[d].status
      /\ row.number = c.doc[d].number
  BY <1>2, <1>r DEF Document
<1>4. CASE x = c
  BY <1>4
<1>5. CASE x # c
  <2>1. c.inst[i].status # "running" /\ c.doc[d].status = "pending"
    BY <1>5 DEF OnInstanceUpdate
  <2>2. CASE c.inst[i].status = "completed"
    <3>1. x = Issue(c, d, row)
      BY <1>5, <2>2 DEF OnInstanceUpdate
    <3> HIDE DEF row
    <3>2. /\ x \in Rows
          /\ x.doc[d].status = "final"
          /\ x.doc[d].number = c.series + 1
          /\ x.series = c.series + 1
          /\ \A e \in Docs \ {d} : x.doc[e] = c.doc[e]
      BY <1>1, <1>3, <3>1, IssueMoves
    <3>3. Ended(c, x, d)
      BY <2>1, <3>2, StageOf DEF Ended
    <3> QED BY <3>2, <3>3
  <2>3. CASE c.inst[i].status # "completed"
    <3>1. x = [c EXCEPT !.doc[d] = over]
      BY <1>5, <2>3 DEF OnInstanceUpdate
    <3>2. \/ c.inst[i].status = "rejected"
          \/ c.inst[i].status = "cancelled"
          \/ c.inst[i].status = "failed"
      BY <1>1, <2>1, <2>3 DEF Ends
    <3>a. c.inst[i].status \in DocStatuses
      BY <3>2 DEF DocStatuses
    <3> HIDE DEF row
    <3>3. over \in Document /\ over.number = c.doc[d].number /\ over.status = c.inst[i].status
      BY <1>3, <3>a DEF Document
    <3>4. Stage(over.status) = "closed"
      BY <3>2, <3>3, StageOf
    <3> HIDE DEF over
    <3>5. x \in Rows
      BY <1>1, <3>1, <3>3, RowSet
    <3>6. x.doc = [c.doc EXCEPT ![d] = over] /\ x.series = c.series
      BY <3>1 DEF Rows
    <3>7. x.doc[d] = over /\ \A e \in Docs \ {d} : x.doc[e] = c.doc[e]
      BY <1>1, <3>6 DEF Rows
    <3>8. Ended(c, x, d)
      BY <2>1, <3>3, <3>4, <3>6, <3>7, StageOf DEF Ended
    <3> QED BY <3>5, <3>8
  <2> QED BY <2>2, <2>3
<1> QED BY <1>4, <1>5

\* The end of a review at the register.
LEMMA EndedMoves ==
  ASSUME NEW c \in Rows, NEW x \in Rows, NEW d \in Docs, Ended(c, x, d)
  PROVE MovesAt(c, x, d)
BY DEF Ended, MovesAt

\* The engine ends an instance.
LEMMA EndReviewMoves ==
  ASSUME NEW c \in Rows, NEW i \in Instances, NEW end \in Ends,
         NEW x \in EndReview(c, i, end)
  PROVE x \in Rows /\ Moves(c, x)
<1> DEFINE inst == [c.inst[i] EXCEPT !.status = end]
           y == [c EXCEPT !.inst[i] = inst]
<1>1. c.inst[i].status = "running" /\ x = OnInstanceUpdate(y, i)
  BY DEF EndReview
<1>2. c.inst[i] \in Instance /\ c.inst[i] # NoInstance
  BY <1>1 DEF Rows, NoInstance
<1>3. inst \in Instance /\ inst.status = end
  BY <1>2 DEF Instance
<1> HIDE DEF inst
<1>4. [c.inst EXCEPT ![i] = inst] \in [Instances -> Instance]
  BY <1>3 DEF Rows
<1>5. y = [c EXCEPT !.inst = [c.inst EXCEPT ![i] = inst]]
  BY DEF Rows
<1>6. y \in Rows /\ y.doc = c.doc /\ y.series = c.series
  BY <1>4, <1>5 DEF Rows
<1>7. y.inst[i] = inst
  BY <1>4, <1>5 DEF Rows
<1>8. y.inst[i].status # "none"
  BY <1>3, <1>7 DEF Ends
<1>9. y.inst[i].of \in Docs
  BY <1>6, <1>8, InstanceOf
<1> HIDE DEF y
<1>10. x \in Rows /\ (x = y \/ Ended(y, x, y.inst[i].of))
  BY <1>1, <1>6, <1>8, HookMoves
<1>11. CASE x = y
  BY <1>6, <1>10, <1>11 DEF Moves, Still
<1>12. CASE Ended(y, x, y.inst[i].of)
  <2>1. Ended(c, x, y.inst[i].of)
    BY <1>6, <1>12 DEF Ended
  <2> QED BY <1>9, <1>10, <2>1, EndedMoves DEF Moves
<1> QED BY <1>10, <1>11, <1>12

-----------------------------------------------------------------------------
(* Sending.                                                                *)

\* A document under review in c, and what became of it in x.
Reviewed(c, x, d) ==
  /\ \A e \in Docs \ {d} : x.doc[e] = c.doc[e]
  /\ \/ /\ Stage(x.doc[d].status) = "review" \/ Stage(x.doc[d].status) = "closed"
        /\ x.doc[d].number = c.doc[d].number
        /\ x.series = c.series
     \/ /\ Stage(x.doc[d].status) = "issued"
        /\ x.doc[d].number = c.series + 1
        /\ x.series = c.series + 1

\* The request of a document is an instance of that document.
LEMMA RequestOf ==
  ASSUME NEW c \in Rows, NEW d \in Docs, NEW key \in Keys, NEW r \in Requests(c, d, key)
  PROVE /\ r[1] \in Instances
        /\ r[2] \in Rows
        /\ r[2].doc = c.doc
        /\ r[2].series = c.series
        /\ r[2].inst[r[1]].of = d
        /\ r[2].inst[r[1]].status # "none"
<1>1. CASE \E i \in Instances : c.inst[i].of = d /\ r = <<i, c>>
  <2>1. PICK i \in Instances : c.inst[i].of = d /\ r = <<i, c>>
    BY <1>1
  <2>2. c.inst[i] \in Instance /\ d # 0
    BY DEF Rows, Docs
  <2>3. c.inst[i].status # "none"
    BY <2>1, <2>2 DEF Instance, NoInstance, Ends
  <2> QED BY <2>1, <2>3
<1>2. CASE \E i \in Instances, s \in {"running", "completed"} :
             r = <<i, [c EXCEPT !.inst[i] = [status |-> s, of |-> d, key |-> key]]>>
  <2>1. PICK i \in Instances, s \in {"running", "completed"} :
               r = <<i, [c EXCEPT !.inst[i] = [status |-> s, of |-> d, key |-> key]]>>
    BY <1>2
  <2> DEFINE inst == [status |-> s, of |-> d, key |-> key]
  <2>2. inst \in Instance /\ inst.of = d /\ inst.status # "none"
    BY DEF Instance, Ends
  <2> HIDE DEF inst
  <2>3. [c.inst EXCEPT ![i] = inst] \in [Instances -> Instance]
    BY <2>2 DEF Rows
  <2>4. r[1] = i /\ r[2] = [c EXCEPT !.inst = [c.inst EXCEPT ![i] = inst]]
    BY <2>1 DEF Rows, inst
  <2>5. r[2] \in Rows /\ r[2].doc = c.doc /\ r[2].series = c.series
    BY <2>3, <2>4 DEF Rows
  <2>6. r[2].inst[i] = inst
    BY <2>3, <2>4 DEF Rows
  <2> QED BY <2>2, <2>4, <2>5, <2>6
<1> QED BY <1>1, <1>2 DEF Requests, FreshInst

\* The link to the request changes nothing the register sees.
LEMMA LinkMoves ==
  ASSUME NEW c \in Rows, NEW k, NEW d \in Docs, NEW i \in Instances
  PROVE /\ Link(k, c, d, i) \in Rows
        /\ Link(k, c, d, i).inst = c.inst
        /\ Link(k, c, d, i).series = c.series
        /\ Link(k, c, d, i).doc[d].status = c.doc[d].status
        /\ Link(k, c, d, i).doc[d].number = c.doc[d].number
        /\ \A e \in Docs \ {d} : Link(k, c, d, i).doc[e] = c.doc[e]
<1> DEFINE key == IF k = "Contract" THEN NoKey ELSE c.doc[d].key
           row == [c.doc[d] EXCEPT !.inst = i, !.key = key]
<1>1. c.doc[d] \in Document
  BY DocRow
<1>2. key \in Keys \cup {NoKey}
  BY <1>1 DEF Document
<1>3. i \in 0..MaxInst
  BY DEF Instances
<1> HIDE DEF key
<1>4. row \in Document /\ row.status = c.doc[d].status /\ row.number = c.doc[d].number
  BY <1>1, <1>2, <1>3 DEF Document
<1>5. Link(k, c, d, i) = [c EXCEPT !.doc[d] = row]
  BY DEF Link, key
<1> HIDE DEF row
<1>6. Link(k, c, d, i) \in Rows
  BY <1>4, <1>5, RowSet
<1>7. /\ Link(k, c, d, i).doc = [c.doc EXCEPT ![d] = row]
      /\ Link(k, c, d, i).inst = c.inst
      /\ Link(k, c, d, i).series = c.series
  BY <1>5 DEF Rows
<1>8. /\ Link(k, c, d, i).doc[d] = row
      /\ \A e \in Docs \ {d} : Link(k, c, d, i).doc[e] = c.doc[e]
  BY <1>7 DEF Rows
<1> QED BY <1>4, <1>6, <1>7, <1>8

\* A review, even one that is over at once.
LEMMA ReviewMoves ==
  ASSUME NEW c \in Rows, NEW k, NEW d \in Docs, NEW key \in Keys,
         Stage(c.doc[d].status) = "review", NEW x \in Review(k, c, d, key)
  PROVE x \in Rows /\ Reviewed(c, x, d)
<1>1. PICK r \in Requests(c, d, key) : x = OnInstanceUpdate(Link(k, r[2], d, r[1]), r[1])
  BY DEF Review
<1> DEFINE i == r[1]
           y == r[2]
           z == Link(k, y, d, i)
<1>2. /\ i \in Instances
      /\ y \in Rows
      /\ y.doc = c.doc
      /\ y.series = c.series
      /\ y.inst[i].of = d
      /\ y.inst[i].status # "none"
  BY RequestOf
<1> HIDE DEF i, y
<1>3. /\ z \in Rows
      /\ z.inst = y.inst
      /\ z.series = c.series
      /\ z.doc[d].status = c.doc[d].status
      /\ z.doc[d].number = c.doc[d].number
      /\ \A e \in Docs \ {d} : z.doc[e] = c.doc[e]
  BY <1>2, LinkMoves
<1> HIDE DEF z
<1>4. x = OnInstanceUpdate(z, i)
  BY <1>1 DEF i, y, z
<1>5. z.inst[i].of = d /\ z.inst[i].status # "none"
  BY <1>2, <1>3
<1>6. x \in Rows /\ (x = z \/ Ended(z, x, d))
  BY <1>2, <1>3, <1>4, <1>5, HookMoves
<1>7. CASE x = z
  BY <1>3, <1>6, <1>7 DEF Reviewed
<1>8. CASE Ended(z, x, d)
  BY <1>3, <1>6, <1>8 DEF Reviewed, Ended
<1> QED BY <1>6, <1>7, <1>8

\* submit.
LEMMA SendMoves ==
  ASSUME NEW c \in Rows, NEW k, NEW d \in Docs, NEW key \in Keys, NEW rev,
         NEW x \in Send(k, rev, c, d, key)
  PROVE x \in Rows /\ Moves(c, x)
<1> DEFINE row == [c.doc[d] EXCEPT !.status = "pending", !.sent = key,
                                   !.rev = c.doc[d].rev + 1]
           sent == [c EXCEPT !.doc[d] = row]
<1>1. /\ Sendable(k, c.doc[d].status)
      /\ x \in Review(k, sent, d, key) \/ x = sent \/ x = Issue(sent, d, row)
  BY DEF Send
<1>2. c.doc[d] \in Document /\ c.doc[d].rev + 1 \in Nat /\ "pending" \in DocStatuses
  BY DocRow DEF Document, DocStatuses
<1>3. row \in Document /\ row.status = "pending" /\ row.number = c.doc[d].number
  BY <1>2 DEF Document
<1>4. Stage(c.doc[d].status) = "open" \/ Stage(c.doc[d].status) = "closed"
  BY <1>1, StageOf DEF Sendable
<1> HIDE DEF row
<1>5. sent \in Rows /\ sent.doc = [c.doc EXCEPT ![d] = row] /\ sent.series = c.series
  BY <1>3, RowSet DEF Rows
<1>6. sent.doc[d] = row /\ \A e \in Docs \ {d} : sent.doc[e] = c.doc[e]
  BY <1>5 DEF Rows
<1>7. Stage(sent.doc[d].status) = "review"
  BY <1>3, <1>6, StageOf
<1> HIDE DEF sent
<1>8. x \in Rows /\ Reviewed(sent, x, d)
  <2>1. CASE x \in Review(k, sent, d, key)
    BY <1>5, <1>7, <2>1, ReviewMoves
  <2>2. CASE x = sent
    BY <1>5, <1>7, <2>2 DEF Reviewed
  <2>3. CASE x = Issue(sent, d, row)
    <3>1. sent \in Rows /\ row \in Document
      BY <1>3, <1>5
    <3>2. /\ Issue(sent, d, row) \in Rows
          /\ Issue(sent, d, row).doc[d].status = "final"
          /\ Issue(sent, d, row).doc[d].number = sent.series + 1
          /\ Issue(sent, d, row).series = sent.series + 1
          /\ \A e \in Docs \ {d} : Issue(sent, d, row).doc[e] = sent.doc[e]
      BY ONLY <3>1, IssueMoves, d \in Docs
    <3> QED BY <2>3, <3>2, StageOf DEF Reviewed
  <2> QED BY <1>1, <2>1, <2>2, <2>3 DEF sent
<1>9. MovesAt(c, x, d)
  BY <1>3, <1>4, <1>5, <1>6, <1>8 DEF Reviewed, MovesAt
<1> QED BY <1>8, <1>9 DEF Moves

-----------------------------------------------------------------------------
(* The other calls.                                                        *)

\* The template is not part of the register.
LEMMA TemplateMoves ==
  ASSUME NEW c \in Rows, NEW form \in Template, NEW wf \in BOOLEAN,
         NEW x \in SaveTemplate(form, c, wf) \cup PublishTemplate(form, c)
  PROVE x \in Rows /\ Moves(c, x)
<1>1. PICK t \in Template : x = [c EXCEPT !.form = t]
  <2>1. CASE x \in SaveTemplate(form, c, wf)
    <3>1. [form EXCEPT !.draft = wf] \in Template
      BY DEF Template
    <3> QED BY <2>1, <3>1 DEF SaveTemplate
  <2>2. CASE x \in PublishTemplate(form, c)
    <3>1. form.active \in 0..MaxVersion /\ form.active # MaxVersion
      BY <2>2 DEF PublishTemplate, Template
    <3>2. form.active + 1 \in 0..MaxVersion
      BY <3>1
    <3>3. [form EXCEPT !.active = form.active + 1, !.wf = form.draft] \in Template
      BY <3>2 DEF Template
    <3> QED BY <2>2, <3>3 DEF PublishTemplate
  <2> QED BY <2>1, <2>2
<1>2. x \in Rows /\ x.doc = c.doc /\ x.series = c.series
  BY <1>1 DEF Rows
<1> QED BY <1>2 DEF Moves, Still

\* A document that does not exist has no number.
Blank(c) == \A d \in Docs : Stage(c.doc[d].status) = "absent" => c.doc[d].number = 0

\* And none appears that way.
LEMMA BlankKept == ASSUME NEW c, NEW x, Blank(c), Moves(c, x) PROVE Blank(x)
BY DEF Blank, Moves, MovesAt, Still

\* A new draft.
LEMMA CreateMoves ==
  ASSUME NEW c \in Rows, NEW k, NEW keys, NEW form \in Template, NEW key \in Keys,
         NEW x \in Create(k, keys, form, c, key), Blank(c)
  PROVE x \in Rows /\ Moves(c, x)
<1>1. PICK d \in Docs, wf \in Governing(k, form), date \in Dates(k) :
        c.doc[d].status = "none" /\ x = [c EXCEPT !.doc[d] = NewDraft(key, wf, date)]
  BY DEF Create, FreshDoc
<1>2. wf \in BOOLEAN /\ date \in {Undated} \cup Days
  BY GoverningType DEF Dates
<1> DEFINE row == NewDraft(key, wf, date)
<1>3. "draft" \in DocStatuses /\ 0 \in 0..MaxInst
  BY DEF DocStatuses
<1>4. row \in Document /\ row.status = "draft" /\ row.number = 0
  BY <1>2, <1>3 DEF NewDraft, NoDocument, Document
<1> HIDE DEF row
<1>5. x = [c EXCEPT !.doc[d] = row]
  BY <1>1 DEF row
<1>6. MovesAt(c, x, d)
  BY <1>1, <1>4, <1>5, Replace, StageOf DEF Blank
<1> QED BY <1>4, <1>5, <1>6, RowSet DEF Moves

\* A row the register keeps open, after an edit.
LEMMA EditMoves ==
  ASSUME NEW c \in Rows, NEW k, NEW row \in Document, NEW form \in Template, NEW d \in Docs,
         NEW x \in Edit(k, row, form, c, d), k \in Unlocked => row = c.doc[d]
  PROVE x \in Rows /\ Moves(c, x)
<1> DEFINE old == c.doc[d]
<1>1. PICK new \in Document :
        /\ x = [c EXCEPT !.doc[d] = new]
        /\ new.number = old.number
        /\ Stage(new.status) = "open"
        /\ Stage(old.status) = "open" \/ Stage(old.status) = "closed"
  <2>1. CASE k \in Unlocked
    <3>1. PICK wf \in BOOLEAN, date \in {Undated} \cup Days :
            /\ row.status = "draft"
            /\ x = [c EXCEPT !.doc[d] = Redrafted(row, wf, date)]
      <4>1. row.wf \in BOOLEAN
        BY DocWf
      <4>c. k # "Contract"
        BY <2>1 DEF Unlocked
      <4>2. x \in EditUnlocked(k, row, form, c, d)
        BY <2>1, <4>c DEF Edit
      <4>3. PICK wf \in (IF k = "Hiring" THEN {row.wf} ELSE Governing(k, form)), date \in Dates(k) :
              row.status = "draft" /\ x = [c EXCEPT !.doc[d] = Redrafted(row, wf, date)]
        BY <4>2 DEF EditUnlocked
      <4>d. date \in {Undated} \cup Days
        BY DEF Dates
      <4>4. wf \in BOOLEAN
        BY <4>1, GoverningType, Zenon
      <4> QED BY <4>d, <4>3, <4>4
    <3>2. row.rev + 1 \in Nat
      BY DEF Document
    <3>3. Redrafted(row, wf, date) \in Document
      BY <3>2 DEF Document, Redrafted
    <3> QED BY <2>1, <3>1, <3>3, StageOf DEF Document, Redrafted
  <2>2. CASE k \notin Unlocked /\ k = "Contract"
    <3>1. PICK wf \in BOOLEAN :
            /\ row = old
            /\ row.status # "none" /\ row.status # "pending" /\ row.status # "final"
            /\ x = [c EXCEPT !.doc[d] = [row EXCEPT !.status = "draft", !.rev = row.rev + 1,
                                                  !.sent = NoKey, !.inst = 0, !.wf = wf]]
      BY <2>2, GoverningType DEF Edit, EditContract
    <3>2. row.rev + 1 \in Nat /\ "draft" \in DocStatuses /\ 0 \in 0..MaxInst
      BY DEF Document, DocStatuses
    <3>3. [row EXCEPT !.status = "draft", !.rev = row.rev + 1,
                      !.sent = NoKey, !.inst = 0, !.wf = wf] \in Document
      BY <3>2 DEF Document
    <3>4. row.status = "draft" \/ row.status = "rejected" \/ row.status = "cancelled"
          \/ row.status = "failed"
      BY <3>1 DEF Document, DocStatuses
    <3>5. Stage(old.status) = "open" \/ Stage(old.status) = "closed"
      BY <3>1, <3>4, StageOf
    <3> QED BY <3>1, <3>3, <3>5, StageOf DEF Document
  <2>3. CASE k \notin Unlocked /\ k # "Contract"
    <3>1. PICK wf \in BOOLEAN : /\ old.status = "draft"
                                /\ x = [c EXCEPT !.doc[d] = [old EXCEPT !.rev = old.rev + 1, !.wf = wf]]
      BY <2>3, GoverningType DEF Edit, EditLocked
    <3>2. old \in Document /\ old.rev + 1 \in Nat
      BY DocRow DEF Document
    <3>3. [old EXCEPT !.rev = old.rev + 1, !.wf = wf] \in Document
      BY <3>2 DEF Document
    <3> QED BY <3>1, <3>2, <3>3, StageOf DEF Document
  <2> QED BY <2>1, <2>2, <2>3
<1>2. MovesAt(c, x, d)
  BY <1>1, Replace
<1> QED BY <1>1, <1>2, RowSet DEF Moves

\* An approval by hand.
LEMMA ApproveMoves ==
  ASSUME NEW c \in Rows, NEW d \in Docs, NEW x \in Approve(c.doc[d], c, d)
  PROVE x \in Rows /\ Moves(c, x)
<1> DEFINE row == [c.doc[d] EXCEPT !.rev = c.doc[d].rev + 1]
<1>1. c.doc[d].status = "pending" /\ x = Issue(c, d, row)
  BY DEF Approve
<1>2. c.doc[d] \in Document /\ c.doc[d].rev + 1 \in Nat
  BY DocRow DEF Document
<1>3. row \in Document
  BY <1>2 DEF Document
<1> HIDE DEF row
<1>4. /\ Issue(c, d, row) \in Rows
      /\ Issue(c, d, row).doc[d].status = "final"
      /\ Issue(c, d, row).doc[d].number = c.series + 1
      /\ Issue(c, d, row).series = c.series + 1
      /\ \A e \in Docs \ {d} : Issue(c, d, row).doc[e] = c.doc[e]
  BY <1>3, IssueMoves
<1>5. MovesAt(c, Issue(c, d, row), d)
  BY <1>1, <1>4, StageOf DEF MovesAt
<1> QED BY <1>1, <1>4, <1>5 DEF Moves

\* A rejection by hand.
LEMMA RejectMoves ==
  ASSUME NEW c \in Rows, NEW d \in Docs, NEW x \in Reject(c.doc[d], c, d)
  PROVE x \in Rows /\ Moves(c, x)
<1> DEFINE row == [c.doc[d] EXCEPT !.status = "rejected", !.rev = c.doc[d].rev + 1]
<1>1. /\ c.doc[d].status = "draft" \/ c.doc[d].status = "pending"
      /\ x = [c EXCEPT !.doc[d] = row]
  BY DEF Reject
<1>2. /\ c.doc[d] \in Document
      /\ c.doc[d].rev + 1 \in Nat
      /\ "rejected" \in DocStatuses
  BY DocRow DEF Document, DocStatuses
<1>3. row \in Document /\ row.status = "rejected" /\ row.number = c.doc[d].number
  BY <1>2 DEF Document
<1> HIDE DEF row
<1>4. MovesAt(c, x, d)
  BY <1>1, <1>3, Replace, StageOf
<1> QED BY <1>1, <1>3, <1>4, RowSet DEF Moves

\* The row of an order that was carried to payroll.
AppliedRow(row, key) == [row EXCEPT !.applied = key, !.rev = row.rev + 1]

\* Only the order and the assignments change.
CarriedTo(c, x, d, key, made) ==
  x = [c EXCEPT !.doc = [c.doc EXCEPT ![d] = AppliedRow(c.doc[d], key)], !.assigned = made]

\* One assignment more.
OneMore(c, d, e, made) ==
  made = [c.assigned EXCEPT ![d] = [c.assigned[d] EXCEPT ![e] = c.assigned[d][e] + 1]]

Makes(c, d, taken, day, made) ==
  \/ made = c.assigned
  \/ \E e \in Days \ taken : e = Effective(c.doc[d], day) /\ OneMore(c, d, e, made)

\* The order is marked, and perhaps an assignment made from a day of which the
\* snapshot shows none.
LEMMA CarriedRows ==
  ASSUME NEW c \in Rows, NEW d \in Docs, NEW taken, NEW key \in Keys, NEW day \in Days,
         NEW x \in Apply(c.doc[d], taken, c, d, key, day)
  PROVE  /\ c.doc[d].status = "final"
         /\ \E made \in [Docs -> [Days -> Nat]] :
              CarriedTo(c, x, d, key, made) /\ Makes(c, d, taken, day, made)
<1> DEFINE y == Marked(c.doc[d], c, d, key)
<1>1. /\ c.doc[d].status = "final"
      /\ x = y \/ \E e \in {Effective(c.doc[d], day)} \ taken : x = Assigned(y, d, e)
  BY DEF Apply, Carried
<1>2. c.assigned \in [Docs -> [Days -> Nat]] /\ c.doc \in [Docs -> Document]
  BY DEF Rows
<1>3. y = [c EXCEPT !.doc = [c.doc EXCEPT ![d] = AppliedRow(c.doc[d], key)]]
  BY DEF Marked, AppliedRow, Rows
<1> HIDE DEF y
<1>4. CarriedTo(c, y, d, key, c.assigned) /\ y.assigned = c.assigned
  BY <1>3 DEF Rows, CarriedTo
<1>5. CASE x = y
  BY <1>1, <1>2, <1>4, <1>5 DEF Makes
<1>6. ASSUME NEW e \in {Effective(c.doc[d], day)} \ taken, x = Assigned(y, d, e)
      PROVE  \E made \in [Docs -> [Days -> Nat]] :
               CarriedTo(c, x, d, key, made) /\ Makes(c, d, taken, day, made)
  <2> DEFINE made == [c.assigned EXCEPT ![d] =
                        [c.assigned[d] EXCEPT ![e] = c.assigned[d][e] + 1]]
  <2>0. c.doc[d] \in Document
    BY <1>2
  <2>1. e \in Days
    <3>1. c.doc[d].date \in {Undated} \cup Days
      BY <2>0 DEF Document
    <3> QED BY <3>1 DEF Effective
  <2>2. [c.assigned[d] EXCEPT ![e] = c.assigned[d][e] + 1] \in [Days -> Nat]
    BY <1>2, <2>1
  <2>3. made \in [Docs -> [Days -> Nat]]
    BY <1>2, <2>2
  <2>4. x = [y EXCEPT !.assigned = made]
    BY <1>3, <1>4, <1>6 DEF Assigned, Rows
  <2>5. OneMore(c, d, e, made)
    BY DEF OneMore
  <2> HIDE DEF made
  <2>6. CarriedTo(c, x, d, key, made)
    BY <1>3, <2>4 DEF Rows, CarriedTo
  <2>7. Makes(c, d, taken, day, made)
    BY <2>1, <2>5 DEF Makes
  <2> QED BY <2>3, <2>6, <2>7
<1> QED BY <1>1, <1>5, <1>6

\* Payroll.
LEMMA ApplyMoves ==
  ASSUME NEW c \in Rows, NEW d \in Docs, NEW taken, NEW key \in Keys, NEW day \in Days,
         NEW x \in Apply(c.doc[d], taken, c, d, key, day)
  PROVE x \in Rows /\ Moves(c, x)
<1> DEFINE row == AppliedRow(c.doc[d], key)
           y == [c EXCEPT !.doc[d] = row]
<1>1. PICK made \in [Docs -> [Days -> Nat]] : CarriedTo(c, x, d, key, made)
  BY CarriedRows
<1>2. c.doc[d] \in Document /\ c.doc[d].rev + 1 \in Nat
  BY DocRow DEF Document
<1>3. /\ row \in Document
      /\ row.status = c.doc[d].status
      /\ row.number = c.doc[d].number
  BY <1>2 DEF Document, AppliedRow
<1>5. x = [c EXCEPT !.doc = [c.doc EXCEPT ![d] = row], !.assigned = made]
  BY <1>1 DEF CarriedTo
<1> HIDE DEF row
<1>6. y \in Rows /\ y.doc = [c.doc EXCEPT ![d] = row]
  BY <1>3, RowSet DEF Rows
<1>7. x = [y EXCEPT !.assigned = made]
  BY <1>5, <1>6 DEF Rows
<1>8. x \in Rows /\ x.doc = y.doc /\ x.series = y.series
  BY <1>6, <1>7 DEF Rows
<1>9. MovesAt(c, y, d)
  BY <1>3, Replace
<1>10. MovesAt(c, x, d)
  BY <1>8, <1>9 DEF MovesAt
<1> QED BY <1>8, <1>10 DEF Moves

-----------------------------------------------------------------------------
(* Calls.                                                                  *)

\* The inductive invariant.  TypeOK alone does not say that the row a call
\* has read is the committed one.
IInv ==
  /\ TypeOK
  /\ kind \in Kinds
  /\ Current
  /\ Blank(db)

\* A call starts with the rows its caller sees.
LEMMA CallsType ==
  ASSUME db \in Rows,
         NEW call \in Calls \cup {t \in SalaryCalls : kind = "Salary"}
  PROVE /\ call \in Txn
        /\ call # NoTxn
        /\ OfSalary(call.op) => kind = "Salary"
        /\ KeepsRow(call.op) => call.row = db.doc[call.doc]
<1>1. /\ db.form \in Template
      /\ \A d \in Docs : db.doc[d] \in Document /\ db.doc[d].rev \in Nat
  BY DocRow DEF Rows, Document
<1>2. UsedKeys(db) \in SUBSET Keys
  BY <1>1 DEF UsedKeys, Document
<1>3. CASE call \in [op : {"save_template"}, wf : BOOLEAN, form : {db.form}]
  <2>1. call.op = "save_template" /\ call \in [op : {"save_template"}, wf : BOOLEAN, form : Template]
    BY <1>1, <1>3
  <2> QED BY <2>1 DEF Txn, NoTxn, OfSalary, KeepsRow
<1>4. CASE call \in [op : {"publish"}, form : {db.form}]
  <2>1. call.op = "publish" /\ call \in [op : {"publish"}, form : Template]
    BY <1>1, <1>4
  <2> QED BY <2>1 DEF Txn, NoTxn, OfSalary, KeepsRow
<1>5. CASE call \in [op : {"create"}, key : Keys, keys : {UsedKeys(db)}, form : {db.form}]
  <2>1. call.op = "create" /\ call \in [op : {"create"}, key : Keys, keys : SUBSET Keys, form : Template]
    BY <1>1, <1>2, <1>5
  <2> QED BY <2>1 DEF Txn, NoTxn, OfSalary, KeepsRow
<1>6. CASE \E d \in Docs : call \in [op : {"edit"}, doc : {d}, row : {db.doc[d]}, form : {db.form}]
  <2>1. PICK d \in Docs : call \in [op : {"edit"}, doc : {d}, row : {db.doc[d]}, form : {db.form}]
    BY <1>6
  <2>2. /\ call.op = "edit" /\ call.doc = d /\ call.row = db.doc[d]
        /\ call \in [op : {"edit"}, doc : Docs, row : Document, form : Template]
    BY <1>1, <2>1
  <2> QED BY <2>2 DEF Txn, NoTxn, OfSalary, KeepsRow
<1>7. CASE \E d \in Docs : call \in [op : {"send"}, doc : {d}, key : Keys, rev : {db.doc[d].rev}]
  <2>1. call.op = "send" /\ call \in [op : {"send"}, doc : Docs, key : Keys, rev : Nat]
    BY <1>1, <1>7
  <2> QED BY <2>1 DEF Txn, NoTxn, OfSalary, KeepsRow
<1>8. CASE \E d \in Docs : call \in [op : {"approve", "reject"}, doc : {d}, row : {db.doc[d]}]
                        /\ kind = "Salary"
  <2>1. PICK d \in Docs : call \in [op : {"approve", "reject"}, doc : {d}, row : {db.doc[d]}]
    BY <1>8
  <2>2. /\ call.op = "approve" \/ call.op = "reject"
        /\ call.doc = d /\ call.row = db.doc[d]
        /\ call \in [op : {"approve", "reject"}, doc : Docs, row : Document]
    BY <1>1, <2>1
  <2> QED BY <1>8, <2>2 DEF Txn, NoTxn, OfSalary, KeepsRow
<1>9. CASE \E d \in Docs : call \in [op : {"apply"}, doc : {d}, key : Keys, row : {db.doc[d]},
                                    taken : {Taken(db, d)}]
                        /\ kind = "Salary"
  <2>1. PICK d \in Docs : call \in [op : {"apply"}, doc : {d}, key : Keys, row : {db.doc[d]},
                                    taken : {Taken(db, d)}]
    BY <1>9
  <2>t. Taken(db, d) \in SUBSET Days
    BY DEF Taken
  <2>2. /\ call.op = "apply" /\ call.doc = d /\ call.row = db.doc[d]
        /\ call \in [op : {"apply"}, doc : Docs, key : Keys, row : Document,
                     taken : SUBSET Days]
    BY <1>1, <2>t, <2>1
  <2> QED BY <1>9, <2>2 DEF Txn, NoTxn, OfSalary, KeepsRow
<1> QED
  BY <1>3, <1>4, <1>5, <1>6, <1>7, <1>8, <1>9 DEF Calls, SalaryCalls

\* The transaction a worker is in, by its operation.
LEMMA TxnOf ==
  ASSUME NEW t \in Txn
  PROVE /\ t.op = "save_template" => t.wf \in BOOLEAN /\ t.form \in Template
        /\ t.op = "publish" => t.form \in Template
        /\ t.op = "create" => t.key \in Keys /\ t.form \in Template
        /\ t.op = "edit" => t.doc \in Docs /\ t.row \in Document /\ t.form \in Template
        /\ t.op = "send" => t.doc \in Docs /\ t.key \in Keys
        /\ t.op = "approve" \/ t.op = "reject" => t.doc \in Docs /\ t.row \in Document
        /\ t.op = "apply" => t.doc \in Docs /\ t.key \in Keys /\ t.row \in Document
BY Zenon DEF Txn

\* Every call that ends: the rows, the register, and that the row of a call on
\* a kind in Unlocked was the committed one.
LEMMA FinishMoves ==
  ASSUME IInv, Kinds \cap Unlocked \subseteq Serial, NEW w \in Workers,
         \/ FinishSaveTemplate(w) \/ FinishPublish(w) \/ FinishCreate(w)
         \/ FinishEdit(w) \/ FinishSend(w) \/ FinishApprove(w)
         \/ FinishReject(w) \/ FinishApply(w)
  PROVE db' \in Rows /\ Moves(db, db')
<1> DEFINE t == txn[w]
<1>1. /\ db \in Rows /\ kind \in Kinds /\ Blank(db) /\ (t \in Txn \/ t = NoTxn)
      /\ today \in Days
  BY DEF IInv, TypeOK
<1>2. kind \in Serial /\ KeepsRow(t.op) => t.row = db.doc[t.doc]
  BY DEF IInv, Current
<1>3. OfSalary(t.op) => kind = "Salary"
  BY DEF IInv, Current
<1>4. t.op # "none" => t \in Txn
  BY <1>1 DEF NoTxn
<1>5. "Salary" \in Unlocked
  BY DEF Unlocked
<1>6. CASE FinishSaveTemplate(w)
  <2>1. t.op = "save_template" /\ db' \in SaveTemplate(t.form, db, t.wf)
    BY <1>6 DEF FinishSaveTemplate, Commit
  <2> QED BY <1>1, <1>4, <2>1, TxnOf, TemplateMoves
<1>7. CASE FinishPublish(w)
  <2>1. t.op = "publish" /\ db' \in PublishTemplate(t.form, db)
    BY <1>7 DEF FinishPublish, Commit
  <2> QED BY <1>1, <1>4, <2>1, TxnOf, TemplateMoves
<1>8. CASE FinishCreate(w)
  <2>1. t.op = "create" /\ db' \in Create(kind, t.keys, t.form, db, t.key)
    BY <1>8 DEF FinishCreate, Commit
  <2> QED BY <1>1, <1>4, <2>1, TxnOf, CreateMoves
<1>9. CASE FinishEdit(w)
  <2>1. t.op = "edit" /\ db' \in Edit(kind, t.row, t.form, db, t.doc)
    BY <1>9 DEF FinishEdit, Commit
  <2>2. t.doc \in Docs /\ t.row \in Document /\ t.form \in Template
    BY <1>4, <2>1, TxnOf
  <2>3. kind \in Unlocked => t.row = db.doc[t.doc]
    BY <1>1, <1>2, <2>1 DEF KeepsRow
  <2> HIDE DEF t
  <2> QED BY <1>1, <2>1, <2>2, <2>3, EditMoves
<1>10. CASE FinishSend(w)
  <2>1. t.op = "send" /\ db' \in Send(kind, t.rev, db, t.doc, t.key)
    BY <1>10 DEF FinishSend, Commit
  <2> QED BY <1>1, <1>4, <2>1, TxnOf, SendMoves
<1>11. CASE FinishApprove(w)
  <2>1. t.op = "approve" /\ db' \in Approve(t.row, db, t.doc)
    BY <1>11 DEF FinishApprove, Commit
  <2>2. t.doc \in Docs /\ t.row = db.doc[t.doc]
    BY <1>1, <1>2, <1>3, <1>4, <1>5, <2>1, TxnOf DEF KeepsRow, OfSalary
  <2> QED BY <1>1, <2>1, <2>2, ApproveMoves
<1>12. CASE FinishReject(w)
  <2>1. t.op = "reject" /\ db' \in Reject(t.row, db, t.doc)
    BY <1>12 DEF FinishReject, Commit
  <2>2. t.doc \in Docs /\ t.row = db.doc[t.doc]
    BY <1>1, <1>2, <1>3, <1>4, <1>5, <2>1, TxnOf DEF KeepsRow, OfSalary
  <2> QED BY <1>1, <2>1, <2>2, RejectMoves
<1>13. CASE FinishApply(w)
  <2>1. t.op = "apply" /\ db' \in Apply(t.row, t.taken, db, t.doc, t.key, today)
    BY <1>13 DEF FinishApply, Commit
  <2>2. t.doc \in Docs /\ t.key \in Keys /\ t.row = db.doc[t.doc]
    BY <1>1, <1>2, <1>3, <1>4, <1>5, <2>1, TxnOf DEF KeepsRow, OfSalary
  <2> QED BY <1>1, <2>1, <2>2, ApplyMoves
<1> QED BY <1>6, <1>7, <1>8, <1>9, <1>10, <1>11, <1>12, <1>13

\* What a finished call leaves of the transactions.
LEMMA FinishEnds ==
  ASSUME NEW w \in Workers,
         \/ FinishSaveTemplate(w) \/ FinishPublish(w) \/ FinishCreate(w)
         \/ FinishEdit(w) \/ FinishSend(w) \/ FinishApprove(w)
         \/ FinishReject(w) \/ FinishApply(w)
  PROVE /\ txn[w] # NoTxn /\ txn' = [txn EXCEPT ![w] = NoTxn]
        /\ kind' = kind /\ today' = today
BY DEF FinishSaveTemplate, FinishPublish, FinishCreate, FinishEdit, FinishSend,
       FinishApprove, FinishReject, FinishApply, Commit, NoTxn

-----------------------------------------------------------------------------
(* The invariant.                                                          *)

LEMMA InitIInv == ASSUME Init PROVE IInv
<1> DEFINE rows == [doc |-> [d \in Docs |-> NoDocument],
                    inst |-> [i \in Instances |-> NoInstance],
                    form |-> [active |-> 0, wf |-> FALSE, draft |-> FALSE],
                    assigned |-> [d \in Docs |-> [day \in Days |-> 0]], series |-> 0]
<1>1. NoDocument \in Document
  <2>1. "none" \in DocStatuses /\ 0 \in 0..MaxInst
    BY DEF DocStatuses
  <2> QED BY <2>1 DEF NoDocument, Document
<1>2. NoInstance \in Instance
  BY DEF Instance
<1>3. [active |-> 0, wf |-> FALSE, draft |-> FALSE] \in Template
  BY DEF Template
<1>4. rows \in Rows
  BY <1>1, <1>2, <1>3 DEF Rows
<1>5. /\ db = rows /\ kind \in Kinds /\ txn = [w \in Workers |-> NoTxn]
      /\ today \in Days
  BY HrAssumption DEF Init, Days
<1>6. \A d \in Docs : db.doc[d] = NoDocument
  BY <1>5
<1> HIDE DEF rows
<1>7. TypeOK
  BY <1>4, <1>5 DEF TypeOK
<1>8. Current
  BY <1>5 DEF Current, OfSalary, KeepsRow, NoTxn
<1>9. Blank(db)
  BY <1>6 DEF Blank, NoDocument
<1> QED BY <1>5, <1>7, <1>8, <1>9 DEF IInv

\* A step keeps the invariant and moves the register.
LEMMA NextIInv ==
  ASSUME IInv, [Next]_vars, Kinds \cap Unlocked \subseteq Serial
  PROVE IInv' /\ Moves(db, db')
<1>1. /\ db \in Rows /\ kind \in Kinds /\ kind \in AllKinds /\ Blank(db) /\ Current
      /\ txn \in [Workers -> Txn \cup {NoTxn}] /\ today \in Days
  BY DEF IInv, TypeOK
<1>2. Moves(db, db)
  BY DEF Moves, Still
<1>3. NoTxn.op = "none" /\ ~OfSalary("none") /\ ~KeepsRow("none")
  BY DEF NoTxn, OfSalary, KeepsRow
<1>4. CASE UNCHANGED vars
  BY <1>2, <1>4 DEF vars, IInv, TypeOK, Current
<1>5. CASE ReviewEnds
  <2>1. /\ kind' = kind /\ txn' = txn /\ today' = today
        /\ kind \in Serial => \A w \in Workers : txn[w] = NoTxn
        /\ \E i \in Instances, end \in Ends : db' \in EndReview(db, i, end)
    BY <1>5 DEF ReviewEnds, InTurn
  <2>2. db' \in Rows /\ Moves(db, db')
    BY <1>1, <2>1, EndReviewMoves
  <2>3. Blank(db')
    BY <1>1, <2>2, BlankKept
  <2>4. Current'
    BY <1>1, <1>3, <2>1 DEF Current
  <2> QED BY <1>1, <2>1, <2>2, <2>3, <2>4 DEF IInv, TypeOK
<1>d. CASE NextDay
  <2>1. kind' = kind /\ txn' = txn /\ db' = db /\ today' \in Days
    BY <1>1, <1>d, HrAssumption DEF NextDay, Days
  <2>2. Current'
    BY <1>1, <2>1 DEF Current
  <2> QED BY <1>1, <1>2, <2>1, <2>2 DEF IInv, TypeOK
<1>6. ASSUME NEW w \in Workers, Begin(w) PROVE IInv' /\ Moves(db, db')
  <2>1. PICK call \in Calls \cup {t \in SalaryCalls : kind = "Salary"} :
          txn' = [txn EXCEPT ![w] = call]
    BY <1>6 DEF Begin
  <2>2. /\ kind' = kind /\ db' = db /\ today' = today
        /\ kind \in Serial => \A v \in Workers : txn[v] = NoTxn
    BY <1>6 DEF Begin, InTurn
  <2>3. /\ call \in Txn
        /\ OfSalary(call.op) => kind = "Salary"
        /\ KeepsRow(call.op) => call.row = db.doc[call.doc]
    BY <1>1, CallsType
  <2>4. txn' \in [Workers -> Txn \cup {NoTxn}]
    BY <1>1, <2>1, <2>3
  <2>5. txn'[w] = call /\ \A v \in Workers \ {w} : txn'[v] = txn[v]
    BY <1>1, <2>1
  <2>6. Current'
    <3> SUFFICES ASSUME NEW u \in Workers
                 PROVE /\ OfSalary(txn'[u].op) => kind = "Salary"
                       /\ kind \in Serial /\ txn'[u] # NoTxn
                            => \A v \in Workers : v # u => txn'[v] = NoTxn
                       /\ kind \in Serial /\ KeepsRow(txn'[u].op)
                            => txn'[u].row = db.doc[txn'[u].doc]
      BY <2>2 DEF Current
    <3>1. CASE u = w
      BY <2>2, <2>3, <2>5, <3>1
    <3>2. CASE u # w
      BY <1>1, <1>3, <2>2, <2>5, <3>2 DEF Current
    <3> QED BY <3>1, <3>2
  <2> QED BY <1>1, <1>2, <2>2, <2>4, <2>6 DEF IInv, TypeOK
<1>7. ASSUME NEW w \in Workers, txn[w] # NoTxn, txn' = [txn EXCEPT ![w] = NoTxn],
             kind' = kind, today' = today, db' \in Rows, Moves(db, db')
      PROVE IInv' /\ Moves(db, db')
  <2>1. txn' \in [Workers -> Txn \cup {NoTxn}]
    BY <1>1, <1>7
  <2>2. txn'[w] = NoTxn /\ \A v \in Workers \ {w} : txn'[v] = txn[v]
    BY <1>1, <1>7
  <2>3. kind \in Serial => \A v \in Workers : txn'[v] = NoTxn
    BY <1>1, <1>7, <2>2 DEF Current
  <2>4. \A v \in Workers : OfSalary(txn'[v].op) => kind = "Salary"
    BY <1>1, <1>3, <2>2 DEF Current
  <2>5. Current'
    BY <1>3, <1>7, <2>3, <2>4 DEF Current
  <2>6. Blank(db')
    BY <1>1, <1>7, BlankKept
  <2> QED BY <1>1, <1>7, <2>1, <2>5, <2>6 DEF IInv, TypeOK
<1>8. ASSUME NEW w \in Workers, Abort(w) PROVE IInv' /\ Moves(db, db')
  BY <1>1, <1>2, <1>7, <1>8 DEF Abort
<1>9. ASSUME NEW w \in Workers,
             \/ FinishSaveTemplate(w) \/ FinishPublish(w) \/ FinishCreate(w)
             \/ FinishEdit(w) \/ FinishSend(w) \/ FinishApprove(w)
             \/ FinishReject(w) \/ FinishApply(w)
      PROVE IInv' /\ Moves(db, db')
  <2>1. db' \in Rows /\ Moves(db, db')
    BY <1>9, FinishMoves
  <2>2. txn[w] # NoTxn /\ txn' = [txn EXCEPT ![w] = NoTxn] /\ kind' = kind /\ today' = today
    BY <1>9, FinishEnds
  <2> QED BY <1>7, <2>1, <2>2
<1> QED BY <1>4, <1>5, <1>d, <1>6, <1>8, <1>9 DEF Next

-----------------------------------------------------------------------------
(* The register.                                                           *)

\* A new behaviour starts with an empty register.
LEMMA InitRegister == ASSUME Init PROVE Register!RegisterInit
<1>1. db.series = 0 /\ \A d \in Docs : db.doc[d] = NoDocument
  BY DEF Init
<1>2. \A d \in Docs : db.doc[d].status = "none" /\ db.doc[d].number = 0
  BY <1>1 DEF NoDocument
<1> QED BY <1>1, <1>2, StageOf DEF Register!RegisterInit

\* A move of one document is a step of the register, or none.
LEMMA MovesRegister ==
  ASSUME Moves(db, db')
  PROVE [Register!RegisterNext]_(Register!registerVars)
<1> DEFINE stage == [e \in Docs |-> Stage(db.doc[e].status)]
           number == [e \in Docs |-> db.doc[e].number]
           stage2 == [e \in Docs |-> Stage(db'.doc[e].status)]
           number2 == [e \in Docs |-> db'.doc[e].number]
<1>1. CASE Still(db, db')
  <2>1. stage2 = stage /\ number2 = number /\ db'.series = db.series
    BY <1>1 DEF Still
  <2> QED BY <2>1 DEF Register!registerVars
<1>2. ASSUME NEW d \in Docs, MovesAt(db, db', d)
      PROVE [Register!RegisterNext]_(Register!registerVars)
  <2>1. stage2 = [stage EXCEPT ![d] = stage2[d]]
    BY <1>2 DEF MovesAt
  <2>2. number2 = [number EXCEPT ![d] = number2[d]]
    BY <1>2 DEF MovesAt
  <2>3. CASE /\ number2[d] = number[d]
             /\ db'.series = db.series
             /\ \/ stage[d] = stage2[d]
                \/ (stage[d] = "absent" \/ stage[d] = "closed") /\ stage2[d] = "open"
                \/ (stage[d] = "open" \/ stage[d] = "closed") /\ stage2[d] = "review"
                \/ (stage[d] = "open" \/ stage[d] = "review") /\ stage2[d] = "closed"
    <3>1. number2 = number
      BY <2>2, <2>3
    <3>2. CASE stage[d] = stage2[d]
      <4>1. stage2 = stage
        BY <2>1, <3>2
      <4> QED BY <2>3, <3>1, <4>1 DEF Register!registerVars
    <3>3. CASE (stage[d] = "absent" \/ stage[d] = "closed") /\ stage2[d] = "open"
      <4>1. Register!Draft(d)
        BY <2>1, <2>3, <3>1, <3>3 DEF Register!Draft
      <4> QED BY <4>1 DEF Register!RegisterNext
    <3>4. CASE (stage[d] = "open" \/ stage[d] = "closed") /\ stage2[d] = "review"
      <4>1. Register!Submit(d)
        BY <2>1, <2>3, <3>1, <3>4 DEF Register!Submit
      <4> QED BY <4>1 DEF Register!RegisterNext
    <3>5. CASE (stage[d] = "open" \/ stage[d] = "review") /\ stage2[d] = "closed"
      <4>1. Register!Close(d)
        BY <2>1, <2>3, <3>1, <3>5 DEF Register!Close
      <4> QED BY <4>1 DEF Register!RegisterNext
    <3> QED BY <2>3, <3>2, <3>3, <3>4, <3>5
  <2>4. CASE /\ stage[d] = "open" \/ stage[d] = "review" \/ stage[d] = "closed"
             /\ stage2[d] = "issued"
             /\ number2[d] = db.series + 1
             /\ db'.series = db.series + 1
    <3>1. Register!Issue(d)
      BY <2>1, <2>2, <2>4 DEF Register!Issue
    <3> QED BY <3>1 DEF Register!RegisterNext
  <2> QED BY <1>2, <2>3, <2>4 DEF MovesAt
<1> QED BY <1>1, <1>2 DEF Moves

-----------------------------------------------------------------------------
(* Theorems.                                                               *)

\* Rows and transactions keep their shape when the calls on orders of the kinds
\* that are read unlocked do not overlap (the whole of HrDocument).
THEOREM Typing == ASSUME Kinds \cap Unlocked \subseteq Serial PROVE Spec => []TypeOK
<1>1. Init => IInv
  BY InitIInv
<1>2. IInv /\ [Next]_vars => IInv'
  BY NextIInv
<1>3. IInv => TypeOK
  BY DEF IInv
<1> QED BY <1>1, <1>2, <1>3, PTL DEF Spec

\* Whatever calls overlap on contracts, letters and certificates, and if those
\* on salary and hiring orders do not, the documents keep the register of the
\* office: issued at most once, under the next number, and for good (the locks
\* and stamps of every call that writes a document).
THEOREM KeepsTheRegister ==
  ASSUME Kinds \cap Unlocked \subseteq Serial PROVE Spec => RegisterKept
<1>1. Init => IInv /\ Register!RegisterInit
  BY InitIInv, InitRegister
<1>2. IInv /\ [Next]_vars => IInv' /\ [Register!RegisterNext]_(Register!registerVars)
  BY NextIInv, MovesRegister
<1> QED BY <1>1, <1>2, PTL DEF Spec, RegisterKept, Register!Spec

-----------------------------------------------------------------------------
(* The review decides, a salary change reaches payroll once from one day   *)
(* and a repeated creation makes no second document: a document and the    *)
(* instance it waits for name each other, so the hook that ends an         *)
(* instance finds the one document to decide.                              *)

HIDE HrAssumption

\* A document under review waits for a running instance, a salary order without
\* a workflow for a person.
Waiting(k, c, d) ==
  \/ c.doc[d].inst # 0 /\ c.inst[c.doc[d].inst].status = "running"
  \/ c.doc[d].inst = 0 /\ k = "Salary" /\ ~c.doc[d].wf

\* An issued document of which nothing but its own instance could decide.
Approved(c, d) == c.doc[d].inst # 0 /\ c.inst[c.doc[d].inst].status = "completed"

\* What of the document reached payroll.
Paid(c, d) ==
  \A day \in Days :
    /\ c.assigned[d][day] <= 1
    /\ c.assigned[d][day] > 0 =>
         /\ c.doc[d].status = "final" /\ c.doc[d].applied # NoKey
         /\ c.doc[d].date \in {Undated, day}

\* Nothing did.
Unpaid(c, d) == \A day \in Days : c.assigned[d][day] <= 1 /\ ~(c.assigned[d][day] > 0)

LEMMA PaidFinal ==
  ASSUME NEW c, NEW d, Paid(c, d), c.doc[d].status # "final" PROVE Unpaid(c, d)
BY DEF Paid, Unpaid

LEMMA UnpaidPaid ==
  ASSUME NEW c, NEW d, Unpaid(c, d), NEW x, x.assigned = c.assigned PROVE Paid(x, d)
BY DEF Paid, Unpaid

Reviewable(k, c, d) ==
  /\ c.doc[d].status = "final" /\ c.doc[d].wf => Approved(c, d)
  /\ Paid(c, d)
  /\ c.doc[d].inst # 0 => c.inst[c.doc[d].inst].of = d
  /\ k = "Salary" /\ (c.doc[d].status = "none" \/ c.doc[d].status = "draft")
       => c.doc[d].inst = 0

KeysOnce(k, c) ==
  k # "Contract" =>
    \A d, x \in Docs : c.doc[d].key = c.doc[x].key /\ c.doc[d].key # NoKey => d = x

Good(k, c) ==
  /\ \A d \in Docs : Reviewable(k, c, d)
                     /\ (c.doc[d].status = "pending" => Waiting(k, c, d))
  /\ KeysOnce(k, c)

\* A payroll call served alone has read what is committed.
PayrollCurrent ==
  \A w \in Workers :
    kind \in Serial /\ txn[w].op = "apply" => txn[w].taken = Taken(db, txn[w].doc)

ReviewInv == IInv /\ Good(kind, db) /\ PayrollCurrent

-----------------------------------------------------------------------------
(* One document written.                                                   *)

\* x is c with the row of document d replaced, and nothing else a review sees.
Puts(c, x, d, row) ==
  /\ x.doc[d] = row /\ \A e \in Docs \ {d} : x.doc[e] = c.doc[e]
  /\ x.inst = c.inst /\ x.assigned = c.assigned

LEMMA PutsRow ==
  ASSUME NEW c \in Rows, NEW d \in Docs, NEW row \in Document
  PROVE  Puts(c, [c EXCEPT !.doc[d] = row], d, row)
<1> DEFINE x == [c EXCEPT !.doc[d] = row]
<1>1. x.doc = [c.doc EXCEPT ![d] = row] /\ x.inst = c.inst /\ x.assigned = c.assigned
  BY DEF Rows
<1>2. x.doc[d] = row /\ \A e \in Docs \ {d} : x.doc[e] = c.doc[e]
  BY <1>1 DEF Rows
<1> QED BY <1>1, <1>2 DEF Puts

\* What an issued row keeps of the row it is made of.
IssuedAs(row, new) ==
  /\ new.status = "final" /\ new.wf = row.wf /\ new.inst = row.inst /\ new.key = row.key
  /\ new.applied = row.applied

LEMMA PutsIssue ==
  ASSUME NEW c \in Rows, NEW d \in Docs, NEW row \in Document
  PROVE  \E new : Puts(c, Issue(c, d, row), d, new) /\ IssuedAs(row, new)
<1> DEFINE new == [row EXCEPT !.status = "final", !.number = c.series + 1]
           x == Issue(c, d, row)
<1>1. IssuedAs(row, new)
  BY DEF IssuedAs, Document
<1> HIDE DEF new
<1>2. x = [c EXCEPT !.doc = [c.doc EXCEPT ![d] = new], !.series = c.series + 1]
  BY DEF Issue, new, Rows
<1>3. x.doc = [c.doc EXCEPT ![d] = new] /\ x.inst = c.inst /\ x.assigned = c.assigned
  BY <1>2 DEF Rows
<1>4. x.doc[d] = new /\ \A e \in Docs \ {d} : x.doc[e] = c.doc[e]
  BY <1>3 DEF Rows
<1> QED BY <1>1, <1>3, <1>4 DEF Puts

\* The other documents do not notice.
LEMMA OthersReview ==
  ASSUME NEW k, NEW c, NEW x, NEW d \in Docs, NEW row, Puts(c, x, d, row),
         NEW e \in Docs, e # d, Reviewable(k, c, e),
         c.doc[e].status = "pending" => Waiting(k, c, e)
  PROVE  Reviewable(k, x, e) /\ (x.doc[e].status = "pending" => Waiting(k, x, e))
<1>1. x.doc[e] = c.doc[e] /\ x.inst = c.inst /\ x.assigned = c.assigned
  BY DEF Puts
<1> QED BY <1>1 DEF Reviewable, Waiting, Approved, Paid

\* A key nobody has, or the one the document had.
LEMMA KeyPut ==
  ASSUME NEW k, NEW c, NEW x, NEW d \in Docs, NEW row, KeysOnce(k, c),
         x.doc[d] = row, \A e \in Docs \ {d} : x.doc[e] = c.doc[e],
         k = "Contract" \/ row.key = c.doc[d].key \/ row.key \notin UsedKeys(c)
  PROVE  KeysOnce(k, x)
<1> SUFFICES ASSUME k # "Contract", NEW e \in Docs, NEW f \in Docs,
                    x.doc[e].key = x.doc[f].key, x.doc[e].key # NoKey
             PROVE  e = f
  BY DEF KeysOnce
<1>1. \A g \in Docs : g # d => x.doc[g] = c.doc[g]
  OBVIOUS
<1>2. x.doc[d] = row
  OBVIOUS
<1>3. \A g \in Docs : c.doc[g].key # NoKey => c.doc[g].key \in UsedKeys(c)
  BY DEF UsedKeys
<1>4. CASE e # d /\ f # d
  BY <1>1, <1>4 DEF KeysOnce
<1>5. CASE row.key = c.doc[d].key
  <2>1. \A g \in Docs : x.doc[g].key = c.doc[g].key
    BY <1>1, <1>2, <1>5
  <2> QED BY <2>1 DEF KeysOnce
<1>6. CASE row.key \notin UsedKeys(c)
  BY <1>1, <1>2, <1>3, <1>6 DEF KeysOnce
<1> QED BY <1>4, <1>5, <1>6

\* A call that writes one document and leaves it reviewable.
LEMMA GoodPut ==
  ASSUME NEW k, NEW c, NEW x, NEW d \in Docs, NEW row, Good(k, c), Puts(c, x, d, row),
         Reviewable(k, x, d), row.status = "pending" => Waiting(k, x, d),
         k = "Contract" \/ row.key = c.doc[d].key \/ row.key \notin UsedKeys(c)
  PROVE  Good(k, x)
<1>1. \A e \in Docs : Reviewable(k, c, e) /\ (c.doc[e].status = "pending" => Waiting(k, c, e))
  BY DEF Good
<1>2. \A e \in Docs : e # d =>
        Reviewable(k, x, e) /\ (x.doc[e].status = "pending" => Waiting(k, x, e))
  BY <1>1, OthersReview
<1>3. x.doc[d].status = "pending" => Waiting(k, x, d)
  BY DEF Puts
<1>4. KeysOnce(k, x)
  BY KeyPut DEF Good, Puts
<1> QED BY <1>2, <1>3, <1>4 DEF Good

-----------------------------------------------------------------------------
(* The hook.                                                               *)

\* Good, but for a document whose instance i has just changed.
GoodBut(k, c, i) ==
  /\ \A d \in Docs : Reviewable(k, c, d)
                     /\ (c.doc[d].status = "pending" => Waiting(k, c, d) \/ c.doc[d].inst = i)
  /\ KeysOnce(k, c)

LEMMA HookReview ==
  ASSUME NEW k, NEW c \in Rows, NEW i \in Instances, c.inst[i].status # "none",
         GoodBut(k, c, i)
  PROVE  Good(k, OnInstanceUpdate(c, i))
<1> DEFINE d == c.inst[i].of
           row == [c.doc[d] EXCEPT !.rev = c.doc[d].rev + 1]
           over == [row EXCEPT !.status = c.inst[i].status]
           x == OnInstanceUpdate(c, i)
<1>1. d \in Docs /\ c.inst[i].status \in {"running"} \cup Ends /\ i # 0
  BY InstanceOf DEF Instances
<1>2. c.doc[d] \in Document /\ c.doc[d].rev + 1 \in Nat
  <2>1. c.doc[d] \in Document
    BY <1>1, DocRow
  <2> QED BY <2>1 DEF Document
<1>3. /\ row \in Document /\ row.wf = c.doc[d].wf /\ row.inst = c.doc[d].inst
      /\ row.key = c.doc[d].key /\ row.applied = c.doc[d].applied
  BY <1>2 DEF Document
<1>4. \A e \in Docs : c.doc[e].status = "pending" /\ c.doc[e].inst = i => e = d
  BY <1>1 DEF GoodBut, Reviewable
<1>5. CASE c.inst[i].status = "running" \/ c.doc[d].status # "pending" \/ c.doc[d].inst # i
  <2>1. x = c
    BY <1>5 DEF OnInstanceUpdate
  <2>2. \A e \in Docs : c.doc[e].status = "pending" => Waiting(k, c, e)
    BY <1>1, <1>4, <1>5 DEF GoodBut, Waiting
  <2> QED BY <2>1, <2>2 DEF Good, GoodBut
<1>6. CASE c.inst[i].status # "running" /\ c.doc[d].status = "pending" /\ c.doc[d].inst = i
  <2>1. \A e \in Docs : e # d =>
          Reviewable(k, c, e) /\ (c.doc[e].status = "pending" => Waiting(k, c, e))
    BY <1>4 DEF GoodBut
  <2>2. Reviewable(k, c, d) /\ KeysOnce(k, c)
    BY <1>1 DEF GoodBut
  <2>3. PICK new : /\ Puts(c, x, d, new)
                   /\ new.inst = i /\ new.key = c.doc[d].key
                   /\ \/ new.status = "final" /\ c.inst[i].status = "completed"
                      \/ new.status \in {"rejected", "cancelled", "failed"}
    <3>1. CASE c.inst[i].status = "completed"
      <4>1. x = Issue(c, d, row)
        BY <1>6, <3>1 DEF OnInstanceUpdate
      <4> HIDE DEF row, d
      <4>2. PICK new : Puts(c, Issue(c, d, row), d, new) /\ IssuedAs(row, new)
        BY <1>1, <1>3, PutsIssue
      <4> QED BY <1>3, <1>6, <3>1, <4>1, <4>2 DEF IssuedAs
    <3>2. CASE c.inst[i].status # "completed"
      <4>1. x = [c EXCEPT !.doc[d] = over]
        BY <1>6, <3>2 DEF OnInstanceUpdate
      <4>2. c.inst[i].status \in {"rejected", "cancelled", "failed"}
        BY <1>1, <1>6, <3>2 DEF Ends
      <4>3. c.inst[i].status \in DocStatuses
        BY <4>2 DEF DocStatuses
      <4> HIDE DEF row, d
      <4>4. over \in Document /\ over.status = c.inst[i].status /\ over.inst = row.inst
            /\ over.key = row.key
        BY <1>3, <4>3 DEF Document
      <4> HIDE DEF over
      <4>5. Puts(c, x, d, over)
        BY <1>1, <4>1, <4>4, PutsRow
      <4> QED BY <1>3, <1>6, <4>2, <4>4, <4>5
    <3> QED BY <3>1, <3>2
  <2> HIDE DEF row, over, x, d
  <2>4. x.doc[d] = new /\ x.inst = c.inst /\ x.assigned = c.assigned
    BY <2>3 DEF Puts
  <2>5. Unpaid(c, d)
    BY <1>6, <2>2, PaidFinal DEF Reviewable
  <2>6. c.inst[i].of = d
    BY DEF d
  <2>7. Reviewable(k, x, d) /\ x.doc[d].status # "pending"
    BY <1>1, <2>3, <2>4, <2>5, <2>6, UnpaidPaid DEF Reviewable, Approved
  <2>8. \A e \in Docs : e # d =>
          Reviewable(k, x, e) /\ (x.doc[e].status = "pending" => Waiting(k, x, e))
    BY <1>1, <2>1, <2>3, OthersReview
  <2>9. KeysOnce(k, x)
    BY <1>1, <2>2, <2>3, KeyPut DEF Puts
  <2>10. Good(k, x)
    BY <2>7, <2>8, <2>9 DEF Good
  <2> QED BY <2>10 DEF x
<1> QED BY <1>5, <1>6

\* An instance without a status belongs to no document.
LEMMA NobodysInstance ==
  ASSUME NEW k, NEW c \in Rows, Good(k, c), NEW i \in Instances, c.inst[i].status = "none",
         NEW d \in Docs
  PROVE  c.doc[d].inst # i
<1>1. c.inst[i] \in Instance
  BY DEF Rows
<1>2. c.inst[i] = NoInstance
  BY <1>1 DEF Instance, Ends
<1>3. c.inst[i].of = 0
  BY <1>2 DEF NoInstance
<1> QED BY <1>3 DEF Good, Reviewable, Docs, Instances

\* The engine ends an instance.
LEMMA EndReviewGood ==
  ASSUME NEW k, NEW c \in Rows, Good(k, c), NEW i \in Instances, NEW end \in Ends,
         NEW x \in EndReview(c, i, end)
  PROVE  Good(k, x)
<1> DEFINE inst == [c.inst[i] EXCEPT !.status = end]
           y == [c EXCEPT !.inst[i] = inst]
<1>1. c.inst[i].status = "running" /\ x = OnInstanceUpdate(y, i)
  BY DEF EndReview
<1>2. c.inst[i] \in Instance /\ c.inst[i] # NoInstance
  BY <1>1 DEF Rows, NoInstance
<1>3. inst \in Instance /\ inst.status = end /\ inst.of = c.inst[i].of
  BY <1>2 DEF Instance
<1> HIDE DEF inst
<1>4. [c.inst EXCEPT ![i] = inst] \in [Instances -> Instance]
  BY <1>3 DEF Rows
<1>5. y = [c EXCEPT !.inst = [c.inst EXCEPT ![i] = inst]]
  BY DEF Rows
<1>6. y \in Rows /\ y.doc = c.doc /\ y.assigned = c.assigned
  BY <1>4, <1>5 DEF Rows
<1>7. y.inst[i] = inst /\ \A j \in Instances : j # i => y.inst[j] = c.inst[j]
  BY <1>4, <1>5 DEF Rows
<1>8. y.inst[i].status # "none"
  BY <1>3, <1>7 DEF Ends
<1> HIDE DEF y
<1>9. GoodBut(k, y, i)
  <2> SUFFICES ASSUME NEW d \in Docs
               PROVE  /\ Reviewable(k, y, d)
                      /\ y.doc[d].status = "pending" => Waiting(k, y, d) \/ y.doc[d].inst = i
    BY <1>6 DEF Good, GoodBut, KeysOnce
  <2>1. Reviewable(k, c, d) /\ (c.doc[d].status = "pending" => Waiting(k, c, d))
    BY DEF Good
  <2>2. c.doc[d].inst \in 0..MaxInst
    BY DocRow DEF Document
  <2>3. CASE c.doc[d].inst = i
    BY <1>1, <1>3, <1>6, <1>7, <2>1, <2>3 DEF Reviewable, Approved, Paid
  <2>4. CASE c.doc[d].inst # i
    <3>1. c.doc[d].inst # 0 => y.inst[c.doc[d].inst] = c.inst[c.doc[d].inst]
      BY <1>7, <2>2, <2>4 DEF Instances
    <3> QED BY <1>6, <2>1, <3>1 DEF Reviewable, Approved, Waiting, Paid
  <2> QED BY <2>3, <2>4
<1> QED BY <1>1, <1>6, <1>8, <1>9, HookReview

-----------------------------------------------------------------------------
(* Sending.                                                                *)

\* A document put under the review of its own instance i, which may be new.
LEMMA LinkedGood ==
  ASSUME NEW k, NEW c \in Rows, Good(k, c), NEW z \in Rows, NEW d \in Docs,
         NEW i \in Instances,
         \A e \in Docs \ {d} : z.doc[e] = c.doc[e], z.assigned = c.assigned,
         \A j \in Instances : j # i => z.inst[j] = c.inst[j],
         z.inst[i] = c.inst[i] \/ c.inst[i].status = "none",
         z.inst[i].of = d, z.doc[d].inst = i, z.doc[d].status = "pending",
         Unpaid(c, d),
         k = "Contract" \/ z.doc[d].key = c.doc[d].key
  PROVE  GoodBut(k, z, i)
<1>1. ASSUME NEW e \in Docs, e # d
      PROVE  Reviewable(k, z, e) /\ (z.doc[e].status = "pending" => Waiting(k, z, e))
  <2>1. /\ Reviewable(k, c, e) /\ (c.doc[e].status = "pending" => Waiting(k, c, e))
        /\ z.doc[e] = c.doc[e] /\ c.doc[e].inst \in 0..MaxInst
    BY <1>1, DocRow DEF Good, Document
  <2>2. c.doc[e].inst # 0 => z.inst[c.doc[e].inst] = c.inst[c.doc[e].inst]
    <3>1. CASE c.doc[e].inst = i
      BY <3>1, NobodysInstance
    <3>2. CASE c.doc[e].inst # i
      BY <2>1, <3>2 DEF Instances
    <3> QED BY <3>1, <3>2
  <2> QED BY <2>1, <2>2 DEF Reviewable, Waiting, Approved, Paid
<1>2. Reviewable(k, z, d)
  <2>1. Paid(z, d)
    BY UnpaidPaid
  <2> QED BY <2>1 DEF Reviewable
<1>3. KeysOnce(k, z)
  <2>1. KeysOnce(k, c)
    BY DEF Good
  <2> QED BY <2>1, KeyPut
<1> QED BY <1>1, <1>2, <1>3 DEF GoodBut

\* What the request of a document leaves of the rows.
LEMMA RequestKeeps ==
  ASSUME NEW c \in Rows, NEW d \in Docs, NEW key \in Keys, NEW r \in Requests(c, d, key)
  PROVE  /\ r[2].assigned = c.assigned
         /\ \A j \in Instances : j # r[1] => r[2].inst[j] = c.inst[j]
         /\ r[2].inst[r[1]] = c.inst[r[1]] \/ c.inst[r[1]].status = "none"
<1>1. CASE \E i \in Instances : c.inst[i].of = d /\ r = <<i, c>>
  BY <1>1
<1>2. CASE \E i \in FreshInst(c), s \in {"running", "completed"} :
             r = <<i, [c EXCEPT !.inst[i] = [status |-> s, of |-> d, key |-> key]]>>
  <2>1. PICK i \in FreshInst(c), s \in {"running", "completed"} :
               r = <<i, [c EXCEPT !.inst[i] = [status |-> s, of |-> d, key |-> key]]>>
    BY <1>2
  <2> DEFINE inst == [status |-> s, of |-> d, key |-> key]
  <2>2. r[1] = i /\ r[2] = [c EXCEPT !.inst[i] = inst]
    BY <2>1
  <2> HIDE DEF inst
  <2>3. r[2].inst = [c.inst EXCEPT ![i] = inst] /\ r[2].assigned = c.assigned
    BY <2>2 DEF Rows
  <2>4. \A j \in Instances : j # i => r[2].inst[j] = c.inst[j]
    BY <2>3 DEF Rows
  <2>5. c.inst[i].status = "none"
    BY DEF FreshInst
  <2> QED BY <2>2, <2>3, <2>4, <2>5
<1> QED BY <1>1, <1>2 DEF Requests

LEMMA LinkRow ==
  ASSUME NEW c \in Rows, NEW k, NEW d \in Docs, NEW i \in Instances
  PROVE  /\ Link(k, c, d, i).assigned = c.assigned
         /\ Link(k, c, d, i).doc[d].inst = i
         /\ k = "Contract" \/ Link(k, c, d, i).doc[d].key = c.doc[d].key
<1> DEFINE key == IF k = "Contract" THEN NoKey ELSE c.doc[d].key
           row == [c.doc[d] EXCEPT !.inst = i, !.key = key]
<1>1. c.doc[d] \in Document
  BY DocRow
<1>2. Link(k, c, d, i) = [c EXCEPT !.doc[d] = row]
  BY DEF Link
<1> HIDE DEF key
<1>3. row.inst = i /\ row.key = key
  BY <1>1 DEF Document
<1> HIDE DEF row
<1>4. /\ Link(k, c, d, i).doc = [c.doc EXCEPT ![d] = row]
      /\ Link(k, c, d, i).assigned = c.assigned
  BY <1>2 DEF Rows
<1>5. Link(k, c, d, i).doc[d] = row
  BY <1>4 DEF Rows
<1> QED BY <1>3, <1>4, <1>5 DEF key

\* A document sent for review, even one whose workflow is over at once: c is
\* what was committed, y the same with the document pending.
LEMMA ReviewGood ==
  ASSUME NEW k, NEW c \in Rows, Good(k, c), NEW y \in Rows, NEW d \in Docs, NEW row,
         Puts(c, y, d, row), row.status = "pending", row.key = c.doc[d].key,
         Unpaid(c, d), NEW key \in Keys, NEW x \in Review(k, y, d, key)
  PROVE  Good(k, x)
<1>1. PICK r \in Requests(y, d, key) : x = OnInstanceUpdate(Link(k, r[2], d, r[1]), r[1])
  BY DEF Review
<1> DEFINE i == r[1]
           v == r[2]
           z == Link(k, v, d, i)
<1>2. /\ i \in Instances /\ v \in Rows /\ v.doc = y.doc
      /\ v.inst[i].of = d /\ v.inst[i].status # "none"
  BY RequestOf
<1>3. /\ v.assigned = y.assigned
      /\ \A j \in Instances : j # i => v.inst[j] = y.inst[j]
      /\ v.inst[i] = y.inst[i] \/ y.inst[i].status = "none"
  BY RequestKeeps
<1>4. /\ y.doc[d] = row /\ \A e \in Docs \ {d} : y.doc[e] = c.doc[e]
      /\ y.inst = c.inst /\ y.assigned = c.assigned
  BY DEF Puts
<1> HIDE DEF i, v
<1>5. /\ z \in Rows /\ z.inst = v.inst /\ z.doc[d].status = v.doc[d].status
      /\ \A e \in Docs \ {d} : z.doc[e] = v.doc[e]
  BY <1>2, LinkMoves
<1>6. /\ z.assigned = v.assigned /\ z.doc[d].inst = i
      /\ k = "Contract" \/ z.doc[d].key = v.doc[d].key
  BY <1>2, LinkRow
<1>7. x = OnInstanceUpdate(z, i)
  BY <1>1 DEF i, v
<1> HIDE DEF z
<1>8. /\ \A e \in Docs \ {d} : z.doc[e] = c.doc[e]
      /\ z.assigned = c.assigned
      /\ \A j \in Instances : j # i => z.inst[j] = c.inst[j]
      /\ z.inst[i] = c.inst[i] \/ c.inst[i].status = "none"
  BY <1>2, <1>3, <1>4, <1>5, <1>6
<1>9. /\ z.inst[i].of = d /\ z.inst[i].status # "none" /\ z.doc[d].status = "pending"
      /\ k = "Contract" \/ z.doc[d].key = c.doc[d].key
  BY <1>2, <1>4, <1>5, <1>6
<1>10. GoodBut(k, z, i)
  BY <1>2, <1>5, <1>6, <1>8, <1>9, LinkedGood
<1> QED BY <1>2, <1>5, <1>7, <1>9, <1>10, HookReview

\* submit.
LEMMA SendGood ==
  ASSUME NEW k, NEW c \in Rows, Good(k, c), NEW d \in Docs, NEW key \in Keys, NEW rev,
         NEW x \in Send(k, rev, c, d, key)
  PROVE  Good(k, x)
<1> DEFINE row == [c.doc[d] EXCEPT !.status = "pending", !.sent = key,
                                   !.rev = c.doc[d].rev + 1]
           sent == [c EXCEPT !.doc[d] = row]
<1>1. /\ Sendable(k, c.doc[d].status)
      /\ \/ x \in Review(k, sent, d, key)
         \/ ~c.doc[d].wf /\ k = "Salary" /\ x = sent
         \/ ~c.doc[d].wf /\ x = Issue(sent, d, row)
  BY DEF Send
<1>2. c.doc[d] \in Document /\ c.doc[d].rev + 1 \in Nat /\ "pending" \in DocStatuses
  BY DocRow DEF Document, DocStatuses
<1>3. /\ row \in Document /\ row.status = "pending" /\ row.inst = c.doc[d].inst
      /\ row.key = c.doc[d].key /\ row.applied = c.doc[d].applied /\ row.wf = c.doc[d].wf
  BY <1>2 DEF Document
<1> HIDE DEF row
<1>4. sent \in Rows /\ Puts(c, sent, d, row)
  BY <1>3, RowSet, PutsRow
<1> HIDE DEF sent
<1>5. /\ sent.doc[d] = row /\ \A e \in Docs \ {d} : sent.doc[e] = c.doc[e]
      /\ sent.inst = c.inst /\ sent.assigned = c.assigned
  BY <1>4 DEF Puts
<1>6. Reviewable(k, c, d)
  BY DEF Good
<1>7. c.doc[d].status # "final" /\ Unpaid(c, d)
  BY <1>1, <1>6, PaidFinal DEF Sendable, Reviewable
<1>8. c.doc[d].inst # 0 => c.inst[c.doc[d].inst].of = d
  BY <1>6 DEF Reviewable
<1>9. CASE x \in Review(k, sent, d, key)
  BY <1>3, <1>4, <1>7, <1>9, ReviewGood
<1>10. CASE ~c.doc[d].wf /\ k = "Salary" /\ x = sent
  <2>1. c.doc[d].inst = 0
    BY <1>1, <1>6, <1>10 DEF Sendable, Reviewable
  <2>2. Reviewable(k, x, d) /\ Waiting(k, x, d)
    BY <1>3, <1>5, <1>7, <1>10, <2>1, UnpaidPaid DEF Reviewable, Waiting
  <2> QED BY <1>3, <1>4, <1>10, <2>2, GoodPut
<1>11. CASE ~c.doc[d].wf /\ x = Issue(sent, d, row)
  <2>1. PICK new : Puts(sent, Issue(sent, d, row), d, new) /\ IssuedAs(row, new)
    BY <1>3, <1>4, PutsIssue
  <2>2. Puts(c, x, d, new)
    BY <1>5, <1>11, <2>1 DEF Puts
  <2>3. /\ x.doc[d] = new /\ x.inst = c.inst /\ x.assigned = c.assigned
        /\ new.status = "final" /\ ~new.wf /\ new.inst = c.doc[d].inst
        /\ new.key = c.doc[d].key
    BY <1>3, <1>11, <2>1, <2>2 DEF Puts, IssuedAs
  <2>4. Reviewable(k, x, d)
    BY <1>7, <1>8, <2>3, UnpaidPaid DEF Reviewable
  <2> QED BY <2>2, <2>3, <2>4, GoodPut
<1> QED BY <1>1, <1>9, <1>10, <1>11

-----------------------------------------------------------------------------
(* The other calls.                                                        *)

\* A row that is not issued, replaced by one that neither waits nor is issued.
LEMMA AsideGood ==
  ASSUME NEW k, NEW c, Good(k, c), NEW x, NEW d \in Docs, NEW row, Puts(c, x, d, row),
         c.doc[d].status # "final", row.status # "final", row.status # "pending",
         row.inst = c.doc[d].inst \/ row.inst = 0,
         k = "Salary" /\ row.status = "draft" => row.inst = 0,
         k = "Salary" => row.status # "none",
         k = "Contract" \/ row.key = c.doc[d].key \/ row.key \notin UsedKeys(c)
  PROVE  Good(k, x)
<1>1. Reviewable(k, c, d)
  BY DEF Good
<1>2. x.doc[d] = row /\ x.inst = c.inst /\ x.assigned = c.assigned
  BY DEF Puts
<1>3. Paid(x, d)
  BY <1>1, <1>2, PaidFinal, UnpaidPaid DEF Reviewable
<1>4. Reviewable(k, x, d)
  BY <1>1, <1>2, <1>3 DEF Reviewable
<1> QED BY <1>4, GoodPut

\* The template decides nothing yet.
LEMMA TemplateGood ==
  ASSUME NEW k, NEW c \in Rows, Good(k, c), NEW form, NEW wf,
         NEW x \in SaveTemplate(form, c, wf) \cup PublishTemplate(form, c)
  PROVE  Good(k, x)
<1>1. PICK t : x = [c EXCEPT !.form = t]
  BY DEF SaveTemplate, PublishTemplate
<1>2. x.doc = c.doc /\ x.inst = c.inst /\ x.assigned = c.assigned
  BY <1>1 DEF Rows
<1> QED BY <1>2 DEF Good, Reviewable, Waiting, Approved, Paid, KeysOnce

\* A new draft, whose key the unique column has not seen.
LEMMA CreateGood ==
  ASSUME NEW k, NEW c \in Rows, Good(k, c), NEW keys, NEW form \in Template,
         NEW key \in Keys, NEW x \in Create(k, keys, form, c, key)
  PROVE  Good(k, x)
<1>1. PICK d \in Docs, wf \in Governing(k, form), date \in Dates(k) :
        c.doc[d].status = "none" /\ x = [c EXCEPT !.doc[d] = NewDraft(key, wf, date)]
  BY DEF Create, FreshDoc
<1> DEFINE row == NewDraft(key, wf, date)
<1>d. date \in {Undated} \cup Days
  BY DEF Dates
<1>2. wf \in BOOLEAN /\ "draft" \in DocStatuses /\ 0 \in 0..MaxInst
  BY GoverningType, HrAssumption DEF DocStatuses
<1>3. row \in Document /\ row.status = "draft" /\ row.inst = 0 /\ row.key = key
  BY <1>d, <1>2 DEF NewDraft, NoDocument, Document
<1>4. k = "Contract" \/ key \notin UsedKeys(c)
  BY DEF Create, UniqueKey
<1> HIDE DEF row
<1>5. Puts(c, x, d, row)
  BY <1>1, <1>3, PutsRow DEF row
<1> QED BY <1>1, <1>3, <1>4, <1>5, AsideGood

\* An edit leaves a draft.
LEMMA EditGood ==
  ASSUME NEW k, NEW c \in Rows, Good(k, c), NEW row \in Document, NEW form \in Template,
         NEW d \in Docs, NEW x \in Edit(k, row, form, c, d), k \in Unlocked => row = c.doc[d]
  PROVE  Good(k, x)
<1> DEFINE old == c.doc[d]
<1>1. PICK new \in Document :
        /\ x = [c EXCEPT !.doc[d] = new]
        /\ old.status # "final" /\ new.status = "draft" /\ new.key = old.key
        /\ \/ old.status = "draft" /\ new.inst = old.inst
           \/ k # "Salary" /\ new.inst = 0
  <2>0. old \in Document
    BY DocRow
  <2>1. CASE k # "Contract"
    <3>1. PICK wf \in BOOLEAN, date \in {Undated} \cup Days :
            /\ old.status = "draft"
            /\ x = [c EXCEPT !.doc[d] = Redrafted(old, wf, date)]
      <4>1. CASE k \in Unlocked
        <5>1. row = old /\ old.wf \in BOOLEAN
          BY <2>0, <4>1, DocWf
        <5>2. x \in EditUnlocked(k, old, form, c, d)
          BY <2>1, <4>1, <5>1 DEF Edit
        <5>3. PICK wf \in (IF k = "Hiring" THEN {old.wf} ELSE Governing(k, form)), date \in Dates(k) :
                old.status = "draft" /\ x = [c EXCEPT !.doc[d] = Redrafted(old, wf, date)]
          BY <5>2 DEF EditUnlocked
        <5>d. date \in {Undated} \cup Days
          BY DEF Dates
        <5>4. wf \in BOOLEAN
          BY <5>1, GoverningType, Zenon
        <5> QED BY <5>d, <5>3, <5>4
      <4>2. CASE k \notin Unlocked
        <5>1. x \in EditLocked(k, row, form, c, d)
          BY <2>1, <4>2 DEF Edit
        <5>2. PICK wf \in Governing(k, form) :
                /\ old.status = "draft"
                /\ x = [c EXCEPT !.doc[d] = [old EXCEPT !.rev = old.rev + 1, !.wf = wf]]
          BY <5>1 DEF EditLocked
        <5>3. wf \in BOOLEAN /\ old.date \in {Undated} \cup Days
          BY <2>0, GoverningType DEF Document
        <5>4. [old EXCEPT !.rev = old.rev + 1, !.wf = wf] = Redrafted(old, wf, old.date)
          BY <2>0 DEF Document, Redrafted
        <5>5. old.status = "draft" /\ x = [c EXCEPT !.doc[d] = Redrafted(old, wf, old.date)]
          BY <5>2, <5>4
        <5> QED BY <5>3, <5>5
      <4> QED BY <4>1, <4>2
    <3>2. old.rev + 1 \in Nat
      BY <2>0 DEF Document
    <3>3. Redrafted(old, wf, date) \in Document
      BY <2>0, <3>2 DEF Document, Redrafted
    <3> QED BY <2>0, <3>1, <3>3 DEF Document, Redrafted
  <2>2. CASE k = "Contract"
    <3>1. k \notin Unlocked
      BY <2>2 DEF Unlocked
    <3>2. PICK wf \in BOOLEAN :
            /\ row = old /\ row.status # "final"
            /\ x = [c EXCEPT !.doc[d] = [row EXCEPT !.status = "draft", !.rev = row.rev + 1,
                                                  !.sent = NoKey, !.inst = 0, !.wf = wf]]
      BY <2>2, <3>1, GoverningType DEF Edit, EditContract
    <3>3. row.rev + 1 \in Nat /\ "draft" \in DocStatuses /\ 0 \in 0..MaxInst
      BY HrAssumption DEF Document, DocStatuses
    <3>4. [row EXCEPT !.status = "draft", !.rev = row.rev + 1,
                      !.sent = NoKey, !.inst = 0, !.wf = wf] \in Document
      BY <3>3 DEF Document
    <3> QED BY <2>2, <3>2, <3>4 DEF Document
  <2> QED BY <2>1, <2>2
<1>2. Puts(c, x, d, new)
  BY <1>1, PutsRow
<1>3. k = "Salary" => new.inst = 0
  BY <1>1 DEF Good, Reviewable
<1> QED BY <1>1, <1>2, <1>3, AsideGood

\* An approval by hand is of an order no workflow reviews.
LEMMA ApproveGood ==
  ASSUME NEW k, NEW c \in Rows, Good(k, c), NEW d \in Docs, NEW x \in Approve(c.doc[d], c, d)
  PROVE  Good(k, x)
<1> DEFINE row == [c.doc[d] EXCEPT !.rev = c.doc[d].rev + 1]
<1>1. c.doc[d].status = "pending" /\ c.doc[d].inst = 0 /\ x = Issue(c, d, row)
  BY DEF Approve
<1>2. c.doc[d] \in Document /\ c.doc[d].rev + 1 \in Nat
  BY DocRow DEF Document
<1>3. /\ row \in Document /\ row.wf = c.doc[d].wf /\ row.inst = c.doc[d].inst
      /\ row.key = c.doc[d].key
  BY <1>2 DEF Document
<1> HIDE DEF row
<1>4. PICK new : Puts(c, Issue(c, d, row), d, new) /\ IssuedAs(row, new)
  BY <1>3, PutsIssue
<1>5. /\ x.doc[d] = new /\ x.inst = c.inst /\ x.assigned = c.assigned
      /\ new.status = "final" /\ new.wf = c.doc[d].wf /\ new.inst = 0
      /\ new.key = c.doc[d].key
  BY <1>1, <1>3, <1>4 DEF Puts, IssuedAs
<1>6. ~c.doc[d].wf /\ Unpaid(c, d)
  BY <1>1, PaidFinal DEF Good, Reviewable, Waiting
<1>7. Reviewable(k, x, d)
  BY <1>5, <1>6, UnpaidPaid DEF Reviewable
<1> QED BY <1>1, <1>4, <1>5, <1>7, GoodPut

\* A rejection by hand.
LEMMA RejectGood ==
  ASSUME NEW k, NEW c \in Rows, Good(k, c), NEW d \in Docs, NEW x \in Reject(c.doc[d], c, d)
  PROVE  Good(k, x)
<1> DEFINE row == [c.doc[d] EXCEPT !.status = "rejected", !.rev = c.doc[d].rev + 1]
<1>1. /\ c.doc[d].status = "draft" \/ c.doc[d].status = "pending"
      /\ x = [c EXCEPT !.doc[d] = row]
  BY DEF Reject
<1>2. c.doc[d] \in Document /\ c.doc[d].rev + 1 \in Nat /\ "rejected" \in DocStatuses
  BY DocRow DEF Document, DocStatuses
<1>3. /\ row \in Document /\ row.status = "rejected" /\ row.inst = c.doc[d].inst
      /\ row.key = c.doc[d].key
  BY <1>2 DEF Document
<1> HIDE DEF row
<1>4. Puts(c, x, d, row)
  BY <1>1, <1>3, PutsRow
<1> QED BY <1>1, <1>3, <1>4, AsideGood

\* Payroll: the snapshot showed the assignments there are.
LEMMA ApplyGood ==
  ASSUME NEW k, NEW c \in Rows, Good(k, c), NEW d \in Docs, NEW key \in Keys, NEW day \in Days,
         NEW x \in Apply(c.doc[d], Taken(c, d), c, d, key, day)
  PROVE  Good(k, x)
<1> DEFINE row == AppliedRow(c.doc[d], key)
<1>1. PICK made \in [Docs -> [Days -> Nat]] :
        CarriedTo(c, x, d, key, made) /\ Makes(c, d, Taken(c, d), day, made)
  BY CarriedRows
<1>f. c.doc[d].status = "final"
  BY CarriedRows
<1>x. x = [c EXCEPT !.doc = [c.doc EXCEPT ![d] = row], !.assigned = made]
  BY <1>1 DEF CarriedTo
<1>2. c.doc[d] \in Document /\ c.assigned \in [Docs -> [Days -> Nat]]
  BY DocRow DEF Rows
<1>4. /\ row.status = "final" /\ row.applied = key /\ row.wf = c.doc[d].wf
      /\ row.inst = c.doc[d].inst /\ row.key = c.doc[d].key /\ row.date = c.doc[d].date
  BY <1>f, <1>2 DEF Document, AppliedRow
<1> HIDE DEF row
<1>7. x.doc = [c.doc EXCEPT ![d] = row] /\ x.assigned = made /\ x.inst = c.inst
  BY <1>x DEF Rows
<1>8. x.doc[d] = row /\ \A e \in Docs : e # d => x.doc[e] = c.doc[e]
  BY <1>7 DEF Rows
<1>6. \A e \in Docs : e # d => made[e] = c.assigned[e]
  BY <1>1, <1>2 DEF OneMore, Makes
<1>9. ASSUME NEW e \in Docs, e # d
      PROVE  Reviewable(k, x, e) /\ (x.doc[e].status = "pending" => Waiting(k, x, e))
  <2>1. Reviewable(k, c, e) /\ (c.doc[e].status = "pending" => Waiting(k, c, e))
    BY DEF Good
  <2>2. x.doc[e] = c.doc[e] /\ x.inst = c.inst /\ x.assigned[e] = c.assigned[e]
    BY <1>6, <1>7, <1>8, <1>9
  <2> QED BY <2>1, <2>2 DEF Reviewable, Waiting, Approved, Paid
<1>10. Paid(x, d)
  <2> SUFFICES ASSUME NEW e \in Days
               PROVE  /\ made[d][e] <= 1
                      /\ made[d][e] > 0 => row.date \in {Undated, e}
    BY <1>4, <1>7, <1>8, HrAssumption DEF Paid
  <2>1. /\ c.assigned[d][e] \in Nat /\ c.assigned[d][e] <= 1
        /\ c.assigned[d][e] > 0 => c.doc[d].date \in {Undated, e}
    BY <1>2 DEF Good, Reviewable, Paid
  <2>2. CASE made = c.assigned
    BY <1>4, <2>1, <2>2
  <2>3. ASSUME NEW f \in Days \ Taken(c, d), f = Effective(c.doc[d], day),
               OneMore(c, d, f, made)
        PROVE  made[d][e] <= 1 /\ (made[d][e] > 0 => row.date \in {Undated, e})
    <3>1. made[d] = [c.assigned[d] EXCEPT ![f] = c.assigned[d][f] + 1]
      BY <1>2, <2>3 DEF OneMore
    <3>2. CASE e # f
      BY <1>2, <1>4, <2>1, <3>1, <3>2
    <3>3. CASE e = f
      <4>1. c.assigned[d][e] = 0
        BY <2>1, <2>3, <3>3 DEF Taken
      <4>2. made[d][e] = 1
        BY <1>2, <3>1, <3>3, <4>1
      <4>3. row.date \in {Undated, e}
        BY <1>4, <2>3, <3>3 DEF Effective
      <4> QED BY <4>2, <4>3
    <3> QED BY <3>2, <3>3
  <2> QED BY <1>1, <2>2, <2>3 DEF Makes
<1>11. Reviewable(k, x, d) /\ x.doc[d].status # "pending"
  <2>1. Reviewable(k, c, d)
    BY DEF Good
  <2> QED BY <1>f, <1>4, <1>7, <1>8, <1>10, <2>1 DEF Reviewable, Approved
<1>12. KeysOnce(k, x)
  <2>1. KeysOnce(k, c)
    BY DEF Good
  <2>2. x.doc[d] = row /\ \A e \in Docs \ {d} : x.doc[e] = c.doc[e]
    BY <1>8
  <2>3. row.key = c.doc[d].key
    BY <1>4
  <2> QED BY <2>1, <2>2, <2>3, KeyPut
<1> QED BY <1>9, <1>11, <1>12 DEF Good

-----------------------------------------------------------------------------
(* Calls.                                                                  *)

\* A payroll call starts with the assignments its caller sees.
LEMMA PayrollSees ==
  ASSUME NEW call \in Calls \cup {t \in SalaryCalls : kind = "Salary"}, call.op = "apply"
  PROVE  call.taken = Taken(db, call.doc)
<1>1. PICK d \in Docs :
        call \in [op : {"apply"}, doc : {d}, key : Keys, row : {db.doc[d]},
                  taken : {Taken(db, d)}]
  BY DEF Calls, SalaryCalls
<1> QED BY <1>1

\* Every call that ends keeps what the reviews rely on.
LEMMA FinishGood ==
  ASSUME ReviewInv, Kinds \cap Unlocked \subseteq Serial, NEW w \in Workers,
         \/ FinishSaveTemplate(w) \/ FinishPublish(w) \/ FinishCreate(w)
         \/ FinishEdit(w) \/ FinishSend(w) \/ FinishApprove(w)
         \/ FinishReject(w) \/ FinishApply(w)
  PROVE  Good(kind, db')
<1> DEFINE t == txn[w]
<1>1. /\ db \in Rows /\ kind \in Kinds /\ Good(kind, db) /\ (t \in Txn \/ t = NoTxn)
      /\ today \in Days
  BY DEF ReviewInv, IInv, TypeOK
<1>2. kind \in Serial /\ KeepsRow(t.op) => t.row = db.doc[t.doc]
  BY DEF ReviewInv, IInv, Current
<1>3. OfSalary(t.op) => kind = "Salary"
  BY DEF ReviewInv, IInv, Current
<1>4. t.op # "none" => t \in Txn
  BY <1>1 DEF NoTxn
<1>5. "Salary" \in Unlocked
  BY DEF Unlocked
<1>a. kind \in Serial /\ t.op = "apply" => t.taken = Taken(db, t.doc)
  BY DEF ReviewInv, PayrollCurrent
<1>6. CASE FinishSaveTemplate(w)
  <2>1. db' \in SaveTemplate(t.form, db, t.wf)
    BY <1>6 DEF FinishSaveTemplate, Commit
  <2> HIDE DEF t
  <2> QED BY <1>1, <2>1, TemplateGood
<1>7. CASE FinishPublish(w)
  <2>1. db' \in PublishTemplate(t.form, db)
    BY <1>7 DEF FinishPublish, Commit
  <2> HIDE DEF t
  <2> QED BY <1>1, <2>1, TemplateGood
<1>8. CASE FinishCreate(w)
  <2>1. t.op = "create" /\ db' \in Create(kind, t.keys, t.form, db, t.key)
    BY <1>8 DEF FinishCreate, Commit
  <2>2. t.key \in Keys /\ t.form \in Template
    BY <1>4, <2>1, TxnOf
  <2> HIDE DEF t
  <2> QED BY <1>1, <2>1, <2>2, CreateGood
<1>9. CASE FinishEdit(w)
  <2>1. t.op = "edit" /\ db' \in Edit(kind, t.row, t.form, db, t.doc)
    BY <1>9 DEF FinishEdit, Commit
  <2>2. t.doc \in Docs /\ t.row \in Document /\ t.form \in Template
    BY <1>4, <2>1, TxnOf
  <2>3. kind \in Unlocked => t.row = db.doc[t.doc]
    BY <1>1, <1>2, <2>1 DEF KeepsRow
  <2> HIDE DEF t
  <2> QED BY <1>1, <2>1, <2>2, <2>3, EditGood
<1>10. CASE FinishSend(w)
  <2>1. t.op = "send" /\ db' \in Send(kind, t.rev, db, t.doc, t.key)
    BY <1>10 DEF FinishSend, Commit
  <2>2. t.doc \in Docs /\ t.key \in Keys
    BY <1>4, <2>1, TxnOf
  <2> HIDE DEF t
  <2> QED BY <1>1, <2>1, <2>2, SendGood
<1>11. CASE FinishApprove(w)
  <2>1. t.op = "approve" /\ db' \in Approve(t.row, db, t.doc)
    BY <1>11 DEF FinishApprove, Commit
  <2>2. t.doc \in Docs /\ t.row = db.doc[t.doc]
    BY <1>1, <1>2, <1>3, <1>4, <1>5, <2>1, TxnOf DEF KeepsRow, OfSalary
  <2> HIDE DEF t
  <2> QED BY <1>1, <2>1, <2>2, ApproveGood
<1>12. CASE FinishReject(w)
  <2>1. t.op = "reject" /\ db' \in Reject(t.row, db, t.doc)
    BY <1>12 DEF FinishReject, Commit
  <2>2. t.doc \in Docs /\ t.row = db.doc[t.doc]
    BY <1>1, <1>2, <1>3, <1>4, <1>5, <2>1, TxnOf DEF KeepsRow, OfSalary
  <2> HIDE DEF t
  <2> QED BY <1>1, <2>1, <2>2, RejectGood
<1>13. CASE FinishApply(w)
  <2>1. t.op = "apply" /\ db' \in Apply(t.row, t.taken, db, t.doc, t.key, today)
    BY <1>13 DEF FinishApply, Commit
  <2>2. /\ t.doc \in Docs /\ t.key \in Keys /\ t.row = db.doc[t.doc]
        /\ t.taken = Taken(db, t.doc)
    BY <1>1, <1>2, <1>3, <1>4, <1>5, <1>a, <2>1, TxnOf DEF KeepsRow, OfSalary
  <2> HIDE DEF t
  <2> QED BY <1>1, <2>1, <2>2, ApplyGood
<1> QED BY <1>6, <1>7, <1>8, <1>9, <1>10, <1>11, <1>12, <1>13

-----------------------------------------------------------------------------
(* The invariant.                                                          *)

LEMMA InitReview == ASSUME Init PROVE ReviewInv
<1>1. IInv
  BY InitIInv
<1>2. /\ \A d \in Docs : db.doc[d] = NoDocument
                     /\ \A day \in Days : db.assigned[d][day] = 0
      /\ \A w \in Workers : txn[w] = NoTxn
  BY DEF Init
<1>3. \A d \in Docs : db.doc[d].status = "none" /\ db.doc[d].inst = 0 /\ db.doc[d].key = NoKey
  BY <1>2 DEF NoDocument
<1>4. \A d \in Docs : Reviewable(kind, db, d)
  BY <1>2, <1>3 DEF Reviewable, Paid
<1>5. Good(kind, db)
  BY <1>3, <1>4 DEF Good, KeysOnce
<1>6. PayrollCurrent
  BY <1>2 DEF PayrollCurrent, NoTxn
<1> QED BY <1>1, <1>5, <1>6 DEF ReviewInv

LEMMA NextReview ==
  ASSUME ReviewInv, [Next]_vars, Kinds \cap Unlocked \subseteq Serial
  PROVE  ReviewInv'
<1>1. /\ IInv /\ Good(kind, db) /\ PayrollCurrent /\ Current /\ db \in Rows
      /\ txn \in [Workers -> Txn \cup {NoTxn}]
  BY DEF ReviewInv, IInv, TypeOK
<1>2. IInv'
  BY <1>1, NextIInv
<1>3. NoTxn.op = "none"
  BY DEF NoTxn
<1>4. CASE UNCHANGED vars
  BY <1>1, <1>2, <1>4 DEF vars, ReviewInv, PayrollCurrent
<1>5. CASE ReviewEnds
  <2>1. /\ kind' = kind /\ txn' = txn
        /\ kind \in Serial => \A w \in Workers : txn[w] = NoTxn
        /\ \E i \in Instances, end \in Ends : db' \in EndReview(db, i, end)
    BY <1>5 DEF ReviewEnds, InTurn
  <2>2. Good(kind, db')
    BY <1>1, <2>1, EndReviewGood
  <2>3. PayrollCurrent'
    BY <1>3, <2>1 DEF PayrollCurrent
  <2> QED BY <1>2, <2>1, <2>2, <2>3 DEF ReviewInv
<1>d. CASE NextDay
  <2>1. kind' = kind /\ txn' = txn /\ db' = db
    BY <1>d DEF NextDay
  <2> QED BY <1>1, <1>2, <2>1 DEF ReviewInv, PayrollCurrent
<1>6. ASSUME NEW w \in Workers, Begin(w) PROVE ReviewInv'
  <2>1. PICK call \in Calls \cup {t \in SalaryCalls : kind = "Salary"} :
          txn' = [txn EXCEPT ![w] = call]
    BY <1>6 DEF Begin
  <2>2. /\ kind' = kind /\ db' = db
        /\ kind \in Serial => \A v \in Workers : txn[v] = NoTxn
    BY <1>6 DEF Begin, InTurn
  <2>3. call.op = "apply" => call.taken = Taken(db, call.doc)
    BY PayrollSees
  <2>4. txn'[w] = call /\ \A v \in Workers \ {w} : txn'[v] = txn[v]
    BY <1>1, <2>1
  <2>5. PayrollCurrent'
    BY <1>3, <2>2, <2>3, <2>4 DEF PayrollCurrent
  <2> QED BY <1>1, <1>2, <2>2, <2>5 DEF ReviewInv
<1>7. ASSUME NEW w \in Workers, txn[w] # NoTxn, txn' = [txn EXCEPT ![w] = NoTxn],
             kind' = kind, Good(kind, db')
      PROVE ReviewInv'
  <2>1. txn'[w] = NoTxn /\ \A v \in Workers \ {w} : txn'[v] = txn[v]
    BY <1>1, <1>7
  <2>2. kind \in Serial => \A v \in Workers : txn'[v] = NoTxn
    BY <1>1, <1>7, <2>1 DEF Current
  <2>3. PayrollCurrent'
    BY <1>3, <1>7, <2>2 DEF PayrollCurrent
  <2> QED BY <1>2, <1>7, <2>3 DEF ReviewInv
<1>8. ASSUME NEW w \in Workers, Abort(w) PROVE ReviewInv'
  BY <1>1, <1>7, <1>8 DEF Abort
<1>9. ASSUME NEW w \in Workers,
             \/ FinishSaveTemplate(w) \/ FinishPublish(w) \/ FinishCreate(w)
             \/ FinishEdit(w) \/ FinishSend(w) \/ FinishApprove(w)
             \/ FinishReject(w) \/ FinishApply(w)
      PROVE ReviewInv'
  <2>1. Good(kind, db')
    BY <1>9, FinishGood
  <2>2. txn[w] # NoTxn /\ txn' = [txn EXCEPT ![w] = NoTxn] /\ kind' = kind
    BY <1>9, FinishEnds
  <2> QED BY <1>7, <2>1, <2>2
<1> QED BY <1>4, <1>5, <1>d, <1>6, <1>8, <1>9 DEF Next

-----------------------------------------------------------------------------
(* Theorems.                                                               *)

\* If the calls on orders of the kinds that are read unlocked do not overlap,
\* the review decides: nothing waits for an instance that is over, nothing a
\* workflow governs is issued but by the completion of its own instance, and a
\* salary change reaches payroll once from one day, from none but its own if it
\* names one, and only when its order is final (on_instance_update;
\* apply_salary_change_order_to_payroll).
THEOREM ReviewDecidesHolds ==
  ASSUME Kinds \cap Unlocked \subseteq Serial PROVE Spec => []ReviewDecides
<1>1. Init => ReviewInv
  BY InitReview
<1>2. ReviewInv /\ [Next]_vars => ReviewInv'
  BY NextReview
<1>3. ReviewInv => ReviewDecides
  BY DEF ReviewInv, Good, Reviewable, Waiting, Approved, Paid, ReviewDecides
<1> QED BY <1>1, <1>2, <1>3, PTL DEF Spec

\* Under the same condition a repeated creation makes no second document, for
\* the snapshots of calls that overlap are made good by the unique column
\* (request_key of ASOUD Form Entry).
THEOREM CreatedOnceHolds ==
  ASSUME Kinds \cap Unlocked \subseteq Serial PROVE Spec => []CreatedOnce
<1>1. Init => ReviewInv
  BY InitReview
<1>2. ReviewInv /\ [Next]_vars => ReviewInv'
  BY NextReview
<1>3. ReviewInv => CreatedOnce
  BY DEF ReviewInv, Good, KeysOnce, CreatedOnce, UniqueKey
<1> QED BY <1>1, <1>2, <1>3, PTL DEF Spec

=============================================================================
