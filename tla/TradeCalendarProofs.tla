-------------------------- MODULE TradeCalendarProofs --------------------------
(***************************************************************************)
(* That a write is executed once under its key, and that papers stand as   *)
(* they were approved, reviewed, closed and continued, for any entries,    *)
(* cashiers, keys, workers and numbers of rows.                            *)
(*                                                                         *)
(* The queue is right whatever the calls do: what a call in flight found   *)
(* under its key is still there when it answers.  The papers need what a   *)
(* call saw to be what it commits on: the stamp of the row tells where it  *)
(* saves one, and calls on a till or on a chain of documents, which look   *)
(* at other rows too, must be served alone.                                *)
(*                                                                         *)
(* The clients of a calendar send again, too, but an entry knows its last  *)
(* mutation only: of earlier ones its version tells, which grows by one    *)
(* with every mutation, past the version that mutation was made on.        *)
(***************************************************************************)
EXTENDS Trade, Calendar, FiniteSetTheorems, TLAPS

-----------------------------------------------------------------------------
(* Rows added and written.                                                 *)

\* x is d with a row added.
Adds(d, x, row) ==
  /\ x \in Seq(Row) /\ Len(x) = Len(d) + 1
  /\ x[Len(d) + 1] = row
  /\ \A j \in 1..Len(d) : x[j] = d[j]

\* x is d with row i written.
Puts(d, x, i, row) ==
  /\ x \in Seq(Row) /\ Len(x) = Len(d)
  /\ x[i] = row
  /\ \A j \in 1..Len(d) : j # i => x[j] = d[j]

LEMMA AddsRow ==
  ASSUME NEW d \in Seq(Row), NEW row \in Row PROVE Adds(d, Append(d, row), row)
BY DEF Adds

LEMMA PutsRow ==
  ASSUME NEW d \in Seq(Row), NEW i \in 1..Len(d), NEW row \in Row
  PROVE  Puts(d, [d EXCEPT ![i] = row], i, row)
BY DEF Puts

\* A row of the table.
LEMMA RowAt == ASSUME NEW d \in Seq(Row), NEW i \in 1..Len(d) PROVE d[i] \in Row
OBVIOUS

\* A row with another status.
LEMMA RowStatus ==
  ASSUME NEW row \in Row, NEW status \in Statuses
  PROVE  /\ [row EXCEPT !.status = status] \in Row
         /\ [row EXCEPT !.status = status].status = status
         /\ [row EXCEPT !.status = status].kind = row.kind
         /\ [row EXCEPT !.status = status].of = row.of
         /\ [row EXCEPT !.status = status].entry = row.entry
         /\ [row EXCEPT !.status = status].by = row.by
BY DEF Row

\* A row with other lines.
LEMMA RowEntry ==
  ASSUME NEW row \in Row, NEW entry \in Entries \cup {<< >>}
  PROVE  /\ [row EXCEPT !.entry = entry] \in Row
         /\ [row EXCEPT !.entry = entry].entry = entry
         /\ [row EXCEPT !.entry = entry].kind = row.kind
         /\ [row EXCEPT !.entry = entry].status = row.status
         /\ [row EXCEPT !.entry = entry].of = row.of
BY DEF Row

\* A new row, with what it was made from, by whom, and its lines.
LEMMA NewRow ==
  ASSUME NEW kind \in Kinds, NEW status \in Statuses
  PROVE  /\ New(kind, status) \in Row
         /\ New(kind, status).kind = kind /\ New(kind, status).status = status
         /\ New(kind, status).of = {}
BY DEF New, Row

LEMMA RowOf ==
  ASSUME NEW row \in Row, NEW of \in SUBSET Rows
  PROVE  /\ [row EXCEPT !.of = of] \in Row
         /\ [row EXCEPT !.of = of].of = of
         /\ [row EXCEPT !.of = of].kind = row.kind
         /\ [row EXCEPT !.of = of].status = row.status
BY DEF Row

LEMMA RowBy ==
  ASSUME NEW row \in Row, NEW by \in Cashiers
  PROVE  /\ [row EXCEPT !.by = by] \in Row
         /\ [row EXCEPT !.by = by].by = by
         /\ [row EXCEPT !.by = by].kind = row.kind
         /\ [row EXCEPT !.by = by].status = row.status
         /\ [row EXCEPT !.by = by].of = row.of
BY DEF Row

\* The status of one row changed.
LEMMA PutsStatus ==
  ASSUME NEW d \in Seq(Row), NEW i \in 1..Len(d), NEW status \in Statuses
  PROVE  Puts(d, [d EXCEPT ![i].status = status], i, [d[i] EXCEPT !.status = status])
<1>1. d[i] \in Row
  BY RowAt
<1>2. [d[i] EXCEPT !.status = status] \in Row
  BY <1>1, RowStatus
<1> QED BY <1>2, PutsRow

\* The lines of one row changed.
LEMMA PutsEntry ==
  ASSUME NEW d \in Seq(Row), NEW i \in 1..Len(d), NEW entry \in Entries
  PROVE  Puts(d, [d EXCEPT ![i].entry = entry], i, [d[i] EXCEPT !.entry = entry])
<1>1. d[i] \in Row
  BY RowAt
<1>2. [d[i] EXCEPT !.entry = entry] \in Row
  BY <1>1, RowEntry
<1> QED BY <1>2, PutsRow

-----------------------------------------------------------------------------
(* Calls by their operation.                                               *)

\* The statuses a call gives a row.
LEMMA StatusNames ==
  /\ "Draft" \in Statuses /\ "Pending Approval" \in Statuses /\ "Approved" \in Statuses
  /\ "Rejected" \in Statuses /\ "Submitted" \in Statuses /\ "Cancelled" \in Statuses
  /\ "Open" \in Statuses /\ "Closed" \in Statuses /\ "Archived" \in Statuses /\ "Returned" \in Statuses
BY DEF Statuses, VoucherStatuses, ReportStatuses, DocStatuses

LEMMA KindNames ==
  /\ "Voucher" \in Kinds /\ "Journal Entry" \in Kinds /\ "Report" \in Kinds
  /\ "Opening" \in Kinds /\ "POS Invoice" \in Kinds /\ "Closing" \in Kinds
BY DEF Kinds

LEMMA EffectsOf ==
  ASSUME NEW call, NEW d, NEW seen
  PROVE  /\ call.op = "save_voucher" => Effects(call, d, seen) = SaveVoucher(call, d, seen)
         /\ call.op = "submit_for_approval" => Effects(call, d, seen) = SubmitForApproval(call, d, seen)
         /\ call.op = "approve_voucher" => Effects(call, d, seen) = ApproveVoucher(call, d, seen)
         /\ call.op = "reject_voucher" => Effects(call, d, seen) = RejectVoucher(call, d, seen)
         /\ call.op = "save_report" => Effects(call, d, seen) = SaveReport(call, d, seen)
         /\ call.op = "review_report" => Effects(call, d, seen) = ReviewReport(call, d, seen)
         /\ call.op = "create_pos_session" => Effects(call, d, seen) = CreateSession(call, d, seen)
         /\ call.op = "create_pos_invoice" => Effects(call, d, seen) = CreatePosInvoice(call, d, seen)
         /\ call.op = "close_pos_session" => Effects(call, d, seen) = CloseSession(call, d, seen)
         /\ call.op = "create" => Effects(call, d, seen) = CreateDoc(call, d, seen)
         /\ call.op = "create_from" => Effects(call, d, seen) = ContinueDoc(call, d, seen)
         /\ call.op = "create_payment_entry" => Effects(call, d, seen) = CreatePayment(call, d, seen)
         /\ call.op = "submit" => Effects(call, d, seen) = SubmitDoc(call, d, seen)
         /\ call.op = "cancel" => Effects(call, d, seen) = CancelDoc(call, d, seen)
BY DEF Effects

-----------------------------------------------------------------------------
(* Vouchers.                                                               *)

\* What a call about a voucher asks for.
LEMMA VoucherCall ==
  ASSUME NEW rows, NEW call \in Calls("voucher", rows)
  PROVE  \/ call.op = "save_voucher" /\ call.row \in {0} \cup rows /\ call.entry \in Entries
         \/ /\ \/ call.op = "submit_for_approval" \/ call.op = "approve_voucher"
               \/ call.op = "reject_voucher"
            /\ call.row \in rows
BY DEF Calls

\* A draft.
Drafts(d, x) ==
  \E row \in Row : Adds(d, x, row) /\ row.kind = "Voucher" /\ row.status = "Draft" /\ row.of = {}

\* A voucher that is not approved, and stays so.
Prepares(d, x) ==
  \E i \in 1..Len(d), row \in Row :
    /\ Puts(d, x, i, row) /\ d[i].kind = "Voucher" /\ row.kind = "Voucher" /\ row.of = d[i].of
    /\ d[i].status # "Approved" /\ row.status # "Approved"

\* A voucher approved with its journal entry.
Approves(d, x) ==
  \E i \in 1..Len(d), row \in Row, new \in Row, y \in Seq(Row) :
    /\ Puts(d, y, i, row) /\ Adds(y, x, new)
    /\ d[i].kind = "Voucher" /\ row.kind = "Voucher" /\ row.of = d[i].of
    /\ d[i].status # "Approved" /\ row.status = "Approved" /\ row.entry = d[i].entry
    /\ new.kind = "Journal Entry" /\ new.of = {i} /\ new.entry = d[i].entry

LEMMA VoucherEffects ==
  ASSUME NEW d \in Seq(Row), NEW seen \in Seq(Row), Len(seen) <= Len(d), 1..Len(d) \subseteq Rows,
         NEW call \in Calls("voucher", 1..Len(seen)), NEW r \in Effects(call, d, seen)
  PROVE  Drafts(d, r.docs) \/ Prepares(d, r.docs) \/ Approves(d, r.docs)
<1>1. CASE call.op = "save_voucher" /\ call.row = 0
  <2> DEFINE new == [New("Voucher", "Draft") EXCEPT !.entry = call.entry]
  <2>1. call.entry \in Entries
    BY <1>1, VoucherCall
  <2>2. new \in Row /\ new.kind = "Voucher" /\ new.status = "Draft" /\ new.of = {}
    <3> DEFINE base == New("Voucher", "Draft")
    <3>1. base \in Row /\ base.kind = "Voucher" /\ base.status = "Draft" /\ base.of = {}
      BY NewRow, StatusNames, KindNames
    <3> HIDE DEF base
    <3>2. new = [base EXCEPT !.entry = call.entry]
      BY DEF base
    <3> HIDE DEF new
    <3> QED BY <2>1, <3>1, <3>2, RowEntry
  <2> HIDE DEF new
  <2>4. r.docs = Append(d, new)
    <3>1. r \in SaveVoucher(call, d, seen)
      BY <1>1, EffectsOf
    <3>2. SaveVoucher(call, d, seen) = {q \in {Inserted(d, new)} : Balanced(call.entry)}
      BY <1>1 DEF SaveVoucher, new
    <3>3. r = Inserted(d, new)
      BY <3>1, <3>2
    <3> QED BY <3>3 DEF Inserted, Result
  <2> QED BY <2>2, <2>4, AddsRow DEF Drafts
<1>2. CASE call.op = "save_voucher" /\ call.row # 0
  <2>1. call.entry \in Entries /\ call.row \in 1..Len(seen) /\ call.row \in 1..Len(d)
    BY <1>2, VoucherCall
  <2>2. /\ r.docs = [d EXCEPT ![call.row].entry = call.entry]
        /\ seen[call.row].kind = "Voucher" /\ seen[call.row].status = "Draft" /\ d[call.row] = seen[call.row]
    <3>1. r \in SaveVoucher(call, d, seen)
      BY <1>2, EffectsOf
    <3> QED BY <1>2, <3>1 DEF SaveVoucher, Result, Is, Unchanged
  <2> DEFINE row == [d[call.row] EXCEPT !.entry = call.entry]
  <2>3. Puts(d, r.docs, call.row, row)
    <3>1. Puts(d, [d EXCEPT ![call.row].entry = call.entry], call.row, row)
      BY <2>1, PutsEntry
    <3> HIDE DEF row
    <3> QED BY <2>2, <3>1
  <2>4. d[call.row] \in Row
    BY <2>1, RowAt
  <2>5. row \in Row /\ row.kind = "Voucher" /\ row.status = "Draft" /\ row.of = d[call.row].of
    BY <2>1, <2>2, <2>4, RowEntry
  <2> HIDE DEF row
  <2> QED BY <2>1, <2>2, <2>3, <2>5 DEF Prepares
<1>3. CASE call.op = "submit_for_approval" \/ call.op = "reject_voucher"
  <2>1. call.row \in 1..Len(seen) /\ call.row \in 1..Len(d)
    BY <1>3, VoucherCall
  <2>2. PICK status \in Statuses :
          /\ status # "Approved"
          /\ r.docs = [d EXCEPT ![call.row].status = status]
          /\ seen[call.row].kind = "Voucher" /\ seen[call.row].status # "Approved" /\ d[call.row] = seen[call.row]
    <3>1. CASE call.op = "submit_for_approval"
      <4>1. r \in SubmitForApproval(call, d, seen)
        BY <3>1, EffectsOf
      <4>2. /\ r = Result([d EXCEPT ![call.row].status = "Pending Approval"], call.row)
            /\ Is(seen, call.row, "Voucher", "Draft") \/ Is(seen, call.row, "Voucher", "Rejected")
            /\ Unchanged(d, seen, call.row)
        BY <4>1, Zenon DEF SubmitForApproval
      <4>3. r.docs = [d EXCEPT ![call.row].status = "Pending Approval"]
        BY <4>2 DEF Result
      <4>4. /\ seen[call.row].kind = "Voucher" /\ seen[call.row].status # "Approved"
            /\ d[call.row] = seen[call.row]
        BY <4>2 DEF Is, Unchanged
      <4> QED BY <4>3, <4>4, StatusNames
    <3>2. CASE call.op = "reject_voucher"
      <4>1. r \in RejectVoucher(call, d, seen)
        BY <3>2, EffectsOf
      <4>2. /\ r = Result([d EXCEPT ![call.row].status = "Rejected"], call.row)
            /\ Is(seen, call.row, "Voucher", "Pending Approval")
            /\ Unchanged(d, seen, call.row)
        BY <4>1, Zenon DEF RejectVoucher
      <4>3. r.docs = [d EXCEPT ![call.row].status = "Rejected"]
        BY <4>2 DEF Result
      <4>4. /\ seen[call.row].kind = "Voucher" /\ seen[call.row].status # "Approved"
            /\ d[call.row] = seen[call.row]
        BY <4>2 DEF Is, Unchanged
      <4> QED BY <4>3, <4>4, StatusNames
    <3> QED BY <1>3, <3>1, <3>2
  <2> DEFINE row == [d[call.row] EXCEPT !.status = status]
  <2>3. Puts(d, r.docs, call.row, row)
    <3>1. Puts(d, [d EXCEPT ![call.row].status = status], call.row, row)
      BY <2>1, PutsStatus
    <3> HIDE DEF row
    <3> QED BY <2>2, <3>1
  <2>4. d[call.row] \in Row
    BY <2>1, RowAt
  <2>5. row \in Row /\ row.kind = "Voucher" /\ row.status # "Approved" /\ row.of = d[call.row].of
    BY <2>1, <2>2, <2>4, RowStatus
  <2> HIDE DEF row
  <2> QED BY <2>1, <2>2, <2>3, <2>5 DEF Prepares
<1>4. CASE call.op = "approve_voucher"
  <2> DEFINE new == [New("Journal Entry", "Submitted") EXCEPT !.of = {call.row}, !.entry = seen[call.row].entry]
             row == [d[call.row] EXCEPT !.status = "Approved"]
             y == [d EXCEPT ![call.row].status = "Approved"]
  <2>1. call.row \in 1..Len(seen) /\ call.row \in 1..Len(d) /\ call.row \in Rows
    BY <1>4, VoucherCall
  <2>2. /\ r.docs = Append(y, new)
        /\ seen[call.row].kind = "Voucher" /\ seen[call.row].status = "Pending Approval" /\ d[call.row] = seen[call.row]
    <3>1. r \in ApproveVoucher(call, d, seen)
      BY <1>4, EffectsOf
    <3>2. /\ r = Result(Append(y, new), call.row)
          /\ Is(seen, call.row, "Voucher", "Pending Approval") /\ Posts(seen[call.row].entry)
          /\ Unchanged(d, seen, call.row)
      BY <3>1, Zenon DEF ApproveVoucher
    <3> HIDE DEF new, y
    <3> QED BY <3>2 DEF Result, Is, Unchanged
  <2>3. Puts(d, y, call.row, row)
    BY <2>1, PutsStatus, StatusNames
  <2>4. d[call.row] \in Row /\ d[call.row].entry \in Entries \cup {<< >>}
    <3>1. d[call.row] \in Row
      BY <2>1, RowAt
    <3> QED BY <3>1 DEF Row
  <2>5. /\ row \in Row /\ row.kind = "Voucher" /\ row.status = "Approved"
        /\ row.of = d[call.row].of /\ row.entry = d[call.row].entry
    <3>1. d[call.row].kind = "Voucher"
      BY <2>2
    <3> QED BY ONLY <3>1, <2>4, RowStatus, StatusNames
  <2>6. {call.row} \in SUBSET Rows
    BY <2>1
  <2>7. /\ new \in Row /\ new.kind = "Journal Entry" /\ new.of = {call.row}
        /\ new.entry = d[call.row].entry
    <3>1. seen[call.row].entry = d[call.row].entry
      BY <2>2
    <3> DEFINE base == New("Journal Entry", "Submitted")
    <3>2. base \in Row /\ base.kind = "Journal Entry"
      BY NewRow, StatusNames, KindNames
    <3> HIDE DEF base
    <3> DEFINE linked == [base EXCEPT !.of = {call.row}]
    <3>3. new = [linked EXCEPT !.entry = d[call.row].entry]
      BY <3>1 DEF base
    <3>4. linked \in Row /\ linked.kind = "Journal Entry" /\ linked.of = {call.row}
      BY <2>6, <3>2, RowOf
    <3> HIDE DEF new, linked
    <3> QED BY <2>4, <3>3, <3>4, RowEntry
  <2>8. y \in Seq(Row)
    BY <2>3 DEF Puts
  <2> HIDE DEF new, row, y
  <2>9. Adds(y, r.docs, new)
    BY <2>2, <2>7, <2>8, AddsRow
  <2> QED BY <2>1, <2>2, <2>3, <2>5, <2>7, <2>8, <2>9 DEF Approves
<1> QED BY <1>1, <1>2, <1>3, <1>4, VoucherCall

-----------------------------------------------------------------------------
(* Work reports.                                                           *)

LEMMA ReportCall ==
  ASSUME NEW rows, NEW call \in Calls("report", rows)
  PROVE  \/ call.op = "save_report" /\ call.row \in {0} \cup rows /\ call.entry \in Entries /\ call.status \in Statuses
         \/ call.op = "review_report" /\ call.row \in rows /\ call.status \in Statuses
<1>1. CASE call \in [op : {"save_report"}, row : {0} \cup rows, entry : Entries, status : {"Submitted", "Archived"}]
  BY <1>1, StatusNames
<1>2. CASE call \in [op : {"review_report"}, row : rows, status : {"Approved", "Returned"}]
  BY <1>2, StatusNames
<1> QED BY <1>1, <1>2 DEF Calls

Files(d, x) == \E row \in Row : Adds(d, x, row) /\ row.kind = "Report" /\ row.of = {}

\* A report written or reviewed: one that was reviewed keeps its lines.
Writes(d, x) ==
  \E i \in 1..Len(d), row \in Row :
    /\ Puts(d, x, i, row) /\ row.kind = d[i].kind /\ row.of = d[i].of
    /\ d[i].status \in Reviewed => row.entry = d[i].entry

LEMMA ReportEffects ==
  ASSUME NEW d \in Seq(Row), NEW seen \in Seq(Row), Len(seen) <= Len(d),
         NEW call \in Calls("report", 1..Len(seen)), NEW r \in Effects(call, d, seen)
  PROVE  Files(d, r.docs) \/ Writes(d, r.docs)
<1>1. CASE call.op = "save_report" /\ call.row = 0
  <2> DEFINE base == New("Report", call.status)
             new == [base EXCEPT !.entry = call.entry]
  <2>1. call.entry \in Entries /\ call.status \in Statuses
    BY <1>1, ReportCall
  <2>2. base \in Row /\ base.kind = "Report" /\ base.of = {}
    BY <2>1, NewRow, KindNames
  <2>3. r \in SaveReport(call, d, seen)
    BY <1>1, EffectsOf
  <2>4. SaveReport(call, d, seen) = {Inserted(d, new)}
    BY <1>1 DEF SaveReport
  <2> HIDE DEF base
  <2>5. new \in Row /\ new.kind = "Report" /\ new.of = {}
    BY <2>1, <2>2, RowEntry
  <2> HIDE DEF new
  <2>6. r.docs = Append(d, new)
    BY <2>3, <2>4 DEF Inserted, Result
  <2> QED BY <2>5, <2>6, AddsRow DEF Files
<1>2. CASE call.op = "save_report" /\ call.row # 0
  <2> DEFINE i == call.row
             y == [d EXCEPT ![i].entry = call.entry]
             mid == [d[i] EXCEPT !.entry = call.entry]
             row == [mid EXCEPT !.status = call.status]
  <2>1. i \in 1..Len(d) /\ call.entry \in Entries /\ call.status \in Statuses
    BY <1>2, ReportCall
  <2>2. r \in SaveReport(call, d, seen)
    BY <1>2, EffectsOf
  <2>3. /\ r = Result([d EXCEPT ![call.row].entry = call.entry, ![call.row].status = call.status], call.row)
        /\ seen[call.row].status \notin Reviewed /\ Unchanged(d, seen, call.row)
    BY <1>2, <2>2, Zenon DEF SaveReport
  <2>4. Puts(d, y, i, mid)
    BY <2>1, PutsEntry
  <2>5. y \in Seq(Row) /\ Len(y) = Len(d) /\ y[i] = mid
    BY <2>4 DEF Puts
  <2>6. r.docs = [y EXCEPT ![i].status = call.status]
    BY <2>3 DEF Result
  <2>7. d[i] \in Row
    BY <2>1, RowAt
  <2>8. mid \in Row /\ mid.kind = d[i].kind /\ mid.of = d[i].of
    BY <2>1, <2>7, RowEntry
  <2>9. d[i].status \notin Reviewed
    BY <2>3 DEF Unchanged
  <2> HIDE DEF y, mid, i
  <2>10. row \in Row /\ row.kind = d[i].kind /\ row.of = d[i].of
    BY <2>1, <2>8, RowStatus
  <2>11. Puts(y, r.docs, i, row)
    <3>1. row = [y[i] EXCEPT !.status = call.status]
      BY <2>5
    <3> HIDE DEF row
    <3>2. i \in 1..Len(y)
      BY <2>1, <2>5
    <3> QED BY <2>1, <2>5, <2>6, <3>1, <3>2, PutsStatus
  <2> HIDE DEF row
  <2>12. Puts(d, r.docs, i, row)
    BY <2>4, <2>5, <2>11 DEF Puts
  <2> QED BY <2>1, <2>9, <2>10, <2>12 DEF Writes
<1>3. CASE call.op = "review_report"
  <2> DEFINE i == call.row
             row == [d[i] EXCEPT !.status = call.status]
  <2>1. i \in 1..Len(d) /\ call.status \in Statuses
    BY <1>3, ReportCall
  <2>2. r \in ReviewReport(call, d, seen)
    BY <1>3, EffectsOf
  <2>3. r = Result([d EXCEPT ![call.row].status = call.status], call.row)
    BY <2>2, Zenon DEF ReviewReport
  <2>4. r.docs = [d EXCEPT ![i].status = call.status]
    BY <2>3 DEF Result
  <2>5. d[i] \in Row
    BY <2>1, RowAt
  <2> HIDE DEF i
  <2>6. row \in Row /\ row.kind = d[i].kind /\ row.of = d[i].of /\ row.entry = d[i].entry
    BY <2>1, <2>5, RowStatus
  <2>7. Puts(d, r.docs, i, row)
    BY <2>1, <2>4, PutsStatus
  <2> HIDE DEF row
  <2> QED BY <2>1, <2>6, <2>7 DEF Writes
<1> QED BY <1>1, <1>2, <1>3, ReportCall

-----------------------------------------------------------------------------
(* The till.                                                               *)

LEMMA TillCall ==
  ASSUME NEW rows, NEW call \in Calls("till", rows)
  PROVE  \/ (call.op = "create_pos_session" \/ call.op = "create_pos_invoice") /\ call.user \in Cashiers
         \/ call.op = "close_pos_session" /\ call.row \in rows
BY DEF Calls

\* What the till looks for.
LEMMA OpenAt ==
  ASSUME NEW d \in Seq(Row), NEW user, NEW i
  PROVE  i \in OpenSessions(d, user) <=>
           i \in 1..Len(d) /\ d[i].kind = "Opening" /\ d[i].status = "Open" /\ d[i].by = user
BY DEF OpenSessions, Is

LEMMA InvoiceAt ==
  ASSUME NEW d \in Seq(Row), NEW i \in 1..Len(d), NEW j
  PROVE  j \in InvoicesOf(d, i) <=>
           j \in 1..Len(d) /\ j > i /\ d[j].kind = "POS Invoice" /\ d[j].by = d[i].by
<1>1. DOMAIN d = 1..Len(d)
  OBVIOUS
<1>2. InvoicesOf(d, i) = {k \in 1..Len(d) : k > i /\ d[k].kind = "POS Invoice" /\ d[k].by = d[i].by}
  BY <1>1, Zenon DEF InvoicesOf
<1> QED BY <1>2, Zenon

Opens(d, x, seen) ==
  \E row \in Row :
    /\ Adds(d, x, row) /\ row.kind = "Opening" /\ row.status = "Open" /\ row.of = {}
    /\ OpenSessions(seen, row.by) = {}

Sells(d, x, seen) ==
  \E row \in Row :
    /\ Adds(d, x, row) /\ row.kind = "POS Invoice" /\ row.of = {}
    /\ OpenSessions(seen, row.by) # {}

\* A session closed with what was sold in it.
Closes(d, x, seen) ==
  \E i \in 1..Len(seen), row \in Row, new \in Row, y \in Seq(Row) :
    /\ Puts(d, y, i, row) /\ Adds(y, x, new)
    /\ d[i] = seen[i] /\ d[i].kind = "Opening" /\ d[i].status = "Open"
    /\ row.kind = "Opening" /\ row.status = "Closed" /\ row.of = d[i].of /\ row.by = d[i].by
    /\ new.kind = "Closing" /\ new.of = {i} \cup InvoicesOf(seen, i)

LEMMA TillEffects ==
  ASSUME NEW d \in Seq(Row), NEW seen \in Seq(Row), Len(seen) <= Len(d), 1..Len(d) \subseteq Rows,
         NEW call \in Calls("till", 1..Len(seen)), NEW r \in Effects(call, d, seen)
  PROVE  Opens(d, r.docs, seen) \/ Sells(d, r.docs, seen) \/ Closes(d, r.docs, seen)
<1>1. CASE call.op = "create_pos_session"
  <2> DEFINE base == New("Opening", "Open")
             new == [base EXCEPT !.by = call.user]
  <2>1. call.user \in Cashiers
    BY <1>1, TillCall
  <2>2. base \in Row /\ base.kind = "Opening" /\ base.status = "Open" /\ base.of = {}
    <3>1. "Opening" \in Kinds /\ "Open" \in Statuses
      BY KindNames, StatusNames
    <3> QED BY <3>1, NewRow
  <2>3. r \in CreateSession(call, d, seen)
    BY <1>1, EffectsOf
  <2>4. r = Inserted(d, new) /\ OpenSessions(seen, call.user) = {}
    BY <2>3, Zenon DEF CreateSession
  <2> HIDE DEF base
  <2>5. new \in Row /\ new.kind = "Opening" /\ new.status = "Open" /\ new.of = {} /\ new.by = call.user
    BY <2>1, <2>2, RowBy
  <2> HIDE DEF new
  <2>6. r.docs = Append(d, new)
    BY <2>4 DEF Inserted, Result
  <2> QED BY <2>4, <2>5, <2>6, AddsRow DEF Opens
<1>2. CASE call.op = "create_pos_invoice"
  <2> DEFINE base == New("POS Invoice", "Submitted")
             new == [base EXCEPT !.by = call.user]
  <2>1. call.user \in Cashiers
    BY <1>2, TillCall
  <2>2. base \in Row /\ base.kind = "POS Invoice" /\ base.of = {}
    <3>1. "POS Invoice" \in Kinds /\ "Submitted" \in Statuses
      BY KindNames, StatusNames
    <3> QED BY <3>1, NewRow
  <2>3. r \in CreatePosInvoice(call, d, seen)
    BY <1>2, EffectsOf
  <2>4. r = Inserted(d, new) /\ OpenSessions(seen, call.user) # {}
    BY <2>3, Zenon DEF CreatePosInvoice
  <2> HIDE DEF base
  <2>5. new \in Row /\ new.kind = "POS Invoice" /\ new.of = {} /\ new.by = call.user
    BY <2>1, <2>2, RowBy
  <2> HIDE DEF new
  <2>6. r.docs = Append(d, new)
    BY <2>4 DEF Inserted, Result
  <2> QED BY <2>4, <2>5, <2>6, AddsRow DEF Sells
<1>3. CASE call.op = "close_pos_session"
  <2> DEFINE i == call.row
             taken == {call.row} \cup InvoicesOf(seen, call.row)
             base == New("Closing", "Submitted")
             new == [base EXCEPT !.of = taken]
             y == [d EXCEPT ![i].status = "Closed"]
             row == [d[i] EXCEPT !.status = "Closed"]
  <2>1. i \in 1..Len(seen) /\ i \in 1..Len(d)
    BY <1>3, TillCall
  <2>2. r \in CloseSession(call, d, seen)
    BY <1>3, EffectsOf
  <2>3. r = Inserted(y, new) /\ Is(seen, call.row, "Opening", "Open") /\ Unchanged(d, seen, call.row)
    BY <2>2, Zenon DEF CloseSession
  <2>4. d[i] = seen[i] /\ d[i].kind = "Opening" /\ d[i].status = "Open"
    BY <2>3 DEF Is, Unchanged
  <2>5. taken \in SUBSET Rows
    <3>1. \A j \in InvoicesOf(seen, call.row) : j \in 1..Len(seen)
      BY <2>1, InvoiceAt
    <3>2. \A j \in 1..Len(seen) : j \in 1..Len(d)
      OBVIOUS
    <3>3. \A j \in taken : j \in 1..Len(d)
      BY <2>1, <3>1, <3>2, Zenon
    <3> HIDE DEF taken
    <3> QED BY <3>3
  <2>6. base \in Row /\ base.kind = "Closing"
    <3>1. "Closing" \in Kinds /\ "Submitted" \in Statuses
      BY KindNames, StatusNames
    <3> QED BY <3>1, NewRow
  <2>7. Puts(d, y, i, row)
    BY <2>1, PutsStatus, StatusNames
  <2>8. d[i] \in Row
    BY <2>1, RowAt
  <2>9. row \in Row /\ row.kind = "Opening" /\ row.status = "Closed" /\ row.of = d[i].of /\ row.by = d[i].by
    BY <2>4, <2>8, RowStatus, StatusNames
  <2>10. y \in Seq(Row)
    BY <2>7 DEF Puts
  <2>11. taken = {i} \cup InvoicesOf(seen, i)
    OBVIOUS
  <2> HIDE DEF base, taken, y, row
  <2>12. new \in Row /\ new.kind = "Closing" /\ new.of = taken
    BY <2>5, <2>6, RowOf
  <2> HIDE DEF new
  <2>13. r.docs = Append(y, new)
    BY <2>3 DEF Inserted, Result
  <2>14. Adds(y, r.docs, new)
    BY <2>10, <2>12, <2>13, AddsRow
  <2> HIDE DEF i
  <2> QED BY <2>1, <2>4, <2>7, <2>9, <2>10, <2>11, <2>12, <2>14 DEF Closes
<1> QED BY <1>1, <1>2, <1>3, TillCall

-----------------------------------------------------------------------------
(* Documents made from documents.                                          *)

Targets == {f[2] : f \in Flow}

LEMMA SaleCall ==
  ASSUME NEW rows, NEW call \in Calls("sale", rows)
  PROVE  \/ call.op = "create" /\ call.kind \in Created /\ call.submit \in BOOLEAN
         \/ call.op = "create_from" /\ call.row \in rows /\ call.kind \in Targets /\ call.submit \in BOOLEAN
         \/ call.op = "create_payment_entry" /\ call.submit \in BOOLEAN /\ Referenced(call) \subseteq rows
         \/ (call.op = "submit" \/ call.op = "cancel") /\ call.row \in rows
<1>1. CASE call \in [op : {"create"}, kind : Created, submit : BOOLEAN]
  BY <1>1, Zenon
<1>2. CASE call \in [op : {"create_from"}, row : rows, kind : Targets, submit : BOOLEAN]
  BY <1>2
<1>3. CASE call \in [op : {"create_payment_entry"}, party : {"Customer"}, amount : {1},
                   refs : {<<>>} \cup {<<r>> : r \in rows \X {1, 2}}, submit : {TRUE}]
  <2>1. call.op = "create_payment_entry" /\ call.submit = TRUE
    BY <1>3
  <2>2. call.refs = <<>> \/ \E r \in rows \X {1, 2} : call.refs = <<r>>
    BY <1>3
  <2>3. \A i \in DOMAIN call.refs : call.refs[i][1] \in rows
    <3>1. CASE call.refs = <<>>
      BY <3>1
    <3>2. CASE \E r \in rows \X {1, 2} : call.refs = <<r>>
      <4>1. PICK r \in rows \X {1, 2} : call.refs = <<r>>
        BY <3>2
      <4>2. r[1] \in rows
        OBVIOUS
      <4> QED BY <4>1, <4>2
    <3> QED BY <2>2, <3>1, <3>2
  <2>4. Referenced(call) \subseteq rows
    BY <2>3, Zenon DEF Referenced
  <2> QED BY <2>1, <2>4
<1>4. CASE call \in [op : {"submit", "cancel"}, row : rows]
  BY <1>4
<1> QED BY <1>1, <1>2, <1>3, <1>4 DEF Calls, Targets

LEMMA PairFirst == ASSUME NEW a, NEW b PROVE <<a, b>>[1] = a
OBVIOUS

LEMMA PairSecond == ASSUME NEW a, NEW b PROVE <<a, b>>[2] = b
OBVIOUS

LEMMA TargetNames ==
  ASSUME NEW kind \in Targets
  PROVE  \/ kind = "Sales Order" \/ kind = "Delivery Note" \/ kind = "Sales Invoice"
         \/ kind = "Purchase Order" \/ kind = "Purchase Receipt" \/ kind = "Purchase Invoice"
         \/ kind = "Credit Note"
<1>1. PICK f \in Flow : kind = f[2]
  BY DEF Targets
<1>2. f \in SalesFlow => f[2] = "Sales Order" \/ f[2] = "Delivery Note" \/ f[2] = "Sales Invoice"
  BY PairSecond, Zenon DEF SalesFlow
<1>3. f \in BuyingFlow => f[2] = "Purchase Order" \/ f[2] = "Purchase Receipt" \/ f[2] = "Purchase Invoice"
  BY PairSecond, Zenon DEF BuyingFlow
<1>4. f \in ReturnFlow => f[2] = "Credit Note"
  BY PairSecond, Zenon DEF ReturnFlow
<1>5. f \in SalesFlow \/ f \in BuyingFlow \/ f \in ReturnFlow
  BY DEF Flow
<1> QED BY ONLY <1>1, <1>2, <1>3, <1>4, <1>5

\* Purchase requests are made from nothing.
LEMMA TargetKinds ==
  ASSUME NEW kind \in Targets PROVE kind \in Erp /\ kind # "Material Request"
<1>1. kind \in Erp
  BY DEF Targets, Erp
<1>2. kind # "Material Request"
  BY TargetNames
<1> QED BY <1>1, <1>2

LEMMA NewStatus ==
  ASSUME NEW submit PROVE StatusOf(submit) = "Draft" \/ StatusOf(submit) = "Submitted"
BY DEF StatusOf

\* A document made from submitted ones.
Makes(d, x, seen) ==
  \E row \in Row :
    /\ Adds(d, x, row) /\ row.kind \in Erp /\ (row.status = "Draft" \/ row.status = "Submitted")
    /\ row.kind = "Material Request" => row.of = {}
    /\ \A j \in row.of : j \in 1..Len(seen) /\ seen[j].status = "Submitted"

Submits(d, x, seen) ==
  \E i \in 1..Len(seen), row \in Row :
    /\ Puts(d, x, i, row) /\ d[i] = seen[i] /\ d[i].status = "Draft" /\ row.status = "Submitted"
    /\ row.kind = d[i].kind /\ row.of = d[i].of
    /\ LinksLive(seen, d[i].of)

Cancels(d, x, seen) ==
  \E i \in 1..Len(seen), row \in Row :
    /\ Puts(d, x, i, row) /\ d[i] = seen[i] /\ d[i].status = "Submitted" /\ row.status = "Cancelled"
    /\ row.kind = d[i].kind /\ row.of = d[i].of
    /\ LinkedTo(seen, i) = {}

LEMMA SaleEffects ==
  ASSUME NEW d \in Seq(Row), NEW seen \in Seq(Row), Len(seen) <= Len(d), 1..Len(d) \subseteq Rows,
         NEW call \in Calls("sale", 1..Len(seen)), NEW r \in Effects(call, d, seen)
  PROVE  Makes(d, r.docs, seen) \/ Submits(d, r.docs, seen) \/ Cancels(d, r.docs, seen)
<1>0. \A kind \in Erp, status \in Statuses : New(kind, status) \in Row
  BY NewRow DEF Kinds
<1>s. StatusOf(call.submit) \in Statuses
  BY NewStatus, StatusNames
<1>1. CASE call.op = "create"
  <2> DEFINE new == New(call.kind, StatusOf(call.submit))
  <2>1. call.kind \in Erp
    BY <1>1, SaleCall DEF Erp
  <2>2. r \in CreateDoc(call, d, seen)
    BY <1>1, EffectsOf
  <2>3. r = Inserted(d, new)
    BY <2>2, Zenon DEF CreateDoc
  <2>4. new \in Row /\ new.kind \in Erp /\ new.of = {} /\ new.status = StatusOf(call.submit)
    BY <1>s, <2>1, NewRow DEF Kinds
  <2> HIDE DEF new
  <2>5. r.docs = Append(d, new)
    BY <2>3 DEF Inserted, Result
  <2> QED BY <2>4, <2>5, AddsRow, NewStatus DEF Makes
<1>2. CASE call.op = "create_from"
  <2> DEFINE base == New(call.kind, StatusOf(call.submit))
             new == [base EXCEPT !.of = {call.row}]
  <2>1. call.row \in 1..Len(seen) /\ call.kind \in Targets
    BY <1>2, SaleCall
  <2>2. r \in ContinueDoc(call, d, seen)
    BY <1>2, EffectsOf
  <2>3. r = Inserted(d, new) /\ seen[call.row].status = "Submitted"
    BY <2>2, Zenon DEF ContinueDoc
  <2>4. call.kind \in Kinds
    BY <2>1, TargetKinds DEF Kinds
  <2>5. base \in Row /\ base.kind = call.kind /\ base.status = StatusOf(call.submit)
    BY <1>s, <2>4, NewRow
  <2>6. {call.row} \in SUBSET Rows
    BY <2>1
  <2> HIDE DEF base
  <2>7. new \in Row /\ new.kind = call.kind /\ new.of = {call.row} /\ new.status = StatusOf(call.submit)
    BY <2>5, <2>6, RowOf
  <2> HIDE DEF new
  <2>8. r.docs = Append(d, new)
    BY <2>3 DEF Inserted, Result
  <2>9. Adds(d, r.docs, new)
    BY <2>7, <2>8, AddsRow
  <2>10. new.kind \in Erp /\ new.kind # "Material Request"
    BY <2>1, <2>7, TargetKinds
  <2> QED BY <2>1, <2>3, <2>7, <2>9, <2>10, NewStatus DEF Makes
<1>3. CASE call.op = "create_payment_entry"
  <2> DEFINE base == New("Payment Entry", StatusOf(call.submit))
             new == [base EXCEPT !.of = Referenced(call)]
  <2>1. Referenced(call) \subseteq 1..Len(seen)
    BY <1>3, SaleCall
  <2>2. r \in CreatePayment(call, d, seen)
    BY <1>3, EffectsOf
  <2>3. r = Inserted(d, new) /\ \A i \in Referenced(call) : seen[i].kind \in Payable(call.party) /\ seen[i].status = "Submitted"
    BY <2>2, Zenon DEF CreatePayment
  <2>4. "Payment Entry" \in Erp
    BY DEF Erp
  <2>5. base \in Row /\ base.kind = "Payment Entry" /\ base.status = StatusOf(call.submit)
    BY <1>s, <2>4, NewRow DEF Kinds
  <2>6. Referenced(call) \in SUBSET Rows
    BY <2>1
  <2> HIDE DEF base
  <2>7. new \in Row /\ new.kind = "Payment Entry" /\ new.of = Referenced(call) /\ new.status = StatusOf(call.submit)
    BY <2>5, <2>6, RowOf
  <2> HIDE DEF new
  <2>8. r.docs = Append(d, new)
    BY <2>3 DEF Inserted, Result
  <2>9. Adds(d, r.docs, new)
    BY <2>7, <2>8, AddsRow
  <2> QED BY <2>1, <2>3, <2>4, <2>7, <2>9, NewStatus DEF Makes
<1>4. CASE call.op = "submit"
  <2> DEFINE i == call.row
             row == [d[i] EXCEPT !.status = "Submitted"]
  <2>1. i \in 1..Len(seen) /\ i \in 1..Len(d)
    BY <1>4, SaleCall
  <2>2. r \in SubmitDoc(call, d, seen)
    BY <1>4, EffectsOf
  <2>3. /\ r = Result([d EXCEPT ![call.row].status = "Submitted"], call.row)
        /\ seen[call.row].status = "Draft"
        /\ LinksLive(seen, seen[call.row].of) /\ Unchanged(d, seen, call.row)
    BY <2>2, Zenon DEF SubmitDoc
  <2>4. d[i] = seen[i]
    BY <2>3 DEF Unchanged
  <2>5. r.docs = [d EXCEPT ![i].status = "Submitted"]
    BY <2>3 DEF Result
  <2>6. d[i] \in Row
    BY <2>1, RowAt
  <2>7. LinksLive(seen, d[i].of) /\ d[i].status = "Draft"
    BY <2>3, <2>4
  <2> HIDE DEF i
  <2>8. row \in Row /\ row.kind = d[i].kind /\ row.of = d[i].of /\ row.status = "Submitted"
    BY <2>6, RowStatus, StatusNames
  <2>9. Puts(d, r.docs, i, row)
    <3>1. Puts(d, [d EXCEPT ![i].status = "Submitted"], i, row)
      BY <2>1, PutsStatus, StatusNames
    <3> QED BY <2>5, <3>1
  <2> HIDE DEF row
  <2> QED BY <2>1, <2>4, <2>7, <2>8, <2>9 DEF Submits
<1>5. CASE call.op = "cancel"
  <2> DEFINE i == call.row
             row == [d[i] EXCEPT !.status = "Cancelled"]
  <2>1. i \in 1..Len(seen) /\ i \in 1..Len(d)
    BY <1>5, SaleCall
  <2>2. r \in CancelDoc(call, d, seen)
    BY <1>5, EffectsOf
  <2>3. /\ r = Result([d EXCEPT ![call.row].status = "Cancelled"], call.row)
        /\ seen[call.row].status = "Submitted"
        /\ LinkedTo(seen, call.row) = {} /\ Unchanged(d, seen, call.row)
    BY <2>2, Zenon DEF CancelDoc
  <2>4. d[i] = seen[i]
    BY <2>3 DEF Unchanged
  <2>5. r.docs = [d EXCEPT ![i].status = "Cancelled"]
    BY <2>3 DEF Result
  <2>6. d[i] \in Row
    BY <2>1, RowAt
  <2>7. LinkedTo(seen, i) = {} /\ d[i].status = "Submitted"
    BY <2>3, <2>4
  <2> HIDE DEF i
  <2>8. row \in Row /\ row.kind = d[i].kind /\ row.of = d[i].of /\ row.status = "Cancelled"
    BY <2>6, RowStatus, StatusNames
  <2>9. Puts(d, r.docs, i, row)
    <3>1. Puts(d, [d EXCEPT ![i].status = "Cancelled"], i, row)
      BY <2>1, PutsStatus, StatusNames
    <3> QED BY <2>5, <3>1
  <2> HIDE DEF row
  <2> QED BY <2>1, <2>4, <2>7, <2>8, <2>9 DEF Cancels
<1> QED BY <1>1, <1>2, <1>3, <1>4, <1>5, SaleCall

-----------------------------------------------------------------------------
(* Any call.                                                               *)

\* The rows of a subject are rows.
LEMMA RowNumbers ==
  ASSUME TradeTypes, NEW s \in Subjects, NEW n \in Nat, n <= MaxDocs[s] PROVE 1..n \subseteq Rows
<1>1. MaxDocs[s] \in Nat
  BY DEF TradeTypes
<1>2. 1..n \subseteq 1..MaxDocs[s]
  BY <1>1
<1>3. 1..MaxDocs[s] \subseteq Rows
  BY Zenon DEF Rows
<1> QED BY <1>2, <1>3

\* Only rows are added, so what could be asked for can still be.
LEMMA CallsGrow ==
  ASSUME TradeTypes, NEW s \in Subjects, NEW a, NEW b, a \subseteq b
  PROVE  Calls(s, a) \subseteq Calls(s, b)
<1>1. CASE s = "voucher"
  BY <1>1 DEF Calls
<1>2. CASE s = "report"
  BY <1>2 DEF Calls
<1>3. CASE s = "till"
  BY <1>3 DEF Calls
<1>4. CASE s = "sale"
  <2>1. \A q \in {<<>>} \cup {<<r>> : r \in a \X {1, 2}} : q \in {<<>>} \cup {<<r>> : r \in b \X {1, 2}}
    OBVIOUS
  <2> QED BY <1>4, <2>1 DEF Calls
<1> QED BY <1>1, <1>2, <1>3, <1>4 DEF TradeTypes

\* What a call commits are rows, and no row goes away.
LEMMA EffectsType ==
  ASSUME TradeTypes, NEW s \in Subjects, NEW d \in Seq(Row), Len(d) <= MaxDocs[s],
         NEW seen \in Seq(Row), Len(seen) <= Len(d),
         NEW call \in Calls(s, 1..Len(seen)), NEW r \in Effects(call, d, seen)
  PROVE  r.docs \in Seq(Row) /\ Len(r.docs) \in Nat /\ Len(r.docs) >= Len(d)
<1>1. 1..Len(d) \subseteq Rows
  BY RowNumbers
<1>2. ASSUME NEW x, NEW i, NEW row, Puts(d, x, i, row) PROVE x \in Seq(Row) /\ Len(x) = Len(d)
  BY <1>2 DEF Puts
<1>3. ASSUME NEW y \in Seq(Row), NEW x, NEW row, Adds(y, x, row) PROVE x \in Seq(Row) /\ Len(x) = Len(y) + 1
  BY <1>3 DEF Adds
<1>4. CASE s = "voucher"
  <2>1. Drafts(d, r.docs) \/ Prepares(d, r.docs) \/ Approves(d, r.docs)
    BY <1>1, <1>4, VoucherEffects
  <2>2. CASE Drafts(d, r.docs)
    BY <1>3, <2>2 DEF Drafts
  <2>3. CASE Prepares(d, r.docs)
    BY <1>2, <2>3 DEF Prepares
  <2>4. CASE Approves(d, r.docs)
    <3>1. PICK i \in 1..Len(d), row \in Row, new \in Row, y \in Seq(Row) : Puts(d, y, i, row) /\ Adds(y, r.docs, new)
      BY <2>4, Zenon DEF Approves
    <3> QED BY <1>2, <1>3, <3>1
  <2> QED BY <2>1, <2>2, <2>3, <2>4
<1>5. CASE s = "report"
  <2>1. Files(d, r.docs) \/ Writes(d, r.docs)
    BY <1>5, ReportEffects
  <2> QED BY <1>2, <1>3, <2>1 DEF Files, Writes
<1>6. CASE s = "till"
  <2>1. Opens(d, r.docs, seen) \/ Sells(d, r.docs, seen) \/ Closes(d, r.docs, seen)
    BY <1>1, <1>6, TillEffects
  <2>2. CASE Opens(d, r.docs, seen)
    BY <1>3, <2>2 DEF Opens
  <2>3. CASE Sells(d, r.docs, seen)
    <3>1. PICK row \in Row : Adds(d, r.docs, row)
      BY <2>3, Zenon DEF Sells
    <3> QED BY <1>3, <3>1
  <2>4. CASE Closes(d, r.docs, seen)
    <3>1. PICK i \in 1..Len(seen), row \in Row, new \in Row, y \in Seq(Row) : Puts(d, y, i, row) /\ Adds(y, r.docs, new)
      BY <2>4, Zenon DEF Closes
    <3> QED BY <1>2, <1>3, <3>1
  <2> QED BY <2>1, <2>2, <2>3, <2>4
<1>7. CASE s = "sale"
  <2>1. Makes(d, r.docs, seen) \/ Submits(d, r.docs, seen) \/ Cancels(d, r.docs, seen)
    BY <1>1, <1>7, SaleEffects
  <2>2. CASE Makes(d, r.docs, seen)
    <3>1. PICK row \in Row : Adds(d, r.docs, row)
      BY <2>2, Zenon DEF Makes
    <3> QED BY <1>3, <3>1
  <2>3. CASE Submits(d, r.docs, seen)
    BY <1>2, <2>3 DEF Submits
  <2>4. CASE Cancels(d, r.docs, seen)
    BY <1>2, <2>4 DEF Cancels
  <2> QED BY <2>1, <2>2, <2>3, <2>4
<1> QED BY <1>4, <1>5, <1>6, <1>7 DEF TradeTypes

-----------------------------------------------------------------------------
(* The queue.                                                              *)

\* A key that was not used, or was used for one execution and its answer.
Accounted(k) ==
  \/ requests[k] = NoRequest /\ ran[k] = 0 /\ answers[k] = {}
  \/ /\ requests[k].call \in Calls(subject, 1..Len(docs))
     /\ ran[k] = 1 /\ answers[k] = {requests[k].answer}

\* A call in flight: what it found under its key is there.
Served(t) ==
  /\ t.seen \in Seq(Row) /\ Len(t.seen) <= Len(docs)
  /\ t.call \in Calls(subject, 1..Len(t.seen))
  /\ t.key \in Keys \/ t.key = NoKey
  /\ t.known # NoRequest => t.key \in Keys /\ t.known = requests[t.key]

QueueInv ==
  /\ subject \in Subjects
  /\ docs \in Seq(Row) /\ Len(docs) <= MaxDocs[subject]
  /\ DOMAIN requests = Keys /\ DOMAIN ran = Keys /\ DOMAIN answers = Keys /\ DOMAIN txn = Workers
  /\ \A k \in Keys : Accounted(k)
  /\ \A w \in Workers : Busy(w) => Served(txn[w])

\* A call is no NoCall.
LEMMA CallIsCall ==
  ASSUME TradeTypes, subject \in Subjects, NEW n \in Nat, n <= MaxDocs[subject], NEW call \in Calls(subject, 1..n)
  PROVE  call # NoCall
<1>1. 1..n \subseteq Rows
  BY RowNumbers
<1>2. call \in Calls(subject, Rows)
  BY <1>1, CallsGrow
<1> QED BY <1>2 DEF TradeTypes

LEMMA QueueInit == ASSUME TradeTypes, Init PROVE QueueInv
<1>1. subject \in Subjects /\ docs = << >>
  BY DEF Init
<1>2. docs \in Seq(Row) /\ Len(docs) = 0 /\ Len(docs) <= MaxDocs[subject]
  BY <1>1 DEF TradeTypes
<1>3. DOMAIN requests = Keys /\ DOMAIN ran = Keys /\ DOMAIN answers = Keys /\ DOMAIN txn = Workers
  BY DEF Init
<1>4. \A k \in Keys : Accounted(k)
  BY DEF Init, Accounted
<1>5. \A w \in Workers : ~Busy(w)
  BY DEF Init, Busy, Idle
<1> QED BY <1>1, <1>2, <1>3, <1>4, <1>5 DEF QueueInv

LEMMA QueueBegin ==
  ASSUME TradeTypes, QueueInv, NEW w \in Workers, Begin(w) PROVE QueueInv'
<1>1. subject' = subject /\ docs' = docs
  BY DEF Begin
<1>2. PICK call \in Calls(subject, DOMAIN docs), key \in Keys \cup {NoKey} : Serve(w, call, key, NoRequest)
  BY DEF Begin
<1>3. DOMAIN requests' = Keys /\ DOMAIN ran' = Keys /\ DOMAIN answers' = Keys /\ DOMAIN txn' = Workers
  BY <1>2 DEF Begin, Serve, QueueInv
<1>4. \A k \in Keys : IF InFlight(k) THEN requests'[k] = requests[k] /\ ran'[k] = ran[k] /\ answers'[k] = answers[k]
                      ELSE requests'[k] = NoRequest /\ ran'[k] = 0 /\ answers'[k] = {}
  BY DEF Begin
<1>5. ASSUME NEW k \in Keys PROVE Accounted(k)'
  BY <1>1, <1>4 DEF Accounted, QueueInv
<1>6. ASSUME NEW v \in Workers, Busy(v)' PROVE Served(txn[v])'
  <2>1. CASE v = w
    <3>1. txn'[v] = [call |-> call, key |-> key, seen |-> docs, known |-> NoRequest]
      BY <1>2, <2>1 DEF Serve, QueueInv
    <3>2. DOMAIN docs = 1..Len(docs)
      BY DEF QueueInv
    <3> QED BY <1>1, <1>2, <3>1, <3>2 DEF Served, QueueInv
  <2>2. CASE v # w
    <3>1. txn'[v] = txn[v]
      BY <1>2, <2>2 DEF Serve, QueueInv
    <3>2. Busy(v) /\ Served(txn[v])
      BY <1>6, <3>1 DEF Busy, QueueInv
    <3>3. txn[v].key \in Keys => requests'[txn[v].key] = requests[txn[v].key]
      BY <1>4 DEF InFlight
    <3> QED BY <1>1, <3>1, <3>2, <3>3 DEF Served
  <2> QED BY <2>1, <2>2
<1> QED BY <1>1, <1>3, <1>5, <1>6 DEF QueueInv

LEMMA QueueRetry ==
  ASSUME TradeTypes, QueueInv, NEW w \in Workers, Retry(w) PROVE QueueInv'
<1>1. subject' = subject /\ docs' = docs /\ requests' = requests /\ ran' = ran /\ answers' = answers
  BY DEF Retry
<1>2. PICK key \in Keys, call \in Calls(subject, DOMAIN docs) : Serve(w, call, key, requests[key])
  BY DEF Retry
<1>3. DOMAIN txn' = Workers
  BY <1>2 DEF Serve, QueueInv
<1>4. ASSUME NEW k \in Keys PROVE Accounted(k)'
  BY <1>1 DEF Accounted, QueueInv
<1>5. ASSUME NEW v \in Workers, Busy(v)' PROVE Served(txn[v])'
  <2>1. CASE v = w
    <3>1. txn'[v] = [call |-> call, key |-> key, seen |-> docs, known |-> requests[key]]
      BY <1>2, <2>1 DEF Serve, QueueInv
    <3>2. DOMAIN docs = 1..Len(docs)
      BY DEF QueueInv
    <3> QED BY <1>1, <1>2, <3>1, <3>2 DEF Served, QueueInv
  <2>2. CASE v # w
    <3>1. txn'[v] = txn[v]
      BY <1>2, <2>2 DEF Serve, QueueInv
    <3>2. Busy(v) /\ Served(txn[v])
      BY <1>5, <3>1 DEF Busy, QueueInv
    <3> QED BY <1>1, <3>1, <3>2 DEF Served
  <2> QED BY <2>1, <2>2
<1> QED BY <1>1, <1>3, <1>4, <1>5 DEF QueueInv

LEMMA QueueFinish ==
  ASSUME TradeTypes, QueueInv, NEW w \in Workers, Finish(w) PROVE QueueInv'
<1> DEFINE key == txn[w].key
           call == txn[w].call
<1>1. Busy(w) /\ ~Taken(key) /\ subject' = subject
  BY DEF Finish
<1>2. Served(txn[w])
  BY <1>1 DEF QueueInv
<1>3. PICK r \in Effects(call, docs, txn[w].seen) :
        /\ Len(r.docs) <= MaxDocs[subject] /\ docs' = r.docs
        /\ IF key = NoKey THEN requests' = requests /\ ran' = ran /\ answers' = answers
           ELSE /\ requests' = [requests EXCEPT ![key] = [call |-> call, answer |-> <<r.row, r.status>>]]
                /\ ran' = [ran EXCEPT ![key] = @ + 1]
                /\ answers' = [answers EXCEPT ![key] = @ \cup {<<r.row, r.status>>}]
  BY DEF Finish
<1>4. txn' = [txn EXCEPT ![w] = Idle]
  BY DEF Finish
<1>5. docs' \in Seq(Row) /\ Len(docs') \in Nat /\ Len(docs') >= Len(docs) /\ Len(docs) \in Nat
  BY <1>2, <1>3, EffectsType DEF Served, QueueInv
<1>6. 1..Len(docs) \subseteq 1..Len(docs')
  BY <1>5
<1>7. Calls(subject, 1..Len(docs)) \subseteq Calls(subject, 1..Len(docs'))
  BY <1>6, CallsGrow DEF QueueInv
<1>8. call \in Calls(subject, 1..Len(docs))
  <2>1. 1..Len(txn[w].seen) \subseteq 1..Len(docs)
    BY <1>2, <1>5 DEF Served
  <2> QED BY <1>2, <2>1, CallsGrow DEF Served, QueueInv
<1>9. key \in Keys => requests[key] = NoRequest /\ ran[key] = 0 /\ answers[key] = {}
  <2> HAVE key \in Keys
  <2>1. requests[key] = NoRequest
    BY <1>1 DEF Taken
  <2>2. requests[key].call = NoCall
    BY <2>1 DEF NoRequest
  <2>3. \A c \in Calls(subject, 1..Len(docs)) : c # NoCall
    BY <1>5, CallIsCall DEF QueueInv
  <2> QED BY <2>1, <2>2, <2>3 DEF QueueInv, Accounted
<1>10. DOMAIN requests' = Keys /\ DOMAIN ran' = Keys /\ DOMAIN answers' = Keys /\ DOMAIN txn' = Workers
  BY <1>3, <1>4 DEF QueueInv
<1>11. ASSUME NEW k \in Keys PROVE Accounted(k)'
  <2>1. CASE k = key /\ key # NoKey
    <3>1. requests'[k] = [call |-> call, answer |-> <<r.row, r.status>>]
      BY <1>3, <2>1 DEF QueueInv
    <3>2. ran'[k] = 1
      BY <1>3, <1>9, <2>1 DEF QueueInv
    <3>3. answers'[k] = {<<r.row, r.status>>}
      BY <1>3, <1>9, <2>1 DEF QueueInv
    <3>4. requests'[k].call = call /\ requests'[k].answer = <<r.row, r.status>>
      BY <3>1
    <3> QED BY <1>1, <1>7, <1>8, <3>2, <3>3, <3>4 DEF Accounted
  <2>2. CASE ~(k = key /\ key # NoKey)
    <3>1. requests'[k] = requests[k] /\ ran'[k] = ran[k] /\ answers'[k] = answers[k]
      BY <1>3, <2>2 DEF QueueInv
    <3> QED BY <1>1, <1>7, <3>1 DEF Accounted, QueueInv
  <2> QED BY <2>1, <2>2
<1>12. ASSUME NEW v \in Workers, Busy(v)' PROVE Served(txn[v])'
  <2>1. v # w
    BY <1>4, <1>12 DEF Busy, Idle, QueueInv
  <2>2. txn'[v] = txn[v]
    BY <1>4, <2>1 DEF QueueInv
  <2>3. Busy(v) /\ Served(txn[v])
    BY <1>12, <2>2 DEF Busy, QueueInv
  <2>4. txn[v].known # NoRequest => requests'[txn[v].key] = requests[txn[v].key]
    BY <1>3, <1>9, <2>3 DEF Served, QueueInv
  <2>5. Len(txn[v].seen) <= Len(docs')
    BY <1>5, <2>3 DEF Served
  <2> QED BY <1>1, <2>2, <2>3, <2>4, <2>5 DEF Served
<1> QED BY <1>1, <1>3, <1>5, <1>10, <1>11, <1>12 DEF QueueInv

LEMMA QueueReplay ==
  ASSUME TradeTypes, QueueInv, NEW w \in Workers, Replay(w) PROVE QueueInv'
<1>1. subject' = subject /\ docs' = docs /\ requests' = requests /\ ran' = ran
  BY DEF Replay
<1>2. Busy(w) /\ txn[w].known # NoRequest
  BY DEF Replay
<1>3. txn[w].key \in Keys /\ txn[w].known = requests[txn[w].key]
  BY <1>2 DEF Served, QueueInv
<1>4. answers' = [answers EXCEPT ![txn[w].key] = @ \cup {requests[txn[w].key].answer}] /\ txn' = [txn EXCEPT ![w] = Idle]
  BY <1>3 DEF Replay
<1>5. DOMAIN answers' = Keys /\ DOMAIN txn' = Workers
  BY <1>4 DEF QueueInv
<1>6. ASSUME NEW k \in Keys PROVE Accounted(k)'
  <2>1. CASE k = txn[w].key
    <3>1. answers'[k] = answers[k] \cup {requests[k].answer}
      BY <1>4, <2>1 DEF QueueInv
    <3>2. requests[k] # NoRequest
      BY <1>2, <1>3, <2>1
    <3> QED BY <1>1, <3>1, <3>2 DEF Accounted, QueueInv
  <2>2. CASE k # txn[w].key
    <3>1. answers'[k] = answers[k]
      BY <1>4, <2>2 DEF QueueInv
    <3> QED BY <1>1, <3>1 DEF Accounted, QueueInv
  <2> QED BY <2>1, <2>2
<1>7. ASSUME NEW v \in Workers, Busy(v)' PROVE Served(txn[v])'
  <2>1. v # w
    BY <1>4, <1>7 DEF Busy, Idle, QueueInv
  <2>2. txn'[v] = txn[v]
    BY <1>4, <2>1 DEF QueueInv
  <2>3. Busy(v) /\ Served(txn[v])
    BY <1>7, <2>2 DEF Busy, QueueInv
  <2> QED BY <1>1, <2>2, <2>3 DEF Served
<1> QED BY <1>1, <1>5, <1>6, <1>7 DEF QueueInv

LEMMA QueueGiveUp ==
  ASSUME TradeTypes, QueueInv, NEW w \in Workers, GiveUp(w) PROVE QueueInv'
<1>1. subject' = subject /\ docs' = docs /\ requests' = requests /\ ran' = ran /\ answers' = answers
  BY DEF GiveUp
<1>2. txn' = [txn EXCEPT ![w] = Idle]
  BY DEF GiveUp
<1>3. DOMAIN txn' = Workers
  BY <1>2 DEF QueueInv
<1>4. ASSUME NEW k \in Keys PROVE Accounted(k)'
  BY <1>1 DEF Accounted, QueueInv
<1>5. ASSUME NEW v \in Workers, Busy(v)' PROVE Served(txn[v])'
  <2>1. v # w
    BY <1>2, <1>5 DEF Busy, Idle, QueueInv
  <2>2. txn'[v] = txn[v]
    BY <1>2, <2>1 DEF QueueInv
  <2>3. Busy(v) /\ Served(txn[v])
    BY <1>5, <2>2 DEF Busy, QueueInv
  <2> QED BY <1>1, <2>2, <2>3 DEF Served
<1> QED BY <1>1, <1>3, <1>4, <1>5 DEF QueueInv

LEMMA QueueDesk ==
  ASSUME TradeTypes, QueueInv, NEW i \in DOMAIN docs, Desk(i) PROVE QueueInv'
<1>1. subject' = subject /\ requests' = requests /\ ran' = ran /\ answers' = answers /\ txn' = txn
  BY DEF Desk
<1>2. docs \in Seq(Row) /\ i \in 1..Len(docs)
  BY DEF QueueInv
<1>3. Puts(docs, docs', i, [docs[i] EXCEPT !.status = "Submitted"])
  BY <1>2, PutsStatus, StatusNames DEF Desk
<1>4. docs' \in Seq(Row) /\ Len(docs') = Len(docs)
  BY <1>3 DEF Puts
<1>5. \A k \in Keys : Accounted(k)'
  BY <1>1, <1>4 DEF Accounted, QueueInv
<1>6. \A v \in Workers : Busy(v)' => Served(txn[v])'
  BY <1>1, <1>4 DEF Busy, Served, QueueInv
<1> QED BY <1>1, <1>4, <1>5, <1>6 DEF QueueInv

LEMMA QueueIdle ==
  ASSUME QueueInv, UNCHANGED vars PROVE QueueInv'
BY DEF QueueInv, Accounted, Served, Busy, vars

LEMMA QueueNext ==
  ASSUME TradeTypes, QueueInv, [Next]_vars PROVE QueueInv'
<1>1. CASE \E w \in Workers : Begin(w) \/ Retry(w) \/ Finish(w) \/ Replay(w) \/ GiveUp(w)
  BY <1>1, QueueBegin, QueueRetry, QueueFinish, QueueReplay, QueueGiveUp
<1>2. CASE \E i \in DOMAIN docs : Desk(i)
  BY <1>2, QueueDesk
<1>3. CASE UNCHANGED vars
  BY <1>3, QueueIdle
<1> QED BY <1>1, <1>2, <1>3 DEF Next

LEMMA QueueHolds == ASSUME TradeTypes PROVE Spec => []QueueInv
<1>1. Init => QueueInv
  BY QueueInit
<1>2. QueueInv /\ [Next]_vars => QueueInv'
  BY QueueNext
<1> QED BY <1>1, <1>2, PTL DEF Spec

LEMMA QueueTypes == ASSUME TradeTypes, QueueInv PROVE TypeOK
<1>1. Len(docs) \in Nat /\ 1..Len(docs) \subseteq Rows
  BY RowNumbers DEF QueueInv
<1>2. Calls(subject, 1..Len(docs)) \subseteq Calls(subject, Rows)
  BY <1>1, CallsGrow DEF QueueInv
<1>3. NoRequest.call = NoCall
  BY DEF NoRequest
<1>4. \A k \in Keys : requests[k].call \in Calls(subject, Rows) \cup {NoCall} /\ ran[k] \in Nat
  BY <1>2, <1>3 DEF Accounted, QueueInv
<1> QED BY <1>4 DEF TypeOK, QueueInv

\* A write of any of these papers is executed at most once under the key its
\* client gave it, whatever other processes do meanwhile, and every answer to
\* the key is the one of that execution (mutation_queue.py).
THEOREM ExecutedOnceHolds == ASSUME TradeTypes PROVE Spec => []ExecutedOnce
<1>1. QueueInv => ExecutedOnce
  <2> HAVE QueueInv
  <2>1. TypeOK
    BY QueueTypes
  <2>2. \A k \in Keys : ran[k] <= 1 /\ answers[k] \subseteq {requests[k].answer}
    BY DEF QueueInv, Accounted
  <2> QED BY <2>1, <2>2 DEF ExecutedOnce
<1> QED BY <1>1, QueueHolds, PTL

-----------------------------------------------------------------------------
(* Vouchers and their journal entries.                                     *)

\* What a row was made from was there before it.
Backward(d) == \A j \in 1..Len(d) : \A i \in d[j].of : i \in 1..Len(d)

LEMMA AddsBackward ==
  ASSUME NEW d \in Seq(Row), Backward(d), NEW x, NEW row, Adds(d, x, row),
         \A i \in row.of : i \in 1..Len(d)
  PROVE  Backward(x)
<1>1. Len(x) = Len(d) + 1 /\ x[Len(d) + 1] = row /\ \A j \in 1..Len(d) : x[j] = d[j]
  BY DEF Adds
<1>2. \A i : i \in 1..Len(d) => i \in 1..Len(x)
  BY <1>1
<1> SUFFICES ASSUME NEW j \in 1..Len(x), NEW i \in x[j].of PROVE i \in 1..Len(x)
  BY DEF Backward
<1>3. CASE j = Len(d) + 1
  BY <1>1, <1>2, <1>3
<1>4. CASE j # Len(d) + 1
  <2>1. j \in 1..Len(d)
    BY <1>1, <1>4
  <2>2. i \in d[j].of
    BY <1>1, <2>1
  <2>3. i \in 1..Len(d)
    BY <2>1, <2>2, Zenon DEF Backward
  <2> QED BY <1>2, <2>3
<1> QED BY <1>3, <1>4

LEMMA NextIsNew ==
  ASSUME NEW d \in Seq(Row), Backward(d) PROVE \A j \in 1..Len(d) : Len(d) + 1 \notin d[j].of
<1>1. ~(Len(d) + 1 \in 1..Len(d))
  OBVIOUS
<1> QED BY <1>1, Zenon DEF Backward

Journal(d, j, i) == j \in 1..Len(d) /\ d[j].kind = "Journal Entry" /\ d[j].of = {i}

\* Journal entries are those of the approved vouchers, one each, with their lines.
Posted(d) ==
  /\ Backward(d)
  /\ \A i \in 1..Len(d) : d[i].kind = "Voucher" \/ d[i].kind = "Journal Entry"
  /\ \A i \in 1..Len(d) : d[i].kind = "Voucher" /\ d[i].status = "Approved" =>
       \E j \in 1..Len(d) :
         /\ Journal(d, j, i) /\ d[j].entry = d[i].entry
         /\ \A k \in 1..Len(d) : Journal(d, k, i) => k = j
  /\ \A i \in 1..Len(d) : d[i].kind = "Voucher" /\ d[i].status # "Approved" =>
       \A k \in 1..Len(d) : ~Journal(d, k, i)

LEMMA DraftsPosted ==
  ASSUME NEW d \in Seq(Row), Posted(d), NEW x, Drafts(d, x) PROVE Posted(x)
<1>1. PICK row \in Row : Adds(d, x, row) /\ row.kind = "Voucher" /\ row.status = "Draft" /\ row.of = {}
  BY Zenon DEF Drafts
<1> DEFINE n == Len(d) + 1
<1>2. x \in Seq(Row) /\ Len(x) = n /\ x[n] = row /\ \A j \in 1..Len(d) : x[j] = d[j]
  BY <1>1 DEF Adds
<1>3. Len(d) \in Nat /\ \A j \in 1..n : j \in 1..Len(d) \/ j = n
  OBVIOUS
<1>4. Backward(x)
  <2>1. Backward(d) /\ \A i \in row.of : i \in 1..Len(d)
    BY <1>1 DEF Posted
  <2> QED BY <1>1, <2>1, AddsBackward
<1>5. \A i \in 1..n : x[i].kind = "Voucher" \/ x[i].kind = "Journal Entry"
  BY <1>1, <1>2, <1>3 DEF Posted
<1>6. \A k \in 1..n, i \in 1..n : Journal(x, k, i) <=> i # n /\ Journal(d, k, i)
  <2>1. \A k \in 1..Len(d) : n \notin d[k].of
    BY NextIsNew DEF Posted
  <2> QED BY <1>1, <1>2, <1>3, <2>1 DEF Journal
<1>7. \A i \in 1..n : x[i].kind = "Voucher" /\ x[i].status = "Approved" =>
        \E j \in 1..n : /\ Journal(x, j, i) /\ x[j].entry = x[i].entry
                        /\ \A k \in 1..n : Journal(x, k, i) => k = j
  <2> SUFFICES ASSUME NEW i \in 1..n, x[i].kind = "Voucher", x[i].status = "Approved"
               PROVE  \E j \in 1..n : /\ Journal(x, j, i) /\ x[j].entry = x[i].entry
                                      /\ \A k \in 1..n : Journal(x, k, i) => k = j
    OBVIOUS
  <2>1. i \in 1..Len(d) /\ x[i] = d[i]
    BY <1>1, <1>2, <1>3
  <2>2. PICK j \in 1..Len(d) : /\ Journal(d, j, i) /\ d[j].entry = d[i].entry
                               /\ \A k \in 1..Len(d) : Journal(d, k, i) => k = j
    BY <2>1 DEF Posted
  <2>3. \A k \in 1..n : Journal(d, k, i) => k \in 1..Len(d)
    BY DEF Journal
  <2> QED BY <1>2, <1>3, <1>6, <2>1, <2>2, <2>3
<1>8. \A i \in 1..n : x[i].kind = "Voucher" /\ x[i].status # "Approved" => \A k \in 1..n : ~Journal(x, k, i)
  <2> SUFFICES ASSUME NEW i \in 1..n, x[i].kind = "Voucher", x[i].status # "Approved", NEW k \in 1..n, Journal(x, k, i)
               PROVE  FALSE
    OBVIOUS
  <2>1. i \in 1..Len(d) /\ x[i] = d[i] /\ Journal(d, k, i)
    BY <1>2, <1>3, <1>6
  <2>2. k \in 1..Len(d)
    BY <2>1 DEF Journal
  <2> QED BY <2>1, <2>2 DEF Posted
<1> QED BY <1>2, <1>4, <1>5, <1>7, <1>8 DEF Posted

LEMMA PreparesPosted ==
  ASSUME NEW d \in Seq(Row), Posted(d), NEW x, Prepares(d, x) PROVE Posted(x)
<1>1. PICK i \in 1..Len(d), row \in Row :
        /\ Puts(d, x, i, row) /\ d[i].kind = "Voucher" /\ row.kind = "Voucher" /\ row.of = d[i].of
        /\ d[i].status # "Approved" /\ row.status # "Approved"
  BY Zenon DEF Prepares
<1>2. Len(x) = Len(d) /\ x[i] = row /\ \A j \in 1..Len(d) : j # i => x[j] = d[j]
  BY <1>1 DEF Puts
<1>3. Backward(x)
  BY <1>1, <1>2 DEF Backward, Posted
<1>4. \A k, v : Journal(x, k, v) <=> Journal(d, k, v)
  BY <1>1, <1>2 DEF Journal
<1>5. \A v \in 1..Len(d) : x[v].kind = d[v].kind /\ (x[v].status = "Approved" <=> d[v].status = "Approved")
  BY <1>1, <1>2
<1>6. \A v \in 1..Len(d) : x[v].kind = "Voucher" /\ x[v].status = "Approved" =>
        \E j \in 1..Len(d) : /\ Journal(x, j, v) /\ x[j].entry = x[v].entry
                             /\ \A k \in 1..Len(d) : Journal(x, k, v) => k = j
  <2> SUFFICES ASSUME NEW v \in 1..Len(d), x[v].kind = "Voucher", x[v].status = "Approved"
               PROVE  \E j \in 1..Len(d) : /\ Journal(x, j, v) /\ x[j].entry = x[v].entry
                                           /\ \A k \in 1..Len(d) : Journal(x, k, v) => k = j
    OBVIOUS
  <2>1. PICK j \in 1..Len(d) : /\ Journal(d, j, v) /\ d[j].entry = d[v].entry
                               /\ \A k \in 1..Len(d) : Journal(d, k, v) => k = j
    BY <1>5 DEF Posted
  <2>2. j # i /\ v # i
    BY <1>1, <1>5, <2>1 DEF Journal
  <2> QED BY <1>2, <1>4, <2>1, <2>2
<1>7. \A v \in 1..Len(d) : x[v].kind = "Voucher" /\ x[v].status # "Approved" => \A k \in 1..Len(d) : ~Journal(x, k, v)
  BY <1>4, <1>5 DEF Posted
<1>8. \A v \in 1..Len(d) : x[v].kind = "Voucher" \/ x[v].kind = "Journal Entry"
  BY <1>5 DEF Posted
<1> QED BY <1>2, <1>3, <1>6, <1>7, <1>8 DEF Posted

LEMMA ApprovesPosted ==
  ASSUME NEW d \in Seq(Row), Posted(d), NEW x, Approves(d, x) PROVE Posted(x)
<1> DEFINE n == Len(d) + 1
<1>1. PICK i \in 1..Len(d), row \in Row, new \in Row, y \in Seq(Row) :
        /\ Puts(d, y, i, row) /\ Adds(y, x, new)
        /\ d[i].kind = "Voucher" /\ row.kind = "Voucher" /\ row.of = d[i].of
        /\ d[i].status # "Approved" /\ row.status = "Approved" /\ row.entry = d[i].entry
        /\ new.kind = "Journal Entry" /\ new.of = {i} /\ new.entry = d[i].entry
  BY Zenon DEF Approves
<1>2. Len(y) = Len(d) /\ y[i] = row /\ \A j \in 1..Len(d) : j # i => y[j] = d[j]
  BY <1>1 DEF Puts
<1>3. Len(x) = n /\ x[n] = new /\ x[i] = row /\ \A j \in 1..Len(d) : j # i => x[j] = d[j]
  BY <1>1, <1>2 DEF Adds
<1>4. Len(d) \in Nat /\ i \in 1..n /\ i # n /\ \A j \in 1..n : j \in 1..Len(d) \/ j = n
  OBVIOUS
<1>5. Backward(x)
  <2>1. Backward(y)
    BY ZenonT(30), <1>1, <1>2 DEF Backward, Posted
  <2>2. \A v \in new.of : v \in 1..Len(y)
    BY <1>1, <1>2
  <2> QED BY <1>1, <2>1, <2>2, AddsBackward
<1>6. \A v \in 1..n : x[v].kind = "Voucher" \/ x[v].kind = "Journal Entry"
  BY ZenonT(40), <1>1, <1>3, <1>4 DEF Posted
<1>7. \A k \in 1..n, v \in 1..n : Journal(x, k, v) <=> Journal(d, k, v) \/ (k = n /\ v = i)
  <2>1. \A k \in 1..n, v \in 1..n : k = n => (Journal(x, k, v) <=> v = i)
    BY <1>1, <1>3 DEF Journal
  <2>2. \A v : ~Journal(d, n, v)
    <3>1. ~(n \in 1..Len(d))
      OBVIOUS
    <3> QED BY <3>1, Zenon DEF Journal
  <2>3. \A k \in 1..Len(d), v \in 1..n : Journal(x, k, v) <=> Journal(d, k, v)
    <3>1. \A k \in 1..Len(d) : x[k].kind = d[k].kind /\ x[k].of = d[k].of
      BY <1>1, <1>3
    <3>2. \A k \in 1..Len(d) : k \in 1..n
      OBVIOUS
    <3> HIDE DEF n
    <3> QED BY <1>3, <3>1, <3>2 DEF Journal
  <2> QED BY <1>4, <2>1, <2>2, <2>3
<1>8. \A k : ~Journal(d, k, i)
  BY <1>1 DEF Posted, Journal
<1>9. \A v \in 1..n : x[v].kind = "Voucher" /\ x[v].status = "Approved" =>
        \E j \in 1..n : /\ Journal(x, j, v) /\ x[j].entry = x[v].entry
                        /\ \A k \in 1..n : Journal(x, k, v) => k = j
  <2> SUFFICES ASSUME NEW v \in 1..n, x[v].kind = "Voucher", x[v].status = "Approved"
               PROVE  \E j \in 1..n : /\ Journal(x, j, v) /\ x[j].entry = x[v].entry
                                      /\ \A k \in 1..n : Journal(x, k, v) => k = j
    OBVIOUS
  <2>1. CASE v = i
    <3>1. n \in 1..n /\ Journal(x, n, v)
      BY <1>4, <1>7, <2>1
    <3>2. x[n].entry = x[v].entry
      BY <1>1, <1>3, <2>1
    <3>3. \A k \in 1..n : Journal(x, k, v) => k = n
      BY <1>4, <1>7, <1>8, <2>1
    <3> QED BY <3>1, <3>2, <3>3
  <2>2. CASE v # i
    <3>1. v \in 1..Len(d) /\ x[v] = d[v]
      BY <1>1, <1>3, <1>4, <2>2
    <3>2. PICK j \in 1..Len(d) : /\ Journal(d, j, v) /\ d[j].entry = d[v].entry
                                 /\ \A k \in 1..Len(d) : Journal(d, k, v) => k = j
      BY <3>1 DEF Posted
    <3>3. j # i /\ j \in 1..n
      <4>1. d[j].kind = "Journal Entry"
        BY <3>2 DEF Journal
      <4>2. j # i
        BY <1>1, <4>1
      <4>3. j \in 1..n
        OBVIOUS
      <4> QED BY <4>2, <4>3
    <3>4. \A k : Journal(d, k, v) => k \in 1..Len(d)
      BY DEF Journal
    <3>5. x[j].entry = x[v].entry
      BY <1>3, <3>1, <3>2, <3>3
    <3> QED BY <1>7, <2>2, <3>2, <3>3, <3>4, <3>5
  <2> QED BY <2>1, <2>2
<1>10. \A v \in 1..n : x[v].kind = "Voucher" /\ x[v].status # "Approved" => \A k \in 1..n : ~Journal(x, k, v)
  <2> SUFFICES ASSUME NEW v \in 1..n, x[v].kind = "Voucher", x[v].status # "Approved", NEW k \in 1..n, Journal(x, k, v)
               PROVE  FALSE
    OBVIOUS
  <2>1. v # i /\ v # n
    BY <1>1, <1>3
  <2>2. v \in 1..Len(d) /\ x[v] = d[v] /\ Journal(d, k, v)
    BY <1>3, <1>4, <1>7, <2>1
  <2>3. k \in 1..Len(d)
    BY <2>2 DEF Journal
  <2> QED BY <2>2, <2>3 DEF Posted
<1> QED BY <1>3, <1>5, <1>6, <1>9, <1>10 DEF Posted

-----------------------------------------------------------------------------
(* The till.                                                               *)

Session(d, i, user) ==
  i \in 1..Len(d) /\ d[i].kind = "Opening" /\ d[i].status = "Open" /\ d[i].by = user

Takes(d, c, j) == c \in 1..Len(d) /\ d[c].kind = "Closing" /\ j \in d[c].of

\* Taken in by one closing, with no session left that would take it in again.
TakenOnce(d, j) ==
  /\ \E c \in 1..Len(d) : Takes(d, c, j) /\ \A k \in 1..Len(d) : Takes(d, k, j) => k = c
  /\ \A i \in 1..Len(d) : Session(d, i, d[j].by) => ~(i < j)

\* Sold in a session that is open.
Untaken(d, j) ==
  /\ \A c \in 1..Len(d) : ~Takes(d, c, j)
  /\ \E i \in 1..Len(d) : Session(d, i, d[j].by) /\ i < j

Cashed(d) ==
  /\ Backward(d)
  /\ \A i \in 1..Len(d) : d[i].kind = "Opening" \/ d[i].kind = "POS Invoice" \/ d[i].kind = "Closing"
  /\ \A i \in 1..Len(d), j \in 1..Len(d) : Session(d, i, d[i].by) /\ Session(d, j, d[i].by) => i = j
  /\ \A j \in 1..Len(d) : d[j].kind = "POS Invoice" => TakenOnce(d, j) \/ Untaken(d, j)

\* A cashier who has no session opens one: what was sold before is not its.
LEMMA OpensCashed ==
  ASSUME NEW d \in Seq(Row), Cashed(d), NEW x, Opens(d, x, d) PROVE Cashed(x)
<1> DEFINE n == Len(d) + 1
<1>1. PICK row \in Row :
        /\ Adds(d, x, row) /\ row.kind = "Opening" /\ row.status = "Open" /\ row.of = {}
        /\ OpenSessions(d, row.by) = {}
  BY Zenon DEF Opens
<1>2. Len(x) = n /\ x[n] = row /\ \A j \in 1..Len(d) : x[j] = d[j]
  BY <1>1 DEF Adds
<1>3. n \in 1..n /\ \A j \in 1..n : j \in 1..Len(d) \/ j = n
  OBVIOUS
<1>4. \A j \in 1..Len(d) : j \in 1..n /\ j # n /\ ~(n < j)
  OBVIOUS
<1>5. Backward(x)
  BY <1>1, AddsBackward DEF Cashed
<1>6. \A i : ~Session(d, i, row.by)
  BY <1>1, OpenAt DEF Session
<1> HIDE DEF n
<1>7. \A user : \A i \in 1..n : Session(x, i, user) <=> (i = n /\ user = row.by) \/ Session(d, i, user)
  BY <1>1, <1>2, <1>3, <1>4 DEF Session
<1>8. \A j : \A c \in 1..n : Takes(x, c, j) <=> Takes(d, c, j)
  BY <1>1, <1>2, <1>3, <1>4 DEF Takes
<1>9. \A i \in 1..n : x[i].kind = "Opening" \/ x[i].kind = "POS Invoice" \/ x[i].kind = "Closing"
  BY <1>1, <1>2, <1>3 DEF Cashed
<1>10. \A i, j : i \in 1..Len(d) /\ Session(d, i, d[i].by) /\ Session(d, j, d[i].by) => i = j
  <2>1. \A i, user : Session(d, i, user) => i \in 1..Len(d)
    BY DEF Session
  <2> QED BY <2>1 DEF Cashed
<1>11. \A i \in 1..n, j \in 1..n : Session(x, i, x[i].by) /\ Session(x, j, x[i].by) => i = j
  <2> SUFFICES ASSUME NEW i \in 1..n, NEW j \in 1..n, Session(x, i, x[i].by), Session(x, j, x[i].by) PROVE i = j
    OBVIOUS
  <2>1. CASE i = n
    BY <1>2, <1>6, <1>7, <2>1
  <2>2. CASE i # n
    <3>1. i \in 1..Len(d) /\ x[i] = d[i]
      BY <1>2, <1>3, <2>2
    <3>2. Session(d, i, d[i].by)
      BY <1>7, <2>2, <3>1
    <3>3. Session(d, j, d[i].by)
      <4>1. (j = n /\ d[i].by = row.by) \/ Session(d, j, d[i].by)
        BY <1>7, <3>1
      <4> QED BY <1>6, <3>2, <4>1
    <3> QED BY <1>10, <3>1, <3>2, <3>3
  <2> QED BY <2>1, <2>2
<1>12. ASSUME NEW j \in 1..n, x[j].kind = "POS Invoice" PROVE TakenOnce(x, j) \/ Untaken(x, j)
  <2>1. j \in 1..Len(d) /\ x[j] = d[j] /\ d[j].kind = "POS Invoice"
    BY <1>1, <1>2, <1>3, <1>12
  <2>2. \A i \in 1..n : Session(x, i, d[j].by) => (i = n /\ ~(i < j)) \/ (i \in 1..Len(d) /\ Session(d, i, d[j].by))
    <3> TAKE i \in 1..n
    <3> HAVE Session(x, i, d[j].by)
    <3>1. i = n \/ Session(d, i, d[j].by)
      BY <1>7
    <3> QED BY <1>4, <2>1, <3>1 DEF Session
  <2>3. TakenOnce(d, j) => TakenOnce(x, j)
    <3> HAVE TakenOnce(d, j)
    <3>1. PICK c \in 1..Len(d) : Takes(d, c, j) /\ \A k \in 1..Len(d) : Takes(d, k, j) => k = c
      BY DEF TakenOnce
    <3>2. \A k : Takes(d, k, j) => k \in 1..Len(d)
      BY DEF Takes
    <3>3. \E e \in 1..Len(x) : Takes(x, e, j) /\ \A k \in 1..Len(x) : Takes(x, k, j) => k = e
      BY <1>2, <1>4, <1>8, <3>1, <3>2
    <3>4. \A i \in 1..Len(x) : Session(x, i, x[j].by) => ~(i < j)
      BY <1>2, <2>1, <2>2 DEF TakenOnce
    <3> QED BY <3>3, <3>4 DEF TakenOnce
  <2>4. Untaken(d, j) => Untaken(x, j)
    <3> HAVE Untaken(d, j)
    <3>1. PICK i \in 1..Len(d) : Session(d, i, d[j].by) /\ i < j
      BY DEF Untaken
    <3>2. \E s \in 1..Len(x) : Session(x, s, x[j].by) /\ s < j
      BY <1>2, <1>4, <1>7, <2>1, <3>1
    <3>3. \A c \in 1..Len(x) : ~Takes(x, c, j)
      BY <1>2, <1>8 DEF Untaken, Takes
    <3> QED BY <3>2, <3>3 DEF Untaken
  <2> QED BY <2>1, <2>3, <2>4 DEF Cashed
<1> QED BY <1>2, <1>5, <1>9, <1>11, <1>12 DEF Cashed

\* What is sold in a session is untaken until it is closed.
LEMMA SellsCashed ==
  ASSUME NEW d \in Seq(Row), Cashed(d), NEW x, Sells(d, x, d) PROVE Cashed(x)
<1> DEFINE n == Len(d) + 1
<1>1. PICK row \in Row :
        Adds(d, x, row) /\ row.kind = "POS Invoice" /\ row.of = {} /\ OpenSessions(d, row.by) # {}
  BY Zenon DEF Sells
<1>2. Len(x) = n /\ x[n] = row /\ \A j \in 1..Len(d) : x[j] = d[j]
  BY <1>1 DEF Adds
<1>3. n \in 1..n /\ \A j \in 1..n : j \in 1..Len(d) \/ j = n
  OBVIOUS
<1>4. \A j \in 1..Len(d) : j \in 1..n /\ j # n /\ j < n
  OBVIOUS
<1>5. Backward(x)
  BY <1>1, AddsBackward DEF Cashed
<1>6. \E i \in 1..Len(d) : Session(d, i, row.by)
  <2>1. PICK i : i \in OpenSessions(d, row.by)
    BY <1>1
  <2> QED BY <2>1, OpenAt DEF Session
<1>7. \A c \in 1..Len(d) : ~Takes(d, c, n)
  BY NextIsNew DEF Cashed, Takes
<1> HIDE DEF n
<1>8. \A user : \A i \in 1..n : Session(x, i, user) <=> Session(d, i, user)
  BY <1>1, <1>2, <1>3, <1>4 DEF Session
<1>9. \A j : \A c \in 1..n : Takes(x, c, j) <=> Takes(d, c, j)
  BY <1>1, <1>2, <1>3, <1>4 DEF Takes
<1>10. \A i \in 1..n : x[i].kind = "Opening" \/ x[i].kind = "POS Invoice" \/ x[i].kind = "Closing"
  BY <1>1, <1>2, <1>3 DEF Cashed
<1>11. \A i \in 1..n, j \in 1..n : Session(x, i, x[i].by) /\ Session(x, j, x[i].by) => i = j
  <2> SUFFICES ASSUME NEW i \in 1..n, NEW j \in 1..n, Session(x, i, x[i].by), Session(x, j, x[i].by) PROVE i = j
    OBVIOUS
  <2>1. Session(d, i, x[i].by) /\ Session(d, j, x[i].by)
    BY <1>8
  <2>2. i \in 1..Len(d) /\ j \in 1..Len(d)
    BY <2>1 DEF Session
  <2>3. x[i] = d[i]
    BY <1>2, <2>2
  <2> QED BY <2>1, <2>2, <2>3 DEF Cashed
<1>12. \A k, j : Takes(d, k, j) => k \in 1..Len(d)
  BY DEF Takes
<1>13. ASSUME NEW j \in 1..n, x[j].kind = "POS Invoice" PROVE TakenOnce(x, j) \/ Untaken(x, j)
  <2>1. CASE j = n
    <3>1. \A c \in 1..Len(x) : ~Takes(x, c, j)
      BY <1>2, <1>7, <1>9, <1>12, <2>1
    <3>2. \E i \in 1..Len(x) : Session(x, i, x[j].by) /\ i < j
      BY <1>2, <1>4, <1>6, <1>8, <2>1
    <3> QED BY <3>1, <3>2 DEF Untaken
  <2>2. CASE j # n
    <3>1. j \in 1..Len(d) /\ x[j] = d[j] /\ d[j].kind = "POS Invoice"
      BY <1>2, <1>3, <1>13, <2>2
    <3>2. TakenOnce(d, j) => TakenOnce(x, j)
      <4> HAVE TakenOnce(d, j)
      <4>1. PICK c \in 1..Len(d) : Takes(d, c, j) /\ \A k \in 1..Len(d) : Takes(d, k, j) => k = c
        BY DEF TakenOnce
      <4>2. \E e \in 1..Len(x) : Takes(x, e, j) /\ \A k \in 1..Len(x) : Takes(x, k, j) => k = e
        BY <1>2, <1>4, <1>9, <1>12, <4>1
      <4>3. \A i \in 1..Len(x) : Session(x, i, x[j].by) => ~(i < j)
        <5>1. \A i : Session(d, i, d[j].by) => ~(i < j)
          BY DEF TakenOnce, Session
        <5> QED BY <1>2, <1>8, <3>1, <5>1
      <4> QED BY <4>2, <4>3 DEF TakenOnce
    <3>3. Untaken(d, j) => Untaken(x, j)
      <4> HAVE Untaken(d, j)
      <4>1. PICK i \in 1..Len(d) : Session(d, i, d[j].by) /\ i < j
        BY DEF Untaken
      <4>2. \E s \in 1..Len(x) : Session(x, s, x[j].by) /\ s < j
        BY <1>2, <1>4, <1>8, <3>1, <4>1
      <4>3. \A c \in 1..Len(x) : ~Takes(x, c, j)
        BY <1>2, <1>9, <1>12 DEF Untaken
      <4> QED BY <4>2, <4>3 DEF Untaken
    <3> QED BY <3>1, <3>2, <3>3 DEF Cashed
  <2> QED BY <2>1, <2>2
<1> QED BY <1>2, <1>5, <1>10, <1>11, <1>13 DEF Cashed

\* A session closed takes in what its cashier sold since it was opened.
LEMMA ClosesCashed ==
  ASSUME NEW d \in Seq(Row), Cashed(d), NEW x, Closes(d, x, d) PROVE Cashed(x)
<1> DEFINE n == Len(d) + 1
<1>1. PICK i \in 1..Len(d), row \in Row, new \in Row, y \in Seq(Row) :
        /\ Puts(d, y, i, row) /\ Adds(y, x, new)
        /\ d[i].kind = "Opening" /\ d[i].status = "Open"
        /\ row.kind = "Opening" /\ row.status = "Closed" /\ row.of = d[i].of /\ row.by = d[i].by
        /\ new.kind = "Closing" /\ new.of = {i} \cup InvoicesOf(d, i)
  BY Zenon DEF Closes
<1>2. Len(y) = Len(d) /\ y[i] = row /\ \A j \in 1..Len(d) : j # i => y[j] = d[j]
  BY <1>1 DEF Puts
<1>3. Len(x) = n /\ x[n] = new /\ x[i] = row /\ \A j \in 1..Len(d) : j # i => x[j] = d[j]
  BY <1>1, <1>2 DEF Adds
<1>4. n \in 1..n /\ \A j \in 1..n : j \in 1..Len(d) \/ j = n
  OBVIOUS
<1>5. \A j \in 1..Len(d) : j \in 1..n /\ j # n
  OBVIOUS
<1>6. \A j : j \in new.of <=> j = i \/ (j \in 1..Len(d) /\ j > i /\ d[j].kind = "POS Invoice" /\ d[j].by = d[i].by)
  BY <1>1, InvoiceAt
<1>7. Backward(x)
  <2>1. Backward(y)
    BY <1>1, <1>2 DEF Backward, Cashed
  <2>2. \A j \in new.of : j \in 1..Len(y)
    BY <1>2, <1>6
  <2> QED BY <1>1, <2>1, <2>2, AddsBackward
<1> HIDE DEF n
<1>8. \A user : \A s \in 1..n : Session(x, s, user) <=> s # i /\ Session(d, s, user)
  BY <1>1, <1>3, <1>4, <1>5 DEF Session
<1>9. \A j : \A c \in 1..n : Takes(x, c, j) <=> (c = n /\ j \in new.of) \/ Takes(d, c, j)
  BY <1>1, <1>3, <1>4, <1>5 DEF Takes
<1>10. \A k, j : Takes(d, k, j) => k \in 1..Len(d)
  BY DEF Takes
<1>11. \A s \in 1..n : x[s].kind = "Opening" \/ x[s].kind = "POS Invoice" \/ x[s].kind = "Closing"
  BY <1>1, <1>3, <1>4 DEF Cashed
<1>12. \A user, s : Session(d, s, user) => s \in 1..Len(d) /\ d[s].by = user
  BY DEF Session
<1>13. \A s : Session(d, s, d[i].by) => s = i
  <2>1. Session(d, i, d[i].by)
    BY <1>1 DEF Session
  <2> QED BY <1>12, <2>1 DEF Cashed
<1>14. \A s \in 1..n, j \in 1..n : Session(x, s, x[s].by) /\ Session(x, j, x[s].by) => s = j
  <2> SUFFICES ASSUME NEW s \in 1..n, NEW j \in 1..n, Session(x, s, x[s].by), Session(x, j, x[s].by) PROVE s = j
    OBVIOUS
  <2>1. s # i /\ Session(d, s, x[s].by) /\ Session(d, j, x[s].by)
    BY <1>8
  <2>2. s \in 1..Len(d) /\ j \in 1..Len(d)
    BY <1>12, <2>1
  <2>3. x[s] = d[s]
    BY <1>3, <2>1, <2>2
  <2> QED BY <2>1, <2>2, <2>3 DEF Cashed
<1>15. ASSUME NEW j \in 1..n, x[j].kind = "POS Invoice" PROVE TakenOnce(x, j) \/ Untaken(x, j)
  <2>1. j \in 1..Len(d) /\ j # i /\ x[j] = d[j] /\ d[j].kind = "POS Invoice"
    BY <1>1, <1>3, <1>4, <1>15
  <2>2. CASE TakenOnce(d, j)
    <3>1. j \notin new.of
      <4>1. Session(d, i, d[i].by)
        BY <1>1 DEF Session
      <4>2. d[j].by = d[i].by => ~(i < j)
        BY <2>2, <4>1 DEF TakenOnce
      <4> QED BY <1>6, <2>1, <4>2
    <3>2. PICK c \in 1..Len(d) : Takes(d, c, j) /\ \A k \in 1..Len(d) : Takes(d, k, j) => k = c
      BY <2>2 DEF TakenOnce
    <3>3. \E e \in 1..Len(x) : Takes(x, e, j) /\ \A k \in 1..Len(x) : Takes(x, k, j) => k = e
      BY <1>3, <1>5, <1>9, <1>10, <3>1, <3>2
    <3>4. \A s \in 1..Len(x) : Session(x, s, x[j].by) => ~(s < j)
      BY <1>3, <1>8, <1>12, <2>1, <2>2 DEF TakenOnce
    <3> QED BY <3>3, <3>4 DEF TakenOnce
  <2>3. CASE Untaken(d, j) /\ d[j].by = d[i].by
    <3>1. PICK s \in 1..Len(d) : Session(d, s, d[j].by) /\ s < j
      BY <2>3 DEF Untaken
    <3>2. s = i
      BY <1>13, <2>3, <3>1
    <3>3. j \in new.of
      BY <1>6, <2>1, <2>3, <3>1, <3>2
    <3>4. \A k \in 1..Len(x) : Takes(x, k, j) <=> k = n
      BY <1>3, <1>4, <1>9, <1>10, <2>3, <3>3 DEF Untaken
    <3>5. \A k \in 1..Len(x) : Session(x, k, x[j].by) => ~(k < j)
      BY <1>3, <1>8, <1>13, <2>1, <2>3
    <3> QED BY <1>3, <1>4, <3>4, <3>5 DEF TakenOnce
  <2>4. CASE Untaken(d, j) /\ d[j].by # d[i].by
    <3>1. PICK s \in 1..Len(d) : Session(d, s, d[j].by) /\ s < j
      BY <2>4 DEF Untaken
    <3>2. s # i
      BY <1>12, <2>4, <3>1
    <3>3. j \notin new.of
      BY <1>6, <2>1, <2>4
    <3>4. \A c \in 1..Len(x) : ~Takes(x, c, j)
      BY <1>3, <1>9, <1>10, <2>4, <3>3 DEF Untaken
    <3>5. s \in 1..Len(x) /\ Session(x, s, x[j].by) /\ s < j
      BY <1>3, <1>5, <1>8, <2>1, <3>1, <3>2
    <3> QED BY <3>4, <3>5 DEF Untaken
  <2> QED BY <2>1, <2>2, <2>3, <2>4 DEF Cashed
<1> QED BY <1>3, <1>7, <1>11, <1>14, <1>15 DEF Cashed

-----------------------------------------------------------------------------
(* Chains of documents.                                                    *)

\* The rows as they were seen, but for what the desk has submitted.
AsSeen(seen, d) ==
  /\ Len(seen) = Len(d)
  /\ \A j \in 1..Len(d) :
       \/ d[j] = seen[j]
       \/ /\ d[j].kind = "Material Request" /\ seen[j].status = "Draft" /\ d[j].status = "Submitted"
          /\ seen[j].kind = d[j].kind /\ seen[j].of = d[j].of

\* Only a row that was submitted is continued, and no purchase request continues one.
Chained(d) ==
  /\ Backward(d)
  /\ \A j \in 1..Len(d) : d[j].kind \in Erp
  /\ \A j \in 1..Len(d) : d[j].status = "Draft" \/ d[j].status = "Submitted" \/ d[j].status = "Cancelled"
  /\ \A j \in 1..Len(d) : d[j].kind = "Material Request" => d[j].of = {}
  /\ \A j \in 1..Len(d) : \A i \in d[j].of : d[i].status # "Draft"
  /\ \A j \in 1..Len(d) : d[j].status = "Submitted" => \A i \in d[j].of : d[i].status = "Submitted"

LEMMA MakesChained ==
  ASSUME NEW d \in Seq(Row), Chained(d), NEW seen \in Seq(Row), AsSeen(seen, d), NEW x, Makes(d, x, seen)
  PROVE  Chained(x)
<1> DEFINE n == Len(d) + 1
<1>1. PICK row \in Row :
        /\ Adds(d, x, row) /\ row.kind \in Erp /\ (row.status = "Draft" \/ row.status = "Submitted")
        /\ row.kind = "Material Request" => row.of = {}
        /\ \A j \in row.of : j \in 1..Len(seen) /\ seen[j].status = "Submitted"
  BY Zenon DEF Makes
<1>2. Len(x) = n /\ x[n] = row /\ \A j \in 1..Len(d) : x[j] = d[j]
  BY <1>1 DEF Adds
<1>3. n \in 1..n /\ \A j \in 1..n : j \in 1..Len(d) \/ j = n
  OBVIOUS
<1>4. \A i \in row.of : i \in 1..Len(d) /\ d[i].status = "Submitted"
  BY <1>1 DEF AsSeen
<1>5. Backward(x)
  BY <1>1, <1>4, AddsBackward DEF Chained
<1> HIDE DEF n
<1>6. \A j \in 1..Len(d) : \A i \in d[j].of : i \in 1..Len(d) /\ x[i] = d[i]
  BY <1>2 DEF Chained, Backward
<1>7. \A j \in 1..n : x[j].kind \in Erp
  BY <1>1, <1>2, <1>3 DEF Chained
<1>8. \A j \in 1..n : x[j].status = "Draft" \/ x[j].status = "Submitted" \/ x[j].status = "Cancelled"
  <2>1. \A j \in 1..Len(d) : d[j].status = "Draft" \/ d[j].status = "Submitted" \/ d[j].status = "Cancelled"
    BY DEF Chained
  <2> QED BY ZenonT(40), <1>1, <1>2, <1>3, <2>1
<1>9. \A j \in 1..n : x[j].kind = "Material Request" => x[j].of = {}
  <2>1. \A j \in 1..Len(d) : d[j].kind = "Material Request" => d[j].of = {}
    BY DEF Chained
  <2> QED BY <1>1, <1>2, <1>3, <2>1
<1>10. \A j \in 1..n : \A i \in x[j].of : x[i].status # "Draft" /\ (x[j].status = "Submitted" => x[i].status = "Submitted")
  <2>1. \A i \in row.of : x[i].status = "Submitted"
    BY <1>2, <1>4
  <2>2. \A j \in 1..Len(d) : \A i \in d[j].of : x[i].status # "Draft" /\ (d[j].status = "Submitted" => x[i].status = "Submitted")
    BY <1>6 DEF Chained
  <2> QED BY <1>2, <1>3, <2>1, <2>2
<1> QED BY <1>2, <1>5, <1>7, <1>8, <1>9, <1>10 DEF Chained

\* The status of one row changed, and nothing that refers to it is refuted by that.
LEMMA StatusChained ==
  ASSUME NEW d \in Seq(Row), Chained(d), NEW x, NEW i \in 1..Len(d), NEW row \in Row, Puts(d, x, i, row),
         row.kind = d[i].kind, row.of = d[i].of, row.status = "Submitted" \/ row.status = "Cancelled",
         row.status = "Submitted" => \A k \in d[i].of : d[k].status = "Submitted",
         row.status = "Cancelled" => \A j \in 1..Len(d) : i \in d[j].of => d[j].status # "Submitted"
  PROVE  Chained(x)
<1>1. Len(x) = Len(d) /\ x[i] = row /\ \A j \in 1..Len(d) : j # i => x[j] = d[j]
  BY DEF Puts
<1>2. \A j \in 1..Len(d) : x[j].kind = d[j].kind /\ x[j].of = d[j].of
  BY <1>1
<1>3. Backward(x)
  BY <1>1, <1>2 DEF Backward, Chained
<1>4. \A j \in 1..Len(d) : x[j].kind \in Erp /\ (x[j].kind = "Material Request" => x[j].of = {})
  BY <1>2 DEF Chained
<1>5. \A j \in 1..Len(d) : x[j].status = "Draft" \/ x[j].status = "Submitted" \/ x[j].status = "Cancelled"
  BY <1>1 DEF Chained
<1>6. \A j \in 1..Len(d) : \A k \in d[j].of : k \in 1..Len(d)
  BY DEF Chained, Backward
<1>7. \A j \in 1..Len(d) : \A k \in x[j].of : x[k].status # "Draft"
  BY <1>1, <1>2, <1>6 DEF Chained
<1>8. ASSUME NEW j \in 1..Len(d), x[j].status = "Submitted", NEW k \in x[j].of PROVE x[k].status = "Submitted"
  <2>1. k \in d[j].of /\ k \in 1..Len(d)
    BY <1>2, <1>6, <1>8
  <2>2. k # i => x[k].status = d[k].status
    BY <1>1, <2>1
  <2>3. CASE j = i
    BY <1>1, <1>8, <2>1, <2>2, <2>3
  <2>4. CASE j # i
    <3>1. d[j].status = "Submitted"
      BY <1>1, <1>8, <2>4
    <3>2. d[k].status = "Submitted"
      BY <2>1, <3>1 DEF Chained
    <3>3. k = i => row.status = "Submitted"
      BY <2>1, <3>1
    <3> QED BY <1>1, <2>2, <3>2, <3>3
  <2> QED BY <2>3, <2>4
<1> QED BY <1>1, <1>3, <1>4, <1>5, <1>7, <1>8 DEF Chained

LEMMA SubmitsChained ==
  ASSUME NEW d \in Seq(Row), Chained(d), NEW seen \in Seq(Row), AsSeen(seen, d), NEW x, Submits(d, x, seen)
  PROVE  Chained(x)
<1>1. PICK i \in 1..Len(seen), row \in Row :
        /\ Puts(d, x, i, row) /\ row.status = "Submitted"
        /\ row.kind = d[i].kind /\ row.of = d[i].of
        /\ LinksLive(seen, d[i].of)
  BY Zenon DEF Submits
<1>2. i \in 1..Len(d)
  BY DEF AsSeen
<1>3. ASSUME NEW k \in d[i].of PROVE d[k].status = "Submitted"
  <2>1. k \in 1..Len(d) /\ d[k].status # "Draft"
    BY <1>2 DEF Chained, Backward
  <2>2. seen[k].status # "Cancelled"
    BY <1>1 DEF LinksLive
  <2>3. d[k].status # "Cancelled"
    BY <2>1, <2>2 DEF AsSeen
  <2> QED BY <2>1, <2>3 DEF Chained
<1> QED BY <1>1, <1>2, <1>3, StatusChained

LEMMA CancelsChained ==
  ASSUME NEW d \in Seq(Row), Chained(d), NEW seen \in Seq(Row), AsSeen(seen, d), NEW x, Cancels(d, x, seen)
  PROVE  Chained(x)
<1>1. PICK i \in 1..Len(seen), row \in Row :
        /\ Puts(d, x, i, row) /\ row.status = "Cancelled"
        /\ row.kind = d[i].kind /\ row.of = d[i].of
        /\ LinkedTo(seen, i) = {}
  BY Zenon DEF Cancels
<1>2. i \in 1..Len(d) /\ DOMAIN seen = 1..Len(d)
  <2>1. Len(seen) = Len(d)
    BY DEF AsSeen
  <2>2. DOMAIN seen = 1..Len(seen)
    OBVIOUS
  <2> QED BY <2>1, <2>2
<1>3. \A j \in 1..Len(d) : ~(i \in seen[j].of /\ seen[j].status = "Submitted")
  BY <1>1, <1>2, Zenon DEF LinkedTo
<1>4. ASSUME NEW j \in 1..Len(d), i \in d[j].of PROVE d[j].status # "Submitted"
  <2>1. d[j].kind # "Material Request"
    BY <1>4 DEF Chained
  <2>2. d[j] = seen[j]
    BY <2>1 DEF AsSeen
  <2> QED BY <1>3, <1>4, <2>2
<1> QED BY <1>1, <1>2, <1>4, StatusChained

-----------------------------------------------------------------------------
(* Calls served alone.                                                     *)

\* Where calls do not overlap, those in flight are one call that comes again
\* under its key; until it is answered, what it saw is what there is.
Alone(w) ==
  /\ \A v \in Workers : Busy(v) => txn[v].key = txn[w].key /\ (v = w \/ txn[w].key \in Keys)
  /\ \A k \in Keys : requests[k] # NoRequest => k = txn[w].key
  /\ txn[w].known = NoRequest /\ ~Taken(txn[w].key) => AsSeen(txn[w].seen, docs)

AloneInv ==
  /\ \A w \in Workers : ~Busy(w) => txn[w].key = NoKey
  /\ subject \notin Overlapping =>
       /\ \A j \in Keys, k \in Keys : requests[j] # NoRequest /\ requests[k] # NoRequest => j = k
       /\ \A w \in Workers : Busy(w) => Alone(w)

LEMMA SeenNow == ASSUME NEW d \in Seq(Row) PROVE AsSeen(d, d)
BY DEF AsSeen

LEMMA AloneInit == ASSUME TradeTypes, Init PROVE AloneInv
BY DEF Init, AloneInv, Busy, Idle

\* A worker that has ended is at rest, and the others are as they were.
LEMMA Ended ==
  ASSUME QueueInv, AloneInv, NEW w \in Workers, txn' = [txn EXCEPT ![w] = Idle]
  PROVE  /\ \A v \in Workers : Busy(v)' => v # w /\ Busy(v) /\ txn'[v] = txn[v]
         /\ \A v \in Workers : ~Busy(v)' => txn'[v].key = NoKey
<1>1. txn'[w] = Idle /\ \A v \in Workers : v # w => txn'[v] = txn[v]
  BY DEF QueueInv
<1>2. Idle.call = NoCall /\ Idle.key = NoKey
  BY DEF Idle
<1> QED BY <1>1, <1>2 DEF Busy, AloneInv

LEMMA AloneBegin ==
  ASSUME TradeTypes, QueueInv, AloneInv, NEW w \in Workers, Begin(w) PROVE AloneInv'
<1>1. subject' = subject /\ docs' = docs
  BY DEF Begin
<1>2. PICK call \in Calls(subject, DOMAIN docs), key \in Keys \cup {NoKey} : Serve(w, call, key, NoRequest)
  BY DEF Begin
<1>3. txn'[w] = [call |-> call, key |-> key, seen |-> docs, known |-> NoRequest]
      /\ \A v \in Workers : v # w => txn'[v] = txn[v]
  BY <1>2 DEF Serve, QueueInv
<1>4. call # NoCall
  <2>1. DOMAIN docs = 1..Len(docs) /\ Len(docs) \in Nat /\ Len(docs) <= MaxDocs[subject] /\ subject \in Subjects
    BY DEF QueueInv
  <2> QED BY <2>1, CallIsCall
<1>5. \A v \in Workers : ~Busy(v)' => txn'[v].key = NoKey
  BY <1>3, <1>4 DEF Busy, AloneInv
<1>6. ASSUME subject \notin Overlapping
      PROVE  (\A k \in Keys : requests'[k] = NoRequest) /\ \A v \in Workers : Busy(v)' => v = w
  <2>1. \A v \in Workers : ~Busy(v)
    BY <1>6 DEF Begin, MayServe
  <2>2. \A k \in Keys : ~InFlight(k)
    BY <2>1 DEF InFlight, AloneInv, TradeTypes
  <2>3. \A k \in Keys : requests'[k] = NoRequest
    BY <2>2 DEF Begin
  <2> QED BY <1>3, <2>1, <2>3 DEF Busy
<1>7. ASSUME subject \notin Overlapping, NEW v \in Workers, Busy(v)' PROVE Alone(v)'
  <2>1. AsSeen(docs, docs)
    BY SeenNow DEF QueueInv
  <2>2. v = w /\ txn'[v].seen = docs
    BY <1>3, <1>6, <1>7
  <2> QED BY <1>1, <1>6, <1>7, <2>1, <2>2 DEF Alone
<1> QED BY <1>1, <1>5, <1>6, <1>7 DEF AloneInv

LEMMA AloneRetry ==
  ASSUME TradeTypes, QueueInv, AloneInv, NEW w \in Workers, Retry(w) PROVE AloneInv'
<1>1. subject' = subject /\ docs' = docs /\ requests' = requests
  BY DEF Retry
<1>2. PICK key \in Keys, call \in Calls(subject, DOMAIN docs) :
        /\ requests[key].call = call \/ \E v \in Workers : txn[v].key = key /\ txn[v].call = call
        /\ Serve(w, call, key, requests[key])
  BY DEF Retry
<1>3. txn'[w] = [call |-> call, key |-> key, seen |-> docs, known |-> requests[key]]
      /\ \A v \in Workers : v # w => txn'[v] = txn[v]
  BY <1>2 DEF Serve, QueueInv
<1>4. call # NoCall
  <2>1. DOMAIN docs = 1..Len(docs) /\ Len(docs) \in Nat /\ Len(docs) <= MaxDocs[subject] /\ subject \in Subjects
    BY DEF QueueInv
  <2> QED BY <2>1, CallIsCall
<1>5. \A v \in Workers : ~Busy(v)' => txn'[v].key = NoKey
  BY <1>3, <1>4 DEF Busy, AloneInv
<1>6. \A v \in Workers : Busy(v)' => v = w \/ (Busy(v) /\ txn'[v] = txn[v])
  BY <1>3 DEF Busy
<1>7. requests[key] # NoRequest \/ \E v \in Workers : Busy(v) /\ txn[v].key = key
  <2>1. NoRequest.call = NoCall
    BY DEF NoRequest
  <2> QED BY <1>2, <1>4, <2>1 DEF Busy
<1>8. ASSUME subject \notin Overlapping
      PROVE  /\ \A v \in Workers : Busy(v) => txn[v].key = key
             /\ \A k \in Keys : requests[k] # NoRequest => k = key
  BY <1>7, <1>8 DEF AloneInv, Alone
<1>9. ASSUME subject \notin Overlapping, NEW v \in Workers, Busy(v)' PROVE Alone(v)'
  <2>1. \A u \in Workers : Busy(u)' => txn'[u].key = key
    BY <1>3, <1>6, <1>8, <1>9
  <2>2. txn'[v].key = key
    BY <1>9, <2>1
  <2>3. txn'[v].known = NoRequest /\ ~Taken(txn[v].key)' => AsSeen(txn'[v].seen, docs)
    <3>1. CASE v = w
      BY <1>3, <3>1, SeenNow DEF QueueInv
    <3>2. CASE v # w
      <4>1. Busy(v) /\ txn'[v] = txn[v]
        BY <1>6, <1>9, <3>2
      <4>2. Alone(v)
        BY <1>9, <4>1 DEF AloneInv
      <4> QED BY <1>1, <4>1, <4>2 DEF Alone, Taken
    <3> QED BY <3>1, <3>2
  <2> QED BY <1>1, <1>8, <1>9, <2>1, <2>2, <2>3 DEF Alone
<1>10. subject \notin Overlapping => \A j \in Keys, k \in Keys : requests[j] # NoRequest /\ requests[k] # NoRequest => j = k
  BY DEF AloneInv
<1> QED BY <1>1, <1>5, <1>9, <1>10 DEF AloneInv

LEMMA AloneFinish ==
  ASSUME TradeTypes, QueueInv, AloneInv, NEW w \in Workers, Finish(w) PROVE AloneInv'
<1> DEFINE key == txn[w].key
<1>1. subject' = subject /\ Busy(w) /\ txn' = [txn EXCEPT ![w] = Idle]
  BY DEF Finish
<1>2. /\ \A v \in Workers : Busy(v)' => v # w /\ Busy(v) /\ txn'[v] = txn[v]
      /\ \A v \in Workers : ~Busy(v)' => txn'[v].key = NoKey
  BY <1>1, Ended
<1>3. \A k \in Keys : k # key => requests'[k] = requests[k]
  BY DEF Finish, QueueInv
<1>4. key # NoKey /\ key \in Keys => requests'[key] # NoRequest
  <2> HAVE key # NoKey /\ key \in Keys
  <2>1. PICK answer : requests' = [requests EXCEPT ![key] = [call |-> txn[w].call, answer |-> answer]]
    BY DEF Finish
  <2>2. requests'[key].call = txn[w].call
    BY <2>1 DEF QueueInv
  <2> QED BY <1>1, <2>2 DEF NoRequest, Busy
<1>5. key \in Keys \/ key = NoKey
  BY <1>1 DEF QueueInv, Served
<1>6. ASSUME subject \notin Overlapping PROVE \A k \in Keys : requests'[k] # NoRequest => k = key
  BY <1>1, <1>3, <1>6 DEF AloneInv, Alone
<1>7. ASSUME subject \notin Overlapping, NEW v \in Workers, Busy(v)' PROVE Alone(v)'
  <2>1. \A u \in Workers : Busy(u)' => txn'[u].key = key /\ key \in Keys
    BY <1>1, <1>2, <1>7 DEF AloneInv, Alone
  <2>2. txn'[v].key = key /\ key \in Keys
    BY <1>7, <2>1
  <2>3. requests'[key] # NoRequest
    BY <1>4, <2>2 DEF TradeTypes
  <2>4. Taken(txn[v].key)'
    BY <2>2, <2>3 DEF Taken
  <2> QED BY <1>6, <1>7, <2>1, <2>2, <2>4 DEF Alone
<1> QED BY <1>1, <1>2, <1>6, <1>7 DEF AloneInv

\* A call that is answered from its key or given up.
LEMMA AloneEnd ==
  ASSUME QueueInv, AloneInv, NEW w \in Workers, Replay(w) \/ GiveUp(w) PROVE AloneInv'
<1>1. subject' = subject /\ docs' = docs /\ requests' = requests /\ txn' = [txn EXCEPT ![w] = Idle]
  BY DEF Replay, GiveUp
<1>2. /\ \A v \in Workers : Busy(v)' => v # w /\ Busy(v) /\ txn'[v] = txn[v]
      /\ \A v \in Workers : ~Busy(v)' => txn'[v].key = NoKey
  BY <1>1, Ended
<1>3. ASSUME subject \notin Overlapping, NEW v \in Workers, Busy(v)' PROVE Alone(v)'
  <2>1. Alone(v) /\ txn'[v] = txn[v]
    BY <1>2, <1>3 DEF AloneInv
  <2> QED BY <1>1, <1>2, <2>1 DEF Alone, Taken
<1> QED BY <1>1, <1>2, <1>3 DEF AloneInv

LEMMA AloneDesk ==
  ASSUME QueueInv, AloneInv, NEW i \in DOMAIN docs, Desk(i) PROVE AloneInv'
<1>1. subject' = subject /\ requests' = requests /\ txn' = txn
  BY DEF Desk
<1>2. docs \in Seq(Row) /\ i \in 1..Len(docs) /\ docs[i].kind = "Material Request" /\ docs[i].status = "Draft"
  <2>1. docs \in Seq(Row)
    BY DEF QueueInv
  <2>2. docs[i].kind = "Material Request" /\ docs[i].status = "Draft"
    BY DEF Desk
  <2>3. i \in 1..Len(docs)
    BY <2>1
  <2> QED BY <2>1, <2>2, <2>3
<1> DEFINE row == [docs[i] EXCEPT !.status = "Submitted"]
<1>3. Puts(docs, docs', i, row)
  BY <1>2, PutsStatus, StatusNames DEF Desk
<1>4. row.kind = docs[i].kind /\ row.of = docs[i].of /\ row.status = "Submitted"
  BY <1>2, RowAt, RowStatus, StatusNames
<1> HIDE DEF row
<1>5. ASSUME NEW seen, AsSeen(seen, docs) PROVE AsSeen(seen, docs')
  <2>1. Len(docs') = Len(docs) /\ docs'[i] = row /\ \A j \in 1..Len(docs) : j # i => docs'[j] = docs[j]
    BY <1>3 DEF Puts
  <2>2. docs[i] = seen[i]
    BY <1>2, <1>5 DEF AsSeen
  <2>3. Len(seen) = Len(docs')
    BY <1>5, <2>1 DEF AsSeen
  <2>4. ASSUME NEW j \in 1..Len(docs), j # i
        PROVE  \/ docs'[j] = seen[j]
               \/ /\ docs'[j].kind = "Material Request" /\ seen[j].status = "Draft" /\ docs'[j].status = "Submitted"
                  /\ seen[j].kind = docs'[j].kind /\ seen[j].of = docs'[j].of
    BY <1>5, <2>1, <2>4 DEF AsSeen
  <2>5. /\ docs'[i].kind = "Material Request" /\ seen[i].status = "Draft" /\ docs'[i].status = "Submitted"
        /\ seen[i].kind = docs'[i].kind /\ seen[i].of = docs'[i].of
    BY <1>2, <1>4, <2>1, <2>2
  <2> QED BY <2>1, <2>3, <2>4, <2>5 DEF AsSeen
<1>6. ASSUME NEW v \in Workers, Alone(v) PROVE Alone(v)'
  BY <1>1, <1>5, <1>6 DEF Alone, Taken, Busy
<1> QED BY <1>1, <1>6 DEF AloneInv, Busy

LEMMA AloneNext ==
  ASSUME TradeTypes, QueueInv, AloneInv, [Next]_vars PROVE AloneInv'
<1>1. CASE \E w \in Workers : Begin(w) \/ Retry(w) \/ Finish(w) \/ Replay(w) \/ GiveUp(w)
  BY <1>1, AloneBegin, AloneRetry, AloneFinish, AloneEnd
<1>2. CASE \E i \in DOMAIN docs : Desk(i)
  BY <1>2, AloneDesk
<1>3. CASE UNCHANGED vars
  BY <1>3 DEF AloneInv, Alone, Taken, Busy, vars
<1> QED BY <1>1, <1>2, <1>3 DEF Next

-----------------------------------------------------------------------------
(* The papers.                                                             *)

Reports(d) == \A i \in 1..Len(d) : d[i].kind = "Report"

Papers ==
  /\ subject = "voucher" => Posted(docs)
  /\ subject = "report" => Reports(docs)
  /\ subject = "till" => Cashed(docs)
  /\ subject = "sale" => Chained(docs)

PaperInv == QueueInv /\ AloneInv /\ Papers

\* The documents of ERPNext that are made from each other are none of the others.
LEMMA ErpKinds ==
  ASSUME TradeTypes, NEW kind \in Erp
  PROVE  kind # "Voucher" /\ kind # "Journal Entry" /\ kind # "Report"
         /\ kind # "Opening" /\ kind # "POS Invoice" /\ kind # "Closing"
<1>1. kind \in Created \/ (\E f \in Flow : kind = f[1] \/ kind = f[2]) \/ kind = "Payment Entry"
  BY DEF Erp
<1>2. CASE kind \in Created
  BY <1>2 DEF TradeTypes, PurchaseRequests, Orders, Invoices, Purchases, StockEntries, Assignments, Payrolls, Timesheets
<1>3. CASE \E f \in Flow : kind = f[1] \/ kind = f[2]
  <2>1. PICK f \in Flow : kind = f[1] \/ kind = f[2]
    BY <1>3
  <2>2. kind = f[2] => kind \in Targets
    BY DEF Targets
  <2>3. f \in SalesFlow => f[1] = "Quotation" \/ f[1] = "Sales Order" \/ f[1] = "Delivery Note"
    BY PairFirst, Zenon DEF SalesFlow
  <2>4. f \in BuyingFlow => f[1] = "Material Request" \/ f[1] = "Purchase Order"
    BY PairFirst, Zenon DEF BuyingFlow
  <2>5. f \in ReturnFlow => f[1] = "Sales Invoice"
    BY PairFirst, Zenon DEF ReturnFlow
  <2>6. f \in SalesFlow \/ f \in BuyingFlow \/ f \in ReturnFlow
    BY DEF Flow
  <2>7. f[1] # "Voucher" /\ f[1] # "Journal Entry" /\ f[1] # "Report"
        /\ f[1] # "Opening" /\ f[1] # "POS Invoice" /\ f[1] # "Closing"
    BY ONLY <2>3, <2>4, <2>5, <2>6
  <2>8. ASSUME NEW k \in Targets PROVE k # "Voucher" /\ k # "Journal Entry" /\ k # "Report"
                                       /\ k # "Opening" /\ k # "POS Invoice" /\ k # "Closing"
    BY TargetNames
  <2> QED BY <2>1, <2>2, <2>7, <2>8
<1> QED BY <1>1, <1>2, <1>3

LEMMA PapersInit == ASSUME Init PROVE Papers
<1>1. docs = << >>
  BY DEF Init
<1>2. 1..Len(docs) = {}
  BY <1>1
<1> QED BY <1>2 DEF Papers, Posted, Reports, Cashed, Chained, Backward

\* Rows that were not changed since they were seen are the same table.
LEMMA TillSeen ==
  ASSUME NEW d \in Seq(Row), Cashed(d), NEW seen \in Seq(Row), AsSeen(seen, d) PROVE seen = d
<1>1. Len(seen) = Len(d) /\ \A j \in 1..Len(d) : seen[j] = d[j]
  BY DEF AsSeen, Cashed
<1> QED BY <1>1

LEMMA PapersFinish ==
  ASSUME TradeTypes, PaperInv, "till" \notin Overlapping, "sale" \notin Overlapping,
         NEW w \in Workers, Finish(w)
  PROVE  Papers'
<1> DEFINE seen == txn[w].seen
           call == txn[w].call
<1>1. Busy(w) /\ txn[w].known = NoRequest /\ ~Taken(txn[w].key) /\ subject' = subject
  BY DEF Finish
<1>2. PICK r \in Effects(call, docs, seen) : docs' = r.docs
  BY DEF Finish
<1>3. Served(txn[w]) /\ subject \in Subjects /\ docs \in Seq(Row) /\ Len(docs) <= MaxDocs[subject]
  BY <1>1 DEF PaperInv, QueueInv
<1>4. seen \in Seq(Row) /\ Len(seen) <= Len(docs) /\ call \in Calls(subject, 1..Len(seen))
  BY <1>3 DEF Served
<1>5. 1..Len(docs) \subseteq Rows
  BY <1>3, RowNumbers
<1>6. subject \notin Overlapping => AsSeen(seen, docs)
  BY <1>1 DEF PaperInv, AloneInv, Alone
<1> HIDE DEF seen, call
<1>7. CASE subject = "voucher"
  <2>1. Drafts(docs, docs') \/ Prepares(docs, docs') \/ Approves(docs, docs')
    BY <1>2, <1>3, <1>4, <1>5, <1>7, VoucherEffects
  <2>2. Posted(docs)
    BY <1>7 DEF PaperInv, Papers
  <2>3. Posted(docs')
    BY <1>3, <2>1, <2>2, DraftsPosted, PreparesPosted, ApprovesPosted
  <2> QED BY <1>1, <1>7, <2>3 DEF Papers
<1>8. CASE subject = "report"
  <2>1. Files(docs, docs') \/ Writes(docs, docs')
    BY <1>2, <1>3, <1>4, <1>8, ReportEffects
  <2>2. Reports(docs)
    BY <1>8 DEF PaperInv, Papers
  <2>3. CASE Files(docs, docs')
    <3>1. PICK row \in Row : Adds(docs, docs', row) /\ row.kind = "Report"
      BY <2>3, Zenon DEF Files
    <3> QED BY <1>1, <1>3, <1>8, <2>2, <3>1 DEF Adds, Reports, Papers
  <2>4. CASE Writes(docs, docs')
    <3>1. PICK i \in 1..Len(docs), row \in Row : Puts(docs, docs', i, row) /\ row.kind = docs[i].kind
      BY <2>4, Zenon DEF Writes
    <3> QED BY <1>1, <1>3, <1>8, <2>2, <3>1 DEF Puts, Reports, Papers
  <2> QED BY <2>1, <2>3, <2>4
<1>9. CASE subject = "till"
  <2>1. Opens(docs, docs', seen) \/ Sells(docs, docs', seen) \/ Closes(docs, docs', seen)
    BY <1>2, <1>3, <1>4, <1>5, <1>9, TillEffects
  <2>2. Cashed(docs)
    BY <1>9 DEF PaperInv, Papers
  <2>3. seen = docs
    BY <1>3, <1>4, <1>6, <1>9, <2>2, TillSeen
  <2>4. Cashed(docs')
    BY <1>3, <2>1, <2>2, <2>3, OpensCashed, SellsCashed, ClosesCashed
  <2> QED BY <1>1, <1>9, <2>4 DEF Papers
<1>10. CASE subject = "sale"
  <2>1. Makes(docs, docs', seen) \/ Submits(docs, docs', seen) \/ Cancels(docs, docs', seen)
    BY <1>2, <1>3, <1>4, <1>5, <1>10, SaleEffects
  <2>2. Chained(docs)
    BY <1>10 DEF PaperInv, Papers
  <2>3. Chained(docs')
    BY <1>3, <1>4, <1>6, <1>10, <2>1, <2>2, MakesChained, SubmitsChained, CancelsChained
  <2> QED BY <1>1, <1>10, <2>3 DEF Papers
<1> QED BY <1>3, <1>7, <1>8, <1>9, <1>10 DEF TradeTypes

\* Only a chain of documents has a purchase request, which is made from nothing.
LEMMA PapersDesk ==
  ASSUME TradeTypes, PaperInv, NEW i \in DOMAIN docs, Desk(i) PROVE Papers'
<1> DEFINE row == [docs[i] EXCEPT !.status = "Submitted"]
<1>1. subject' = subject
  BY DEF Desk
<1>2. docs \in Seq(Row) /\ subject \in Subjects
  BY DEF PaperInv, QueueInv
<1>3. i \in 1..Len(docs)
  BY <1>2
<1>4. docs[i].kind = "Material Request" /\ docs' = [docs EXCEPT ![i].status = "Submitted"]
  BY DEF Desk
<1>5. Puts(docs, docs', i, row)
  BY <1>2, <1>3, <1>4, PutsStatus, StatusNames
<1>6. row \in Row /\ row.kind = docs[i].kind /\ row.of = docs[i].of /\ row.status = "Submitted"
  BY ZenonT(40), <1>2, <1>3, RowAt, RowStatus, StatusNames
<1> HIDE DEF row
<1>7. subject # "voucher" /\ subject # "report" /\ subject # "till"
  BY <1>3, <1>4 DEF PaperInv, Papers, Posted, Reports, Cashed
<1>8. subject = "sale" => Chained(docs')
  <2> HAVE subject = "sale"
  <2>1. Chained(docs)
    BY DEF PaperInv, Papers
  <2>2. docs[i].of = {}
    BY <1>3, <1>4, <2>1 DEF Chained
  <2> QED BY <1>2, <1>3, <1>5, <1>6, <2>1, <2>2, StatusChained
<1> QED BY <1>1, <1>7, <1>8 DEF Papers

LEMMA PapersNext ==
  ASSUME TradeTypes, PaperInv, "till" \notin Overlapping, "sale" \notin Overlapping, [Next]_vars
  PROVE  PaperInv'
<1>1. QueueInv' /\ AloneInv'
  BY QueueNext, AloneNext DEF PaperInv
<1>2. CASE \E w \in Workers : Begin(w) \/ Retry(w) \/ Finish(w) \/ Replay(w) \/ GiveUp(w)
  <2> PICK w \in Workers : Begin(w) \/ Retry(w) \/ Finish(w) \/ Replay(w) \/ GiveUp(w)
    BY <1>2
  <2>1. CASE Finish(w)
    BY <1>1, <2>1, PapersFinish DEF PaperInv
  <2>2. CASE Begin(w) \/ Retry(w) \/ Replay(w) \/ GiveUp(w)
    <3>1. subject' = subject /\ docs' = docs
      BY <2>2 DEF Begin, Retry, Replay, GiveUp
    <3>2. Papers'
      BY <3>1 DEF PaperInv, Papers
    <3> QED BY <1>1, <3>2 DEF PaperInv
  <2> QED BY <2>1, <2>2
<1>3. CASE \E i \in DOMAIN docs : Desk(i)
  BY <1>1, <1>3, PapersDesk DEF PaperInv
<1>4. CASE UNCHANGED vars
  BY <1>1, <1>4 DEF PaperInv, Papers, vars
<1> QED BY <1>2, <1>3, <1>4 DEF Next

-----------------------------------------------------------------------------
(* What the invariant says of the papers.                                  *)

\* Whatever the papers are about, they hold no other kind.
LEMMA KindsOf ==
  ASSUME TradeTypes, PaperInv, NEW i \in DOMAIN docs
  PROVE  /\ docs[i].kind = "Voucher" => subject = "voucher"
         /\ docs[i].kind = "Report" => subject = "report"
         /\ docs[i].kind = "POS Invoice" => subject = "till"
         /\ docs[i].kind \in Erp => subject = "sale"
<1>1. docs \in Seq(Row) /\ subject \in Subjects
  BY DEF PaperInv, QueueInv
<1>2. i \in 1..Len(docs)
  BY <1>1
<1>3. subject = "voucher" => docs[i].kind = "Voucher" \/ docs[i].kind = "Journal Entry"
  BY <1>2 DEF PaperInv, Papers, Posted
<1>4. subject = "report" => docs[i].kind = "Report"
  BY <1>2 DEF PaperInv, Papers, Reports
<1>5. subject = "till" => docs[i].kind = "Opening" \/ docs[i].kind = "POS Invoice" \/ docs[i].kind = "Closing"
  BY <1>2 DEF PaperInv, Papers, Cashed
<1>6. subject = "sale" => docs[i].kind \in Erp
  BY <1>2 DEF PaperInv, Papers, Chained
<1>7. subject = "voucher" \/ subject = "report" \/ subject = "till" \/ subject = "sale"
  BY <1>1 DEF TradeTypes
<1>8. CASE subject = "voucher"
  BY <1>3, <1>8, ErpKinds
<1>9. CASE subject = "report"
  BY <1>4, <1>9, ErpKinds
<1>10. CASE subject = "till"
  BY <1>5, <1>10, ErpKinds
<1>11. CASE subject = "sale"
  BY <1>6, <1>11, ErpKinds
<1> QED BY <1>7, <1>8, <1>9, <1>10, <1>11

LEMMA PostedHolds == ASSUME TradeTypes, PaperInv PROVE VoucherPosted
<1> SUFFICES ASSUME NEW i \in DOMAIN docs, docs[i].kind = "Voucher"
             PROVE  LET journals == {j \in DOMAIN docs : docs[j].kind = "Journal Entry" /\ docs[j].of = {i}}
                    IN /\ Cardinality(journals) = IF docs[i].status = "Approved" THEN 1 ELSE 0
                       /\ \A j \in journals : docs[j].entry = docs[i].entry
  BY DEF VoucherPosted
<1> DEFINE journals == {j \in DOMAIN docs : docs[j].kind = "Journal Entry" /\ docs[j].of = {i}}
<1>1. Posted(docs)
  BY KindsOf DEF PaperInv, Papers
<1>2. DOMAIN docs = 1..Len(docs)
  BY DEF PaperInv, QueueInv
<1>3. \A j : j \in journals <=> Journal(docs, j, i)
  BY <1>2 DEF Journal
<1> HIDE DEF journals
<1>4. /\ Cardinality(journals) = IF docs[i].status = "Approved" THEN 1 ELSE 0
      /\ \A j \in journals : docs[j].entry = docs[i].entry
  <2>1. CASE docs[i].status = "Approved"
    <3>1. PICK j \in 1..Len(docs) : /\ Journal(docs, j, i) /\ docs[j].entry = docs[i].entry
                                    /\ \A k \in 1..Len(docs) : Journal(docs, k, i) => k = j
      BY <1>1, <1>2, <2>1 DEF Posted
    <3>2. \A k : Journal(docs, k, i) => k \in 1..Len(docs)
      BY DEF Journal
    <3>3. journals = {j}
      BY <1>3, <3>1, <3>2
    <3>4. Cardinality(journals) = 1
      BY <3>3, FS_Singleton
    <3> QED BY <2>1, <3>1, <3>3, <3>4
  <2>2. CASE docs[i].status # "Approved"
    <3>1. \A k : ~Journal(docs, k, i)
      BY <1>1, <1>2, <2>2 DEF Posted, Journal
    <3>2. journals = {}
      BY <1>3, <3>1
    <3>3. Cardinality(journals) = 0
      BY <3>2, FS_EmptySet
    <3> QED BY <2>2, <3>2, <3>3
  <2> QED BY <2>1, <2>2
<1> QED BY <1>4 DEF journals

LEMMA TakenHolds == ASSUME TradeTypes, PaperInv PROVE InvoicesTaken
<1>1. docs \in Seq(Row) /\ DOMAIN docs = 1..Len(docs)
  BY DEF PaperInv, QueueInv
<1> SUFFICES ASSUME NEW j \in DOMAIN docs, docs[j].kind = "POS Invoice"
             PROVE  \/ Cardinality(Takings(j)) = 1
                    \/ Takings(j) = {} /\ \E i \in OpenSessions(docs, docs[j].by) : i < j
  BY DEF InvoicesTaken
<1>2. Cashed(docs)
  BY KindsOf DEF PaperInv, Papers
<1>3. \A c : c \in Takings(j) <=> Takes(docs, c, j)
  BY <1>1 DEF Takings, Takes
<1>4. \A c : Takes(docs, c, j) => c \in 1..Len(docs)
  BY DEF Takes
<1>5. CASE TakenOnce(docs, j)
  <2>1. PICK c \in 1..Len(docs) : Takes(docs, c, j) /\ \A k \in 1..Len(docs) : Takes(docs, k, j) => k = c
    BY <1>5 DEF TakenOnce
  <2>2. Takings(j) = {c}
    BY <1>3, <1>4, <2>1
  <2> QED BY <2>2, FS_Singleton
<1>6. CASE Untaken(docs, j)
  <2>1. Takings(j) = {}
    BY <1>3, <1>4, <1>6 DEF Untaken
  <2>2. PICK i \in 1..Len(docs) : Session(docs, i, docs[j].by) /\ i < j
    BY <1>6 DEF Untaken
  <2>3. i \in OpenSessions(docs, docs[j].by)
    BY <1>1, <2>2, OpenAt DEF Session
  <2> QED BY <2>1, <2>2, <2>3
<1> QED BY <1>1, <1>2, <1>5, <1>6 DEF Cashed

LEMMA SourcesHold == ASSUME TradeTypes, PaperInv PROVE SourcesStand
<1> SUFFICES ASSUME NEW j \in DOMAIN docs, docs[j].kind \in Erp, docs[j].status = "Submitted",
                    NEW i \in docs[j].of
             PROVE  docs[i].status = "Submitted"
  BY DEF SourcesStand
<1>1. Chained(docs)
  BY KindsOf DEF PaperInv, Papers
<1>2. j \in 1..Len(docs)
  BY DEF PaperInv, QueueInv
<1> QED BY <1>1, <1>2 DEF Chained

LEMMA ReviewedHolds ==
  ASSUME TradeTypes, PaperInv, NEW w \in Workers, Finish(w) PROVE ReviewedStands
<1> DEFINE seen == txn[w].seen
           call == txn[w].call
<1> SUFFICES ASSUME NEW i \in DOMAIN docs, docs[i].kind = "Report", docs[i].status \in Reviewed
             PROVE  docs'[i].entry = docs[i].entry
  BY DEF ReviewedStands
<1>1. subject = "report"
  BY KindsOf
<1>2. Busy(w)
  BY DEF Finish
<1>3. PICK r \in Effects(call, docs, seen) : docs' = r.docs
  BY DEF Finish
<1>4. Served(txn[w]) /\ docs \in Seq(Row)
  BY <1>2 DEF PaperInv, QueueInv
<1>5. seen \in Seq(Row) /\ Len(seen) <= Len(docs) /\ call \in Calls(subject, 1..Len(seen)) /\ i \in 1..Len(docs)
  BY <1>4 DEF Served
<1> HIDE DEF seen, call
<1>6. Files(docs, docs') \/ Writes(docs, docs')
  BY <1>1, <1>3, <1>4, <1>5, ReportEffects
<1>7. CASE Files(docs, docs')
  <2>1. PICK row \in Row : Adds(docs, docs', row)
    BY <1>7, Zenon DEF Files
  <2> QED BY <1>5, <2>1 DEF Adds
<1>8. CASE Writes(docs, docs')
  <2>1. PICK k \in 1..Len(docs), row \in Row :
          Puts(docs, docs', k, row) /\ (docs[k].status \in Reviewed => row.entry = docs[k].entry)
    BY <1>8, Zenon DEF Writes
  <2>2. docs'[k] = row /\ \A j \in 1..Len(docs) : j # k => docs'[j] = docs[j]
    BY <2>1 DEF Puts
  <2> QED BY <1>5, <2>1, <2>2
<1> QED BY <1>6, <1>7, <1>8

\* Approved vouchers are posted once with their lines, the invoices of a till
\* taken in once, documents made from submitted ones, and reviewed reports not
\* written (voucher.py, pos.py, workflow_conversion.py, hr.py), for any rows,
\* entries, cashiers and workers, where calls on tills and chains do not overlap.
THEOREM PapersStandHolds ==
  ASSUME TradeTypes, "till" \notin Overlapping, "sale" \notin Overlapping PROVE Spec => PapersStand
<1>1. Init => PaperInv
  BY QueueInit, AloneInit, PapersInit DEF PaperInv
<1>2. PaperInv /\ [Next]_vars => PaperInv'
  BY PapersNext
<1>3. PaperInv => VoucherPosted /\ InvoicesTaken /\ SourcesStand
  BY PostedHolds, TakenHolds, SourcesHold
<1>4. ASSUME PaperInv, PaperInv', [Next]_vars
      PROVE  [docs' # docs => (VoucherPosted /\ InvoicesTaken /\ SourcesStand)' /\ ReviewedStands]_vars
  <2>1. (VoucherPosted /\ InvoicesTaken /\ SourcesStand)'
    BY <1>3, <1>4, PTL
  <2>2. docs' = docs \/ ReviewedStands
    <3>1. CASE \E w \in Workers : Finish(w)
      BY <1>4, <3>1, ReviewedHolds
    <3>2. CASE \E w \in Workers : Begin(w) \/ Retry(w) \/ Replay(w) \/ GiveUp(w)
      BY <3>2 DEF Begin, Retry, Replay, GiveUp
    <3>3. CASE \E i \in DOMAIN docs : Desk(i)
      <4>1. PICK i \in DOMAIN docs : docs[i].kind = "Material Request" /\ docs' = [docs EXCEPT ![i].status = "Submitted"]
        BY <3>3 DEF Desk
      <4>2. \A j \in DOMAIN docs : docs[j].kind = "Report" => docs'[j] = docs[j]
        BY <4>1 DEF PaperInv, QueueInv
      <4> QED BY <4>2 DEF ReviewedStands
    <3>4. CASE UNCHANGED vars
      BY <3>4 DEF vars
    <3> QED BY <1>4, <3>1, <3>2, <3>3, <3>4 DEF Next
  <2> QED BY <2>1, <2>2
<1> QED BY <1>1, <1>2, <1>4, PTL DEF Spec, PapersStand

-----------------------------------------------------------------------------
(* The calendar: its invariant.                                            *)

\* The mutations that have changed their entry.
Used == {m \in 1..MaxEdits : applied[m] # 0}

AnEdit == [item : Items, act : Acts, version : 0..MaxEdits]

\* An entry once a mutation of it was applied.
After(s, act, m) == [IF act = "delete" THEN Deleted(s) ELSE Written(s, act) EXCEPT !.last = m]

\* What a process can hold.
Held ==
  [op : {"none"}]
    \cup [op : {"save"}, device : Devices, mutation : 1..Len(edits), exists : BOOLEAN]
    \cup [op : {"remind"}, items : SUBSET Items]
    \cup [op : {"import"}, range : SUBSET Days, days : SUBSET Days, since : SUBSET Days, seen : SUBSET Days]

Shapes ==
  /\ scopes \in [Items -> Scope] /\ notices \in [Items -> {0, 1}]
  /\ edits \in Seq(AnEdit) /\ Len(edits) <= MaxEdits
  /\ applied \in [1..MaxEdits -> {0, 1}]
  /\ view \in [Devices -> [Items -> 0..MaxEdits]] /\ outbox \in [Devices -> 0..Len(edits)]
  /\ holidays \in [Days -> [there : BOOLEAN, active : BOOLEAN]] /\ asked \in [Days -> BOOLEAN]
  /\ handled \in [Processes -> Held]

\* An entry that is shown was inserted, and a reminder marks the version it is of.
EntriesStand ==
  \A i \in Items :
    /\ scopes[i].active \/ scopes[i].version # 0 => scopes[i].there
    /\ notices[i] = 1 => scopes[i].notified = scopes[i].version
    /\ scopes[i].version <= Cardinality(Used)
    /\ \A d \in Devices : view[d][i] # 0 => scopes[i].there

\* An edit of an entry, once applied, has outrun the version it was made on.
EditsStand ==
  /\ \A m \in 1..Len(edits) :
       /\ edits[m].version # 0 => scopes[edits[m].item].there
       /\ edits[m].act \in {"done", "delete"} => edits[m].version # 0
  /\ \A m \in 1..MaxEdits :
       applied[m] # 0 => /\ m <= Len(edits) 
                         /\ scopes[edits[m].item].there /\ edits[m].version < scopes[edits[m].item].version

\* Of its range an import sees every day that is there, unless another import has
\* written it since.
Sees(w) ==
  LET import == handled[w]
  IN /\ import.days \subseteq import.range /\ import.seen \subseteq import.range
     /\ \A x \in import.range : holidays[x].there => x \in import.seen \cup import.since

ImportsStand ==
  /\ \A x \in Days : holidays[x].active => holidays[x].there
  /\ \A w \in Processes : handled[w].op = "import" => Sees(w)

CalendarInv == Shapes /\ EntriesStand /\ EditsStand /\ ImportsStand /\ OfficialAsReviewed

LEMMA EditAt ==
  ASSUME CalendarInv, NEW m \in 1..Len(edits)
  PROVE  edits[m] \in AnEdit /\ edits[m].item \in Items /\ edits[m].version \in Nat /\ edits[m].act \in Acts
<1>1. edits \in Seq(AnEdit)
  BY DEF CalendarInv, Shapes
<1>2. edits[m] \in AnEdit
  BY <1>1
<1> QED
  BY <1>2, CalendarBound DEF AnEdit

-----------------------------------------------------------------------------
(* The mutations of a calendar, counted.                                   *)

LEMMA UsedFinite ==
  ASSUME CalendarInv PROVE IsFiniteSet(Used) /\ Cardinality(Used) \in Nat /\ Cardinality(Used) <= MaxEdits
<1>1. IsFiniteSet(1..MaxEdits) /\ Cardinality(1..MaxEdits) = MaxEdits
  BY CalendarBound, FS_Interval
<1>2. Used \subseteq 1..MaxEdits
  BY DEF Used
<1> QED
  BY <1>1, <1>2, FS_Subset, FS_CardinalityType

LEMMA UsedGrows ==
  ASSUME CalendarInv, NEW m \in 1..MaxEdits, applied[m] = 0, applied' = [applied EXCEPT ![m] = @ + 1]
  PROVE  Cardinality(Used') = Cardinality(Used) + 1 /\ Cardinality(Used') <= MaxEdits
<1>1. applied' \in [1..MaxEdits -> {0, 1}]
  BY DEF CalendarInv, Shapes
<1>2. Used' = Used \cup {m} /\ m \notin Used
  BY <1>1 DEF Used, CalendarInv, Shapes
<1>3. Cardinality(Used') = Cardinality(Used) + 1
  BY <1>2, UsedFinite, FS_AddElement
<1>4. IsFiniteSet(1..MaxEdits) /\ Cardinality(1..MaxEdits) = MaxEdits
  BY SMTT(30), CalendarBound, FS_Interval
<1>5. Used' \subseteq 1..MaxEdits
  BY DEF Used
<1> QED
  BY <1>3, <1>4, <1>5, FS_Subset

-----------------------------------------------------------------------------
(* The invariant of the calendar holds.                                    *)

LEMMA CalendarStarts == CalendarInit => CalendarInv
<1> SUFFICES ASSUME CalendarInit PROVE CalendarInv
  OBVIOUS
<1> USE CalendarBound DEF CalendarInit
<1>1. Shapes
  <2>1. scopes \in [Items -> Scope]
    BY DEF NoScope, Scope
  <2>2. edits \in Seq(AnEdit) /\ Len(edits) = 0
    OBVIOUS
  <2>3. handled \in [Processes -> Held]
    BY DEF Free, Held
  <2> QED
    BY <2>1, <2>2, <2>3 DEF Shapes
<1>2. IsFiniteSet(Used) /\ Cardinality(Used) \in Nat
  <2>1. Used = {}
    BY DEF Used
  <2> QED
    BY <2>1, FS_EmptySet
<1>3. EntriesStand
  BY <1>2 DEF EntriesStand, NoScope
<1>4. EditsStand
  BY DEF EditsStand
<1>5. ImportsStand /\ OfficialAsReviewed
  BY DEF ImportsStand, OfficialAsReviewed, Free
<1> QED
  BY <1>1, <1>3, <1>4, <1>5 DEF CalendarInv

\* What a process holds stays of its shape while the edits grow.
LEMMA HeldGrows ==
  ASSUME Len(edits) \in Nat, Len(edits)' \in Nat, Len(edits) <= Len(edits)'
  PROVE  Held \subseteq Held'
BY DEF Held

LEMMA LoadKeeps == ASSUME CalendarInv, NEW d \in Devices, Load(d) PROVE CalendarInv'
<1> USE CalendarBound DEF Load
<1>1. Shapes'
  <2>1. [i \in Items |-> IF scopes[i].active THEN scopes[i].version ELSE 0] \in [Items -> 0..MaxEdits]
    BY DEF CalendarInv, Shapes, Scope
  <2>2. view' \in [Devices -> [Items -> 0..MaxEdits]]
    BY <2>1 DEF CalendarInv, Shapes
  <2>3. Held' = Held
    BY DEF Held
  <2> QED
    BY <2>2, <2>3 DEF CalendarInv, Shapes
<1>2. \A i \in Items, x \in Devices : view'[x][i] # 0 => scopes[i].there
  BY DEF CalendarInv, Shapes, EntriesStand
<1>3. EntriesStand'
  BY <1>2 DEF CalendarInv, EntriesStand, Used
<1> QED
  BY <1>1, <1>3 DEF CalendarInv, EditsStand, ImportsStand, Sees, OfficialAsReviewed

LEMMA EditKeeps == ASSUME CalendarInv, NEW d \in Devices, Edit(d) PROVE CalendarInv'
<1> USE CalendarBound DEF Edit
<1>1. PICK i \in Items, act \in Acts :
        /\ view[d][i] = 0 => act \in {"remind", "note"}
        /\ edits' = Append(edits, [item |-> i, act |-> act, version |-> view[d][i]])
  OBVIOUS
<1>2. view[d][i] \in 0..MaxEdits
  BY DEF CalendarInv, Shapes
<1>3. /\ edits' \in Seq(AnEdit) /\ Len(edits') = Len(edits) + 1 /\ Len(edits) \in Nat /\ Len(edits') <= MaxEdits
      /\ \A m \in 1..Len(edits) : edits'[m] = edits[m]
      /\ edits'[Len(edits) + 1] = [item |-> i, act |-> act, version |-> view[d][i]]
  <2>1. edits \in Seq(AnEdit) /\ Len(edits) < MaxEdits
    BY DEF CalendarInv, Shapes
  <2>2. [item |-> i, act |-> act, version |-> view[d][i]] \in AnEdit
    BY <1>2 DEF AnEdit
  <2> QED
    BY <1>1, <2>1, <2>2
<1>4. Shapes'
  <2>1. outbox' \in [Devices -> 0..Len(edits')]
    BY <1>3 DEF CalendarInv, Shapes
  <2>2. handled' \in [Processes -> Held']
    <3>1. Held \subseteq Held'
      BY <1>3, HeldGrows
    <3> QED
      BY <3>1 DEF CalendarInv, Shapes
  <2> QED
    BY <1>3, <2>1, <2>2 DEF CalendarInv, Shapes
<1>5. EntriesStand'
  BY DEF CalendarInv, EntriesStand, Used
<1>6. EditsStand'
  <2>1. \A m \in 1..Len(edits') :
          /\ edits'[m].version # 0 => scopes[edits'[m].item].there
          /\ edits'[m].act \in {"done", "delete"} => edits'[m].version # 0
    <3>1. TAKE m \in 1..Len(edits')
    <3>2. CASE m = Len(edits) + 1
      BY <1>1, <1>3, <3>2 DEF CalendarInv, EntriesStand
    <3>3. CASE m \in 1..Len(edits)
      BY <1>3, <3>3 DEF CalendarInv, EditsStand
    <3> QED
      BY <1>3, <3>2, <3>3
  <2>2. \A m \in 1..MaxEdits :
          applied[m] # 0 => /\ m <= Len(edits')
                            /\ scopes[edits'[m].item].there /\ edits'[m].version < scopes[edits'[m].item].version
    BY <1>3 DEF CalendarInv, EditsStand
  <2> QED
    BY <2>1, <2>2 DEF EditsStand
<1> QED
  BY <1>4, <1>5, <1>6 DEF CalendarInv, ImportsStand, Sees, OfficialAsReviewed

\* A step that only changes what its process holds.
LEMMA HoldKeeps ==
  ASSUME CalendarInv, NEW w \in Processes, NEW h \in Held, handled' = [handled EXCEPT ![w] = h],
         UNCHANGED <<part, scopes, notices, edits, applied, view, holidays, asked, missed>>,
         outbox' \in [Devices -> 0..Len(edits)],
         h.op = "import" => Sees(w)'
  PROVE  CalendarInv'
<1>1. Held' = Held
  BY DEF Held
<1>2. Shapes'
  BY <1>1 DEF CalendarInv, Shapes
<1>3. ImportsStand'
  <2>1. handled'[w] = h /\ \A v \in Processes : v # w => handled'[v] = handled[v]
    BY DEF CalendarInv, Shapes
  <2>2. ASSUME NEW v \in Processes, handled'[v].op = "import" PROVE Sees(v)'
    <3>1. CASE v = w
      BY <2>1, <2>2, <3>1
    <3>2. CASE v # w
      BY <2>1, <2>2, <3>2 DEF CalendarInv, ImportsStand, Sees
    <3> QED
      BY <3>1, <3>2
  <2> QED
    BY <2>2 DEF CalendarInv, ImportsStand
<1> QED
  BY <1>2, <1>3 DEF CalendarInv, EntriesStand, EditsStand, OfficialAsReviewed, Used

LEMMA FreeHeld == Free \in Held /\ Free.op = "none"
BY DEF Free, Held

LEMMA SendKeeps == ASSUME CalendarInv, NEW d \in Devices, NEW w \in Processes, Send(w, d) PROVE CalendarInv'
<1>1. outbox[d] \in 1..Len(edits)
  BY DEF Send, CalendarInv, Shapes
<1>2. edits[outbox[d]].item \in Items
  BY <1>1, EditAt
<1>3. scopes[edits[outbox[d]].item].there \in BOOLEAN
  BY <1>2 DEF CalendarInv, Shapes, Scope
<1>4. [op |-> "save", device |-> d, mutation |-> outbox[d], exists |-> scopes[edits[outbox[d]].item].there] \in Held
  BY <1>1, <1>3 DEF Held
<1> QED
  BY <1>4, HoldKeeps DEF Send, CalendarInv, Shapes

LEMMA AnsweredShape ==
  ASSUME CalendarInv, NEW w \in Processes, Answered(w), Len(edits)' = Len(edits)
  PROVE  outbox' \in [Devices -> 0..Len(edits)]
<1>1. outbox \in [Devices -> 0..Len(edits)] /\ Len(edits) \in Nat
  BY DEF CalendarInv, Shapes
<1>2. CASE outbox' = outbox
  BY <1>1, <1>2
<1>3. CASE outbox' = [outbox EXCEPT ![handled[w].device] = 0]
  <2>1. 0 \in 0..Len(edits)
    BY <1>1
  <2> HIDE <1>1
  <2>2. outbox \in [Devices -> 0..Len(edits)]
    BY <1>1
  <2> QED
    BY <1>3, <2>1, <2>2
<1> QED
  BY <1>2, <1>3 DEF Answered

\* A call that saves is of an edit that was made.
LEMMA SaveHeld ==
  ASSUME CalendarInv, NEW w \in Processes, handled[w].op = "save"
  PROVE  /\ handled[w].mutation \in 1..Len(edits) /\ handled[w].mutation \in 1..MaxEdits
         /\ handled[w].exists \in BOOLEAN
         /\ edits[handled[w].mutation] \in AnEdit
<1>1. handled[w] \in Held
  BY DEF CalendarInv, Shapes
<1>2. handled[w] \in [op : {"save"}, device : Devices, mutation : 1..Len(edits), exists : BOOLEAN]
  BY <1>1 DEF Held
<1>3. handled[w].mutation \in 1..Len(edits) /\ handled[w].exists \in BOOLEAN
  BY <1>2
<1>4. Len(edits) \in Nat /\ Len(edits) <= MaxEdits
  BY DEF CalendarInv, Shapes
<1> QED
  BY <1>3, <1>4, EditAt, CalendarBound

\* A process that is free again imports nothing.
LEMMA FreedImports ==
  ASSUME CalendarInv, NEW w \in Processes, handled' = [handled EXCEPT ![w] = Free], holidays' = holidays
  PROVE  ImportsStand'
<1>1. \A v \in Processes : v # w => handled'[v] = handled[v]
  BY DEF CalendarInv, Shapes
<1>2. handled'[w].op = "none"
  BY FreeHeld DEF CalendarInv, Shapes
<1>3. \A v \in Processes : handled'[v].op = "import" => Sees(v)'
  BY <1>1, <1>2 DEF CalendarInv, ImportsStand, Sees
<1> QED
  BY <1>3 DEF CalendarInv, ImportsStand

\* The save of an edit finds its entry as the device had loaded it, and does not
\* find the edit applied.
LEMMA SaveFinds ==
  ASSUME CalendarInv, NEW w \in Processes, SavePersonal(w)
  PROVE  LET m == handled[w].mutation  e == edits[m]  s == scopes[e.item]
         IN /\ applied[m] = 0
            /\ e.version = IF s.active THEN s.version ELSE 0
            /\ s.version \in Nat
            /\ e.act = "delete" => s.there
<1> DEFINE m == handled[w].mutation  e == edits[m]  s == scopes[e.item]
<1>1. m \in 1..Len(edits) /\ m \in 1..MaxEdits /\ e \in AnEdit
  BY SaveHeld DEF SavePersonal
<1>2. s \in Scope
  BY <1>1 DEF CalendarInv, Shapes, AnEdit
<1>3. IF handled[w].exists THEN s.last # m /\ s.active /\ s.version = e.version ELSE ~s.there
  BY DEF SavePersonal, Fresh
<1>4. /\ s.active \/ s.version # 0 => s.there
      /\ e.version # 0 => s.there
      /\ e.act \in {"done", "delete"} => e.version # 0
      /\ applied[m] # 0 => s.there /\ e.version < s.version
  BY <1>1 DEF CalendarInv, EntriesStand, EditsStand, AnEdit
<1>5. s.version \in Nat /\ s.active \in BOOLEAN /\ e.version \in Nat /\ s.there \in BOOLEAN
  BY <1>1, <1>2, CalendarBound DEF Scope, AnEdit
<1> HIDE DEF m, e, s
<1>6. applied[m] = 0 /\ (e.version = IF s.active THEN s.version ELSE 0) /\ (e.act = "delete" => s.there)
  <2>1. CASE handled[w].exists
    BY <1>3, <1>4, <1>5, <2>1
  <2>2. CASE ~handled[w].exists
    BY <1>3, <1>4, <1>5, <2>2
  <2> QED
    BY <2>1, <2>2
<1> QED
  BY <1>5, <1>6 DEF m, e, s

\* What becomes of the entry.
LEMMA Marked ==
  ASSUME NEW x \in Scope, NEW m \in 0..MaxEdits
  PROVE  LET y == [x EXCEPT !.last = m]
         IN y \in Scope /\ y.there = x.there /\ y.version = x.version /\ y.last = m
BY DEF Scope

LEMMA SaveWrites ==
  ASSUME NEW s \in Scope, NEW act \in Acts, NEW m \in 1..MaxEdits, s.version < MaxEdits, act = "delete" => s.there
  PROVE  /\ After(s, act, m) \in Scope /\ After(s, act, m).there
         /\ After(s, act, m).version = s.version + 1 /\ After(s, act, m).last = m
<1>1. /\ s.kind \in {"Reminder", "PersonalDay"} /\ s.there \in BOOLEAN
      /\ s.version \in Nat /\ s.version + 1 \in 0..MaxEdits /\ m \in 0..MaxEdits
  BY CalendarBound DEF Scope
<1>2. CASE act = "delete"
  <2>1. s.there = TRUE
    BY <1>1, <1>2
  <2>2. Deleted(s) = [s EXCEPT !.there = TRUE, !.active = FALSE, !.status = "Cancelled", !.version = s.version + 1]
    BY <2>1 DEF Deleted, Scope
  <2>3. Deleted(s) \in Scope /\ Deleted(s).there /\ Deleted(s).version = s.version + 1
    BY <1>1, <2>2 DEF Scope
  <2>4. After(s, act, m) = [Deleted(s) EXCEPT !.last = m]
    BY <1>2 DEF After
  <2> QED
    BY <1>1, <2>3, <2>4, Marked
<1>3. CASE act # "delete"
  <2> DEFINE k == CASE act = "remind" -> "Reminder" [] act = "note" -> "PersonalDay" [] OTHER -> s.kind
             t == IF act = "done" THEN "Completed" ELSE "Open"
  <2>1. k \in {"Reminder", "PersonalDay"} /\ t \in {"Open", "Completed", "Cancelled"}
    BY <1>1
  <2>2. Written(s, act) =
          [s EXCEPT !.there = TRUE, !.active = TRUE, !.version = s.version + 1, !.kind = k, !.status = t,
                    !.due = FALSE, !.notified = 0]
    BY DEF Written, Scope
  <2>3. 0 \in 0..MaxEdits
    BY CalendarBound
  <2> HIDE DEF k, t
  <2>4. Written(s, act) \in Scope /\ Written(s, act).there /\ Written(s, act).version = s.version + 1
    BY <1>1, <2>1, <2>2, <2>3 DEF Scope
  <2>5. After(s, act, m) = [Written(s, act) EXCEPT !.last = m]
    BY <1>3 DEF After
  <2> QED
    BY <1>1, <2>4, <2>5, Marked
<1> QED
  BY <1>2, <1>3

LEMMA SaveKeeps == ASSUME CalendarInv, NEW w \in Processes, SavePersonal(w) PROVE CalendarInv'
<1> DEFINE m == handled[w].mutation  e == edits[m]  s == scopes[e.item]
           x == After(s, e.act, m)
<1> USE CalendarBound
<1>1. /\ m \in 1..Len(edits) /\ m \in 1..MaxEdits /\ e \in AnEdit /\ e.item \in Items
      /\ e.version \in Nat /\ e.act \in Acts /\ s \in Scope
  BY SaveHeld, EditAt DEF SavePersonal, CalendarInv, Shapes
<1>2. /\ applied[m] = 0 /\ (e.version = IF s.active THEN s.version ELSE 0)
      /\ s.version \in Nat /\ (e.act = "delete" => s.there)
  BY SaveFinds
<1>3. /\ scopes' = [scopes EXCEPT ![e.item] = x] /\ notices' = [notices EXCEPT ![e.item] = 0]
      /\ applied' = [applied EXCEPT ![m] = @ + 1] /\ handled' = [handled EXCEPT ![w] = Free]
      /\ UNCHANGED <<part, edits, view, holidays, asked, missed>> /\ Answered(w)
  BY DEF SavePersonal, After
<1>4. Cardinality(Used') = Cardinality(Used) + 1 /\ Cardinality(Used') <= MaxEdits /\ Cardinality(Used) \in Nat
  BY <1>1, <1>2, <1>3, UsedGrows, UsedFinite
<1>5. s.version <= Cardinality(Used)
  BY <1>1 DEF CalendarInv, EntriesStand
<1>6. x \in Scope /\ x.there /\ x.version = s.version + 1 /\ x.last = m
  <2>1. s.version < MaxEdits
    BY <1>2, <1>4, <1>5
  <2> QED
    BY SMTT(30), <1>1, <1>2, <2>1, SaveWrites
<1>7. e.item \in Items /\ e.version \in Nat /\ e.version <= s.version
  BY <1>1, <1>2
<1>8. /\ scopes \in [Items -> Scope] /\ notices \in [Items -> {0, 1}] /\ applied \in [1..MaxEdits -> {0, 1}]
      /\ Len(edits) \in Nat
  BY DEF CalendarInv, Shapes
<1> DEFINE i == e.item
<1> HIDE DEF m, e, s, x, i
<1>0. i \in Items /\ scopes' = [scopes EXCEPT ![i] = x] /\ notices' = [notices EXCEPT ![i] = 0]
  BY <1>1, <1>3 DEF i
<1>9. /\ scopes'[i] = x /\ \A j \in Items : j # i => scopes'[j] = scopes[j]
      /\ notices'[i] = 0 /\ \A j \in Items : j # i => notices'[j] = notices[j]
      /\ applied'[m] = 1 /\ \A n \in 1..MaxEdits : n # m => applied'[n] = applied[n]
  <2>1. scopes'[i] = x /\ \A j \in Items : j # i => scopes'[j] = scopes[j]
    BY <1>0, <1>8
  <2>2. notices'[i] = 0 /\ \A j \in Items : j # i => notices'[j] = notices[j]
    BY <1>0, <1>8
  <2>3. applied'[m] = 1 /\ \A n \in 1..MaxEdits : n # m => applied'[n] = applied[n]
    BY <1>1, <1>2, <1>3, <1>8
  <2> QED
    BY <2>1, <2>2, <2>3
<1>10. Shapes'
  <2>1. scopes' \in [Items -> Scope] /\ notices' \in [Items -> {0, 1}]
    BY <1>0, <1>6, <1>8
  <2>2. applied' \in [1..MaxEdits -> {0, 1}]
    <3>1. applied[m] + 1 \in {0, 1}
      BY <1>2
    <3> QED
      BY <1>1, <1>3, <1>8, <3>1
  <2>3. outbox' \in [Devices -> 0..Len(edits)]
    BY <1>3, AnsweredShape
  <2>4. Held' = Held
    BY <1>3 DEF Held
  <2>5. handled' \in [Processes -> Held]
    BY <1>3, FreeHeld DEF CalendarInv, Shapes
  <2> QED
    BY <1>3, <2>1, <2>2, <2>3, <2>4, <2>5 DEF CalendarInv, Shapes
<1>11. EntriesStand'
  <2> SUFFICES ASSUME NEW j \in Items
               PROVE  /\ scopes'[j].active \/ scopes'[j].version # 0 => scopes'[j].there
                      /\ notices'[j] = 1 => scopes'[j].notified = scopes'[j].version
                      /\ scopes'[j].version <= Cardinality(Used')
                      /\ \A d \in Devices : view'[d][j] # 0 => scopes'[j].there
    BY DEF EntriesStand
  <2>2. CASE j = i
    BY <1>2, <1>4, <1>5, <1>6, <1>9, <2>2
  <2>3. CASE j # i
    <3>1. scopes[j].version \in Nat
      BY <1>8 DEF Scope
    <3>2. /\ scopes[j].active \/ scopes[j].version # 0 => scopes[j].there
          /\ notices[j] = 1 => scopes[j].notified = scopes[j].version
          /\ scopes[j].version <= Cardinality(Used)
          /\ \A d \in Devices : view[d][j] # 0 => scopes[j].there
      BY DEF CalendarInv, EntriesStand
    <3>3. scopes'[j] = scopes[j] /\ notices'[j] = notices[j] /\ view' = view
      BY <1>3, <1>9, <2>3
    <3>4. scopes[j].version <= Cardinality(Used')
      BY <1>4, <3>1, <3>2
    <3> QED
      BY <3>2, <3>3, <3>4
  <2> QED
    BY <2>2, <2>3
<1>12. EditsStand'
  <2>1. ASSUME NEW n \in 1..Len(edits)
        PROVE  /\ edits[n].item \in Items /\ edits[n].version \in Nat
               /\ scopes[edits[n].item].there => scopes'[edits[n].item].there
               /\ scopes[edits[n].item].version <= scopes'[edits[n].item].version
               /\ scopes[edits[n].item].version \in Nat /\ scopes'[edits[n].item].version \in Nat
    <3>1. edits[n].item \in Items /\ edits[n].version \in Nat
      BY EditAt
    <3>2. scopes[edits[n].item].version \in Nat
      BY <3>1, <1>8 DEF Scope
    <3>3. CASE edits[n].item = i
      <4>1. scopes[i] = s
        BY DEF s, i
      <4> QED
        BY <1>2, <1>6, <1>9, <3>1, <3>2, <3>3, <4>1
    <3>4. CASE edits[n].item # i
      BY <1>9, <3>1, <3>2, <3>4
    <3> QED
      BY <3>3, <3>4
  <2>2. \A n \in 1..Len(edits) :
          /\ edits[n].version # 0 => scopes'[edits[n].item].there
          /\ edits[n].act \in {"done", "delete"} => edits[n].version # 0
    BY <2>1 DEF CalendarInv, EditsStand
  <2>3. ASSUME NEW n \in 1..MaxEdits, applied'[n] # 0
        PROVE  n <= Len(edits) /\ scopes'[edits[n].item].there /\ edits[n].version < scopes'[edits[n].item].version
    <3>1. CASE n = m
      <4>1. edits[m] = e /\ e.item = i
        BY DEF e, i
      <4> QED
        BY <1>1, <1>2, <1>6, <1>7, <1>9, <3>1, <4>1
    <3>2. CASE n # m
      <4>1. n <= Len(edits) /\ scopes[edits[n].item].there /\ edits[n].version < scopes[edits[n].item].version
        BY <1>9, <2>3, <3>2 DEF CalendarInv, EditsStand
      <4> QED
        BY <1>8, <2>1, <4>1
    <3> QED
      BY <3>1, <3>2
  <2> QED
    BY <1>3, <2>2, <2>3 DEF EditsStand
<1>13. ImportsStand' /\ OfficialAsReviewed'
  BY <1>3, FreedImports DEF CalendarInv, OfficialAsReviewed
<1> QED
  BY <1>10, <1>11, <1>12, <1>13 DEF CalendarInv

LEMMA AnswerOnlyKeeps == ASSUME CalendarInv, NEW w \in Processes, AnswerOnly(w) PROVE CalendarInv'
BY AnsweredShape, FreeHeld, HoldKeeps DEF AnswerOnly

LEMMA ListKeeps == ASSUME CalendarInv, NEW w \in Processes, List(w) PROVE CalendarInv'
<1>1. [op |-> "remind", items |-> Listed] \in Held
  BY DEF Held, Listed
<1> QED
  BY <1>1, HoldKeeps DEF List, CalendarInv, Shapes

\* A step that changes no version, nor whether an entry is there.
LEMMA SameEntries ==
  ASSUME CalendarInv, UNCHANGED <<edits, applied, view>>,
         \A i \in Items : /\ scopes'[i].there = scopes[i].there /\ scopes'[i].active = scopes[i].active
                          /\ scopes'[i].version = scopes[i].version
                          /\ notices'[i] = 1 => scopes'[i].notified = scopes'[i].version
  PROVE  EntriesStand' /\ EditsStand'
<1>1. EntriesStand'
  BY DEF CalendarInv, EntriesStand, Used
<1>2. \A m \in 1..Len(edits) : edits[m].item \in Items
  BY EditAt
<1>3. Len(edits) \in Nat
  BY DEF CalendarInv, Shapes
<1>4. EditsStand'
  BY <1>2, <1>3 DEF CalendarInv, EditsStand
<1> QED
  BY <1>1, <1>4

LEMMA TimeComeKeeps == ASSUME CalendarInv, NEW i \in Items, TimeCome(i) PROVE CalendarInv'
<1>1. scopes' \in [Items -> Scope]
  <2>1. scopes \in [Items -> Scope] /\ scopes' = [scopes EXCEPT ![i] = [scopes[i] EXCEPT !.due = TRUE]]
    BY DEF TimeCome, CalendarInv, Shapes
  <2>2. [scopes[i] EXCEPT !.due = TRUE] \in Scope
    BY <2>1 DEF Scope
  <2> QED
    BY <2>1, <2>2
<1>2. Held' = Held
  BY DEF TimeCome, Held
<1>3. Shapes'
  BY <1>1, <1>2 DEF TimeCome, CalendarInv, Shapes
<1>4. \A j \in Items : /\ scopes'[j].there = scopes[j].there /\ scopes'[j].active = scopes[j].active
                       /\ scopes'[j].version = scopes[j].version /\ scopes'[j].notified = scopes[j].notified
  BY DEF TimeCome, CalendarInv, Shapes, Scope
<1>5. EntriesStand' /\ EditsStand'
  BY <1>4, SameEntries DEF TimeCome, CalendarInv, EntriesStand
<1> QED
  BY <1>3, <1>5 DEF TimeCome, CalendarInv, ImportsStand, Sees, OfficialAsReviewed

LEMMA RemindKeeps == ASSUME CalendarInv, NEW w \in Processes, Remind(w) PROVE CalendarInv'
<1>1. \A i \in Items : scopes[i] \in Scope /\ notices[i] \in {0, 1}
  BY DEF CalendarInv, Shapes
<1>2. \A i \in Items : i \in Reminded(w) => notices[i] = 0
  BY <1>1 DEF Reminded, Due, CalendarInv, EntriesStand
<1>3. scopes' \in [Items -> Scope]
  BY <1>1 DEF Remind, Scope
<1>4. notices' \in [Items -> {0, 1}]
  BY <1>1, <1>2 DEF Remind
<1>5. Held' = Held
  BY DEF Remind, Held
<1>6. Shapes'
  BY <1>3, <1>4, <1>5, FreeHeld DEF Remind, CalendarInv, Shapes
<1>7. \A i \in Items : /\ scopes'[i].there = scopes[i].there /\ scopes'[i].active = scopes[i].active
                       /\ scopes'[i].version = scopes[i].version
  BY <1>1 DEF Remind, Scope
<1>8. \A i \in Items : notices'[i] = 1 => scopes'[i].notified = scopes'[i].version
  <2>1. TAKE i \in Items
  <2>2. CASE i \in Reminded(w)
    BY <1>1, <2>2 DEF Remind, Scope
  <2>3. CASE i \notin Reminded(w)
    BY <2>3 DEF Remind, CalendarInv, EntriesStand
  <2> QED
    BY <2>2, <2>3
<1>9. EntriesStand' /\ EditsStand'
  BY <1>7, <1>8, SameEntries DEF Remind
<1> QED
  BY <1>6, <1>9, FreedImports DEF Remind, CalendarInv, OfficialAsReviewed

LEMMA StartImportKeeps == ASSUME CalendarInv, NEW w \in Processes, StartImport(w) PROVE CalendarInv'
<1>1. PICK start \in Days, end \in Days :
        \E days \in SUBSET {x \in Days : start <= x /\ x <= end} :
          handled' = [handled EXCEPT ![w] =
            [op |-> "import", range |-> {x \in Days : start <= x /\ x <= end}, days |-> days, since |-> {},
             seen |-> {x \in {y \in Days : start <= y /\ y <= end} : holidays[x].there}]]
  BY DEF StartImport
<1> DEFINE range == {x \in Days : start <= x /\ x <= end}
           seen == {x \in range : holidays[x].there}
<1>2. PICK days \in SUBSET range :
        handled' = [handled EXCEPT ![w] =
          [op |-> "import", range |-> range, days |-> days, since |-> {}, seen |-> seen]]
  BY <1>1
<1> DEFINE h == [op |-> "import", range |-> range, days |-> days, since |-> {}, seen |-> seen]
<1>3. h \in Held
  BY DEF Held
<1>4. holidays' = holidays /\ handled'[w] = h
  BY <1>2 DEF StartImport, CalendarInv, Shapes
<1>5. Sees(w)'
  BY <1>4 DEF Sees
<1> QED
  BY <1>2, <1>3, <1>5, HoldKeeps DEF StartImport, CalendarInv, Shapes

\* What a process that imports holds.
LEMMA ImportHeld ==
  ASSUME CalendarInv, NEW w \in Processes, handled[w].op = "import"
  PROVE  /\ handled[w] \in [op : {"import"}, range : SUBSET Days, days : SUBSET Days, since : SUBSET Days,
                            seen : SUBSET Days]
         /\ Sees(w)
<1>1. handled[w] \in Held
  BY DEF CalendarInv, Shapes
<1> QED
  BY <1>1 DEF Held, CalendarInv, ImportsStand

\* An import that ends leaves the other imports what they see.
LEMMA OthersSee ==
  ASSUME CalendarInv, NEW w \in Processes, FinishImport(w)
  PROVE  handled' \in [Processes -> Held] /\ ImportsStand'
<1> DEFINE a == handled[w]
<1>1. /\ a.range \subseteq Days /\ a.days \subseteq Days /\ a.since \subseteq Days /\ a.seen \subseteq Days
      /\ a.days \subseteq a.range /\ a.seen \subseteq a.range
  BY ImportHeld DEF FinishImport, Sees
<1>2. /\ holidays \in [Days -> [there : BOOLEAN, active : BOOLEAN]]
      /\ \A x \in Days : holidays[x].active => holidays[x].there
  BY DEF CalendarInv, Shapes, ImportsStand
<1>3. \A x \in Days : /\ holidays'[x].there <=> x \in a.days \/ holidays[x].there
                      /\ holidays'[x].active => holidays'[x].there
  BY <1>2 DEF FinishImport, Imported
<1>4. handled'[w] = Free /\ \A v \in Processes : v # w => handled'[v] = WrittenSince(w, v)
  BY DEF FinishImport
<1>5. ASSUME NEW v \in Processes, v # w, handled[v].op = "import"
      PROVE  handled'[v] \in Held /\ Sees(v)'
  <2>1. /\ handled[v] \in [op : {"import"}, range : SUBSET Days, days : SUBSET Days, since : SUBSET Days,
                            seen : SUBSET Days]
        /\ Sees(v)
    BY <1>5, ImportHeld
  <2>2. handled'[v] = [handled[v] EXCEPT !.since = @ \cup ((a.seen \cup a.days) \cap handled[v].range)]
    BY <1>4, <1>5 DEF WrittenSince
  <2>3. /\ handled'[v].range = handled[v].range /\ handled'[v].days = handled[v].days
        /\ handled'[v].seen = handled[v].seen
        /\ handled'[v].since = handled[v].since \cup ((a.seen \cup a.days) \cap handled[v].range)
    BY <2>1, <2>2
  <2>4. handled'[v] \in Held
    BY <1>1, <2>1, <2>2 DEF Held
  <2>5. Sees(v)'
    BY <1>3, <2>1, <2>3 DEF Sees
  <2> QED
    BY <2>4, <2>5
<1>6. ASSUME NEW v \in Processes, v # w, handled[v].op # "import"
      PROVE  handled'[v] = handled[v]
  BY <1>4, <1>6 DEF WrittenSince
<1>7. Held' = Held
  BY DEF FinishImport, Held
<1>8. handled' \in [Processes -> Held]
  <2>1. \A v \in Processes : handled'[v] \in Held
    BY <1>4, <1>5, <1>6, FreeHeld DEF CalendarInv, Shapes
  <2>2. handled' = [v \in Processes |-> handled'[v]]
    BY DEF FinishImport
  <2> QED
    BY <2>1, <2>2
<1>9. \A v \in Processes : handled'[v].op = "import" => Sees(v)'
  BY <1>4, <1>5, <1>6, FreeHeld
<1> QED
  BY <1>3, <1>8, <1>9 DEF ImportsStand

LEMMA FinishImportKeeps == ASSUME CalendarInv, NEW w \in Processes, FinishImport(w) PROVE CalendarInv'
<1> DEFINE a == handled[w]
<1>1. /\ a \in [op : {"import"}, range : SUBSET Days, days : SUBSET Days, since : SUBSET Days, seen : SUBSET Days]
      /\ Sees(w)
  BY ImportHeld DEF FinishImport
<1>2. /\ holidays \in [Days -> [there : BOOLEAN, active : BOOLEAN]] /\ asked \in [Days -> BOOLEAN]
      /\ \A x \in Days : holidays[x].active => holidays[x].there
  BY DEF CalendarInv, Shapes, ImportsStand
<1>3. /\ holidays' = Imported(holidays, a) /\ missed' = (missed \ a.range) \cup a.since
      /\ asked' = [x \in Days |-> IF x \in a.range THEN x \in a.days ELSE asked[x]]
  BY DEF FinishImport
<1>4. Shapes'
  <2>1. Held' = Held
    BY DEF FinishImport, Held
  <2>2. holidays' \in [Days -> [there : BOOLEAN, active : BOOLEAN]]
    <3>1. ASSUME NEW x \in Days
          PROVE  [there |-> holidays[x].there \/ x \in a.days,
                  active |-> x \in a.days \/ (holidays[x].active /\ x \notin a.seen)]
                   \in [there : BOOLEAN, active : BOOLEAN]
      <4>1. (holidays[x].there \/ x \in a.days) \in BOOLEAN
        OBVIOUS
      <4>2. (x \in a.days \/ (holidays[x].active /\ x \notin a.seen)) \in BOOLEAN
        OBVIOUS
      <4> QED
        BY <4>1, <4>2
    <3>2. holidays' = Imported(holidays, a)
      BY <1>3
    <3> HIDE <1>1, <1>2, <1>3 DEF a
    <3> QED
      BY <3>1, <3>2 DEF Imported
  <2>3. asked' \in [Days -> BOOLEAN]
    <3>1. ASSUME NEW x \in Days PROVE (IF x \in a.range THEN x \in a.days ELSE asked[x]) \in BOOLEAN
      <4>1. (x \in a.days) \in BOOLEAN /\ asked[x] \in BOOLEAN
        BY <1>2
      <4> QED
        BY <4>1
    <3>2. asked' = [x \in Days |-> IF x \in a.range THEN x \in a.days ELSE asked[x]]
      BY <1>3
    <3> HIDE <1>1, <1>2, <1>3 DEF a
    <3> QED
      BY <3>1, <3>2
  <2>4. /\ UNCHANGED <<scopes, notices, edits, applied, view, outbox>> /\ Shapes
        /\ handled' \in [Processes -> Held]
    BY OthersSee DEF FinishImport, CalendarInv
  <2> HIDE <1>1, <1>2, <1>3 DEF a
  <2> QED
    BY <2>1, <2>2, <2>3, <2>4 DEF Shapes
<1>5. OfficialAsReviewed'
  <2> SUFFICES ASSUME NEW x \in Days
               PROVE  holidays'[x].active = asked'[x] \/ (holidays'[x].active /\ x \in missed')
    BY DEF OfficialAsReviewed
  <2>0. /\ holidays[x] \in [there : BOOLEAN, active : BOOLEAN] /\ x \in Days
        /\ holidays'[x] = [there |-> holidays[x].there \/ x \in a.days,
                           active |-> x \in a.days \/ (holidays[x].active /\ x \notin a.seen)]
    BY <1>2, <1>3 DEF Imported
  <2>1. holidays'[x].active <=> x \in a.days \/ (holidays[x].active /\ x \notin a.seen)
    <3> DEFINE there == holidays[x].there \/ x \in a.days
               active == x \in a.days \/ (holidays[x].active /\ x \notin a.seen)
    <3>1. holidays'[x] = [there |-> there, active |-> active]
      BY <2>0
    <3> HIDE DEF there, active
    <3>2. holidays'[x].active = active
      BY <3>1
    <3>3. holidays'[x].active <=> active
      BY <3>2
    <3> QED
      BY <3>3 DEF active
  <2>4. holidays'[x].active \in BOOLEAN /\ asked'[x] \in BOOLEAN /\ holidays[x].active \in BOOLEAN
    <3>1. (x \in a.days \/ (holidays[x].active /\ x \notin a.seen)) \in BOOLEAN
      OBVIOUS
    <3>2. holidays'[x].active \in BOOLEAN /\ holidays[x].active \in BOOLEAN
      BY <2>0, <3>1
    <3>3. asked'[x] \in BOOLEAN
      BY <1>4 DEF Shapes
    <3> QED
      BY <3>2, <3>3
  <2>2. CASE x \in a.range
    <3>1. /\ asked'[x] <=> x \in a.days
          /\ x \in a.since => x \in missed'
      BY <1>3, <2>2
    <3>2. holidays[x].active => x \in a.seen \/ x \in a.since
      BY <1>1, <1>2, <2>2 DEF Sees
    <3> QED
      BY <2>1, <2>4, <3>1, <3>2
  <2>3. CASE x \notin a.range
    <3>1. x \notin a.days /\ x \notin a.seen
      BY <1>1, <2>3 DEF Sees
    <3>2. asked'[x] = asked[x] /\ (x \in missed => x \in missed')
      BY <1>3, <2>3
    <3>3. holidays'[x].active = holidays[x].active
      BY <2>1, <2>4, <3>1
    <3> QED
      BY <3>2, <3>3 DEF CalendarInv, OfficialAsReviewed
  <2> QED
    BY <2>2, <2>3
<1> QED
  BY <1>4, <1>5, OthersSee DEF FinishImport, CalendarInv, EntriesStand, EditsStand, Used

LEMMA FailKeeps == ASSUME CalendarInv, NEW w \in Processes, Fail(w) PROVE CalendarInv'
BY FreeHeld, HoldKeeps DEF Fail, CalendarInv, Shapes

LEMMA CalendarIdle == ASSUME CalendarInv, UNCHANGED calendarVars PROVE CalendarInv'
BY DEF calendarVars, CalendarInv, Shapes, Held, EntriesStand, EditsStand, ImportsStand, Sees, OfficialAsReviewed, Used

LEMMA CalendarStepKeeps == ASSUME CalendarInv, [CalendarNext]_calendarVars PROVE CalendarInv'
<1>1. CASE \E d \in Devices : Load(d) \/ Edit(d) \/ \E w \in Processes : Send(w, d)
  BY <1>1, LoadKeeps, EditKeeps, SendKeeps
<1>2. CASE \E w \in Processes : SavePersonal(w) \/ AnswerOnly(w)
  BY <1>2, SaveKeeps, AnswerOnlyKeeps
<1>3. CASE \E w \in Processes : List(w) \/ Remind(w)
  BY <1>3, ListKeeps, RemindKeeps
<1>4. CASE \E w \in Processes : StartImport(w) \/ FinishImport(w) \/ Fail(w)
  BY <1>4, StartImportKeeps, FinishImportKeeps, FailKeeps
<1>5. CASE \E i \in Items : TimeCome(i)
  BY <1>5, TimeComeKeeps
<1>6. CASE UNCHANGED calendarVars
  BY <1>6, CalendarIdle
<1> QED
  BY <1>1, <1>2, <1>3, <1>4, <1>5, <1>6 DEF CalendarNext

LEMMA CalendarInvTells == CalendarInv => CalendarTypeOK /\ OnceEach /\ OfficialAsReviewed
<1> SUFFICES ASSUME CalendarInv PROVE CalendarTypeOK /\ OnceEach /\ OfficialAsReviewed
  OBVIOUS
<1>1. CalendarTypeOK
  <2>1. view \in [Devices -> [Items -> 0..MaxEdits]] /\ outbox \in [Devices -> 0..Len(edits)]
    BY DEF CalendarInv, Shapes
  <2>2. \A d \in Devices : outbox[d] \in 0..Len(edits) /\ view[d] \in [Items -> 0..MaxEdits]
    BY <2>1
  <2> QED
    BY <2>2 DEF CalendarInv, Shapes, CalendarTypeOK
<1>2. OnceEach
  <2>1. applied \in [1..MaxEdits -> {0, 1}] /\ notices \in [Items -> {0, 1}]
    BY DEF CalendarInv, Shapes
  <2>2. (\A m \in 1..MaxEdits : applied[m] \in {0, 1}) /\ (\A i \in Items : notices[i] \in {0, 1})
    BY <2>1
  <2> QED
    BY <2>2 DEF OnceEach
<1> QED
  BY <1>1, <1>2 DEF CalendarInv

\* No edit is lost: only a save leaves its mark on an entry, and it found the
\* version the device had loaded.
LEMMA NoneLost == ASSUME CalendarInv, [CalendarNext]_calendarVars PROVE NoLostEdit
<1>1. CASE \E w \in Processes : SavePersonal(w)
  <2>1. PICK w \in Processes : SavePersonal(w)
    BY <1>1
  <2> DEFINE m == handled[w].mutation  e == edits[m]  s == scopes[e.item]
             x == After(s, e.act, m)
  <2>2. e.item \in Items /\ scopes \in [Items -> Scope] /\ scopes' = [scopes EXCEPT ![e.item] = x]
    BY <2>1, SaveHeld, EditAt DEF SavePersonal, CalendarInv, Shapes, After
  <2>3. e.version = IF s.active THEN s.version ELSE 0
    BY <2>1, SaveFinds
  <2>4. x.last = m
    BY DEF After, Deleted, Written, Scope
  <2> HIDE DEF x
  <2>5. \A i \in Items : scopes'[i].last # scopes[i].last => i = e.item /\ scopes'[i].last = m
    BY <2>2, <2>4
  <2> QED
    BY <2>3, <2>5 DEF NoLostEdit
<1>2. ASSUME \A i \in Items : scopes'[i].last = scopes[i].last PROVE NoLostEdit
  BY <1>2 DEF NoLostEdit
<1>3. CASE scopes' = scopes
  BY <1>2, <1>3
<1>4. CASE \E i \in Items : TimeCome(i)
  <2>1. \A j \in Items : scopes'[j].last = scopes[j].last
    BY <1>4 DEF TimeCome, CalendarInv, Shapes, Scope
  <2> QED
    BY <1>2, <2>1
<1>5. CASE \E w \in Processes : Remind(w)
  <2>1. \A j \in Items : scopes'[j].last = scopes[j].last
    BY <1>5 DEF Remind, CalendarInv, Shapes, Scope
  <2> QED
    BY <1>2, <2>1
<1>6. \/ \E w \in Processes : SavePersonal(w) \/ Remind(w)
      \/ \E i \in Items : TimeCome(i)
      \/ scopes' = scopes
  BY DEF CalendarNext, calendarVars, Load, Edit, Send, AnswerOnly, List, StartImport, FinishImport, Fail
<1> QED
  BY <1>1, <1>3, <1>4, <1>5, <1>6

\* However devices, calls, jobs and imports interleave, for any number of each:
\* no edit is lost or applied twice, no version of an entry is reminded of twice,
\* and a day is official if the import that covered it last had it, but for a day
\* another import entered after that one had begun (save_personal,
\* dispatch_reminders, import_official).
THEOREM CalendarKeptHolds ==
  CalendarSpec => CalendarKept
<1>1. CalendarInit => CalendarInv
  BY CalendarStarts
<1>2. CalendarInv /\ [CalendarNext]_calendarVars => CalendarInv'
  BY CalendarStepKeeps
<1>3. CalendarInv' => (CalendarTypeOK /\ OnceEach /\ OfficialAsReviewed)'
  BY CalendarInvTells, PTL
<1>4. CalendarInv /\ [CalendarNext]_calendarVars => NoLostEdit
  BY NoneLost
<1>5. CalendarInv /\ CalendarInv' /\ [CalendarNext]_calendarVars =>
        [<<scopes, applied, notices, holidays, asked>>' # <<scopes, applied, notices, holidays, asked>> =>
           (CalendarTypeOK /\ OnceEach /\ OfficialAsReviewed)' /\ NoLostEdit]_calendarVars
  BY <1>3, <1>4
<1> QED
  BY <1>1, <1>2, <1>5, PTL DEF CalendarSpec, CalendarKept

===============================================================================
