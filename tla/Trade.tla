--------------------------------- MODULE Trade ---------------------------------
(***************************************************************************)
(* The writes of accounting, selling, buying, tills and work reports, and  *)
(* the queue through which a client that may be offline sends them: a      *)
(* write is stored with its answer under the client's key and answered     *)
(* from there when it comes again.                                         *)
(*                                                                         *)
(* A call is one REPEATABLE READ transaction.  Its checks are plain reads, *)
(* of the snapshot seen that Begin takes; saving, submitting or cancelling *)
(* a row needs it to be as it was seen (the stamp of the framework).  An   *)
(* operator returns the tables a call may commit, {} when it is refused.   *)
(* A behaviour is about one subject: subjects share the queue alone.       *)
(***************************************************************************)
EXTENDS Naturals, FiniteSets, Sequences, FiniteSetsExt

CONSTANTS
  Subjects,    \* subjects to check: "voucher", "report", "till", "sale"
  Entries,     \* lines a voucher or a report may be given
  Created,     \* kinds of ERPNext documents the client creates from nothing
  Cashiers,    \* users of the till
  Keys,        \* request keys
  Workers,     \* processes that serve calls
  Overlapping, \* subjects whose calls overlap; others are served one at a time
  MaxDocs,     \* bound: rows of a subject
  MaxVouchers, \* bound: vouchers, besides their journal entries
  NoCall       \* no call

Rows == UNION {1..MaxDocs[s] : s \in Subjects}

VARIABLES
  subject,   \* what the behaviour is about
  docs,      \* the rows, in the order of creation
  requests,  \* ASOUD API Request: the call and the answer stored under a key
  ran,       \* how often the call of a key was executed
  answers,   \* what the client was answered under a key
  txn        \* the call each worker serves

vars == <<subject, docs, requests, ran, answers, txn>>

-----------------------------------------------------------------------------
(* Rows.                                                                   *)

VoucherStatuses == {"Draft", "Pending Approval", "Approved", "Rejected"}

ReportStatuses == {"Draft", "Submitted", "Under Review", "Approved", "Returned", "Archived"}

DocStatuses == {"Draft", "Submitted", "Cancelled"}

SalesFlow == {<<"Quotation", "Sales Order">>, <<"Sales Order", "Delivery Note">>,
              <<"Sales Order", "Sales Invoice">>, <<"Delivery Note", "Sales Invoice">>}

BuyingFlow == {<<"Material Request", "Purchase Order">>, <<"Purchase Order", "Purchase Receipt">>,
               <<"Purchase Order", "Purchase Invoice">>}

\* A credit note is an invoice too, but one that cannot be returned again.
ReturnFlow == {<<"Sales Invoice", "Credit Note">>}

Flow == SalesFlow \cup BuyingFlow \cup ReturnFlow

\* What is created from nothing, by the call that does.
PurchaseRequests == {"Material Request"}

Orders == {"Quotation", "Sales Order"}

Invoices == {"Sales Invoice"}

Purchases == {"Purchase Order", "Purchase Invoice"}

StockEntries == {"Stock Entry"}

Assignments == {"Salary Structure Assignment"}

Payrolls == {"Payroll Entry"}

Timesheets == {"Timesheet"}

\* Requests and timesheets are only drafted, and payrolls submitted at once.
Offers(kind) ==
  CASE kind \in PurchaseRequests \cup Timesheets -> {FALSE}
    [] kind \in Payrolls                         -> {TRUE}
    [] kind \in Orders \cup Invoices \cup Purchases \cup StockEntries \cup Assignments -> BOOLEAN

Erp == Created \cup {f[1] : f \in Flow} \cup {f[2] : f \in Flow} \cup {"Payment Entry"}

Kinds == Erp \cup {"Voucher", "Journal Entry", "Report", "Opening", "POS Invoice", "Closing"}

Statuses == VoucherStatuses \cup ReportStatuses \cup DocStatuses \cup {"Open", "Closed"}

\* of: the rows it was made from; entry: its lines; by: the cashier.
Row == [kind : Kinds, status : Statuses,
        of : SUBSET Rows, entry : Entries \cup {<< >>}, by : Cashiers \cup {"nobody"}]

New(kind, status) == [kind |-> kind, status |-> status, of |-> {}, entry |-> << >>, by |-> "nobody"]

Result(d, i) == [docs |-> d, row |-> i, status |-> d[i].status]

Inserted(d, row) == Result(Append(d, row), Len(d) + 1)

Is(seen, i, kind, status) == seen[i].kind = kind /\ seen[i].status = status

Unchanged(d, seen, i) == d[i] = seen[i]

-----------------------------------------------------------------------------
(* Vouchers: lines are pairs of debit and credit in tenths.                *)

\* Amounts are rounded to whole units, half to even, for the check alone.
Money(tenths) ==
  LET whole == tenths \div 10  rest == tenths % 10
  IN IF rest > 5 \/ (rest = 5 /\ whole % 2 = 1) THEN whole + 1 ELSE whole

Debit(lines, value(_)) == MapThenSumSet(LAMBDA i : value(lines[i][1]), DOMAIN lines)

Credit(lines, value(_)) == MapThenSumSet(LAMBDA i : value(lines[i][2]), DOMAIN lines)

Balanced(lines) ==
  /\ Len(lines) >= 2
  /\ \A i \in DOMAIN lines : (Money(lines[i][1]) > 0) # (Money(lines[i][2]) > 0)
  /\ Debit(lines, Money) = Credit(lines, Money) /\ Debit(lines, Money) > 0

\* ERPNext posts what balances to the last digit.
Exact(tenths) == tenths

Posts(lines) == Debit(lines, Exact) = Credit(lines, Exact)

SaveVoucher(call, d, seen) ==
  IF call.row = 0
  THEN {r \in {Inserted(d, [New("Voucher", "Draft") EXCEPT !.entry = call.entry])} : Balanced(call.entry)}
  ELSE {r \in {Result([d EXCEPT ![call.row].entry = call.entry], call.row)} :
          Is(seen, call.row, "Voucher", "Draft") /\ Balanced(call.entry) /\ Unchanged(d, seen, call.row)}

SubmitForApproval(call, d, seen) ==
  {r \in {Result([d EXCEPT ![call.row].status = "Pending Approval"], call.row)} :
     /\ Is(seen, call.row, "Voucher", "Draft") \/ Is(seen, call.row, "Voucher", "Rejected")
     /\ Unchanged(d, seen, call.row)}

\* Mutation of ApproveVoucher: sets the status alone, whatever the stamp.
ApproveBySet(call, d, seen) ==
  {r \in {Result(Append([d EXCEPT ![call.row].status = "Approved"],
                        [New("Journal Entry", "Submitted") EXCEPT !.of = {call.row}, !.entry = seen[call.row].entry]),
                 call.row)} :
     Is(seen, call.row, "Voucher", "Pending Approval") /\ Posts(seen[call.row].entry)}

\* The journal entry carries the lines and is submitted before the voucher is saved.
ApproveVoucher(call, d, seen) ==
  {r \in {Result(Append([d EXCEPT ![call.row].status = "Approved"],
                        [New("Journal Entry", "Submitted") EXCEPT !.of = {call.row}, !.entry = seen[call.row].entry]),
                 call.row)} :
     /\ Is(seen, call.row, "Voucher", "Pending Approval") /\ Posts(seen[call.row].entry)
     /\ Unchanged(d, seen, call.row)}

RejectVoucher(call, d, seen) ==
  {r \in {Result([d EXCEPT ![call.row].status = "Rejected"], call.row)} :
     Is(seen, call.row, "Voucher", "Pending Approval") /\ Unchanged(d, seen, call.row)}

-----------------------------------------------------------------------------
(* Work reports.  The status is one the client sends.                      *)

Reviewed == {"Approved", "Archived"}

\* Mutation of SaveReport: looks at the report where the client read it, not where it saves.
SaveReportOver(call, d, seen) ==
  IF call.row = 0
  THEN {Inserted(d, [New("Report", call.status) EXCEPT !.entry = call.entry])}
  ELSE {r \in {Result([d EXCEPT ![call.row].entry = call.entry, ![call.row].status = call.status], call.row)} :
          seen[call.row].status \notin Reviewed}

SaveReport(call, d, seen) ==
  IF call.row = 0
  THEN {Inserted(d, [New("Report", call.status) EXCEPT !.entry = call.entry])}
  ELSE {r \in {Result([d EXCEPT ![call.row].entry = call.entry, ![call.row].status = call.status], call.row)} :
          seen[call.row].status \notin Reviewed /\ Unchanged(d, seen, call.row)}

\* A review looks at no status.
ReviewReport(call, d, seen) ==
  {r \in {Result([d EXCEPT ![call.row].status = call.status], call.row)} : Unchanged(d, seen, call.row)}

-----------------------------------------------------------------------------
(* The till of a cashier: sessions, their invoices and their closing.      *)

OpenSessions(seen, user) == {i \in DOMAIN seen : Is(seen, i, "Opening", "Open") /\ seen[i].by = user}

CreateSession(call, d, seen) ==
  {r \in {Inserted(d, [New("Opening", "Open") EXCEPT !.by = call.user])} : OpenSessions(seen, call.user) = {}}

CreatePosInvoice(call, d, seen) ==
  {r \in {Inserted(d, [New("POS Invoice", "Submitted") EXCEPT !.by = call.user])} : OpenSessions(seen, call.user) # {}}

\* The invoices of the cashier's session, as ERPNext finds them: those since it was opened.
InvoicesOf(seen, i) ==
  {j \in DOMAIN seen : j > i /\ seen[j].kind = "POS Invoice" /\ seen[j].by = seen[i].by}

\* Mutation of CloseSession: a session is closed a second time.
CloseSessionAgain(call, d, seen) ==
  {r \in {Inserted([d EXCEPT ![call.row].status = "Closed"],
                   [New("Closing", "Submitted") EXCEPT !.of = {call.row} \cup InvoicesOf(seen, call.row)])} :
     Unchanged(d, seen, call.row)}

\* ERPNext closes the opening entry when the closing entry is submitted.
CloseSession(call, d, seen) ==
  {r \in {Inserted([d EXCEPT ![call.row].status = "Closed"],
                   [New("Closing", "Submitted") EXCEPT !.of = {call.row} \cup InvoicesOf(seen, call.row)])} :
     Is(seen, call.row, "Opening", "Open") /\ Unchanged(d, seen, call.row)}

-----------------------------------------------------------------------------
(* ERPNext documents, and what was made from them.                         *)

\* The framework refuses links to cancelled rows, and to cancel what a submitted row links to.
LinksLive(seen, links) == \A i \in links : seen[i].status # "Cancelled"

LinkedTo(seen, i) == {j \in DOMAIN seen : i \in seen[j].of /\ seen[j].status = "Submitted"}

StatusOf(submit) == IF submit THEN "Submitted" ELSE "Draft"

CreateDoc(call, d, seen) ==
  {r \in {Inserted(d, New(call.kind, StatusOf(call.submit)))} : call.submit \in Offers(call.kind)}

\* Mutation of ContinueDoc: a draft may be continued.
ContinueDraft(call, d, seen) ==
  {r \in {Inserted(d, [New(call.kind, StatusOf(call.submit)) EXCEPT !.of = {call.row}])} :
     <<seen[call.row].kind, call.kind>> \in Flow /\ LinksLive(seen, {call.row})}

ContinueDoc(call, d, seen) ==
  {r \in {Inserted(d, [New(call.kind, StatusOf(call.submit)) EXCEPT !.of = {call.row}])} :
     <<seen[call.row].kind, call.kind>> \in Flow /\ seen[call.row].status = "Submitted"}

\* References are pairs of a row and an amount; ERPNext wants submitted ones.
Payable(party) ==
  CASE party = "Customer" -> {"Sales Invoice", "Sales Order"}
    [] party = "Supplier" -> {"Purchase Invoice", "Purchase Order"}
    [] party = "Employee" -> {}

Allocated(call) == MapThenSumSet(LAMBDA i : call.refs[i][2], DOMAIN call.refs)

Referenced(call) == {call.refs[i][1] : i \in DOMAIN call.refs}

CreatePayment(call, d, seen) ==
  {r \in {Inserted(d, [New("Payment Entry", StatusOf(call.submit)) EXCEPT !.of = Referenced(call)])} :
     /\ \A i \in Referenced(call) : seen[i].kind \in Payable(call.party) /\ seen[i].status = "Submitted"
     /\ Cardinality(Referenced(call)) = Len(call.refs)
     /\ Allocated(call) <= call.amount}

SubmitDoc(call, d, seen) ==
  {r \in {Result([d EXCEPT ![call.row].status = "Submitted"], call.row)} :
     /\ seen[call.row].status = "Draft"
     /\ LinksLive(seen, seen[call.row].of) /\ Unchanged(d, seen, call.row)}

CancelDoc(call, d, seen) ==
  {r \in {Result([d EXCEPT ![call.row].status = "Cancelled"], call.row)} :
     /\ seen[call.row].status = "Submitted"
     /\ LinkedTo(seen, call.row) = {} /\ Unchanged(d, seen, call.row)}

-----------------------------------------------------------------------------
(* Calls, and the queue.                                                   *)

Calls(s, rows) ==
  CASE s = "voucher" ->
         [op : {"save_voucher"}, row : {0} \cup rows, entry : Entries]
    \cup [op : {"submit_for_approval", "approve_voucher", "reject_voucher"}, row : rows]
    [] s = "report" ->
         [op : {"save_report"}, row : {0} \cup rows, entry : Entries, status : {"Submitted", "Archived"}]
    \cup [op : {"review_report"}, row : rows, status : {"Approved", "Returned"}]
    [] s = "till" ->
         [op : {"create_pos_session", "create_pos_invoice"}, user : Cashiers]
    \cup [op : {"close_pos_session"}, row : rows]
    [] s = "sale" ->
         [op : {"create"}, kind : Created, submit : BOOLEAN]
    \cup [op : {"create_from"}, row : rows, kind : {f[2] : f \in Flow}, submit : BOOLEAN]
    \cup [op : {"create_payment_entry"}, party : {"Customer"}, amount : {1},
          refs : {<<>>} \cup {<<r>> : r \in rows \X {1, 2}}, submit : {TRUE}]
    \cup [op : {"submit", "cancel"}, row : rows]

Effects(call, d, seen) ==
  CASE call.op = "save_voucher"         -> SaveVoucher(call, d, seen)
    [] call.op = "submit_for_approval"  -> SubmitForApproval(call, d, seen)
    [] call.op = "approve_voucher"      -> ApproveVoucher(call, d, seen)
    [] call.op = "reject_voucher"       -> RejectVoucher(call, d, seen)
    [] call.op = "save_report"          -> SaveReport(call, d, seen)
    [] call.op = "review_report"        -> ReviewReport(call, d, seen)
    [] call.op = "create_pos_session"   -> CreateSession(call, d, seen)
    [] call.op = "create_pos_invoice"   -> CreatePosInvoice(call, d, seen)
    [] call.op = "close_pos_session"    -> CloseSession(call, d, seen)
    [] call.op = "create"               -> CreateDoc(call, d, seen)
    [] call.op = "create_from"          -> ContinueDoc(call, d, seen)
    [] call.op = "create_payment_entry" -> CreatePayment(call, d, seen)
    [] call.op = "submit"               -> SubmitDoc(call, d, seen)
    [] call.op = "cancel"               -> CancelDoc(call, d, seen)

\* The queue takes what is named like a write; two of the writes are not.
Queueable(call) == call.op \notin {"review_report", "close_pos_session"}

NoKey == "no key"

NoRequest == [call |-> NoCall, answer |-> <<0, "none">>]

Idle == [call |-> NoCall, key |-> NoKey, seen |-> << >>, known |-> NoRequest]

Busy(w) == txn[w].call # NoCall

InFlight(key) == \E w \in Workers : txn[w].key = key

Serve(w, call, key, known) ==
  txn' = [txn EXCEPT ![w] = [call |-> call, key |-> key, seen |-> docs, known |-> known]]

MayServe == subject \in Overlapping \/ \A w \in Workers : ~Busy(w)

\* A call that its reads refuse leaves nothing whenever it ends: it need not begin.
Possible(call) == Effects(call, docs, docs) # {}

\* A new call, with a key that no call in flight has.  Keys stand for fresh
\* ones: what a key was used for before is forgotten.
Begin(w) ==
  /\ ~Busy(w) /\ MayServe
  /\ \E call \in Calls(subject, DOMAIN docs) :
       /\ Possible(call) = TRUE
       /\ \E key \in IF Queueable(call) THEN {k \in Keys : ~InFlight(k)} ELSE {NoKey} :
            Serve(w, call, key, NoRequest)
  /\ requests' = [k \in Keys |-> IF InFlight(k) THEN requests[k] ELSE NoRequest]
  /\ ran' = [k \in Keys |-> IF InFlight(k) THEN ran[k] ELSE 0]
  /\ answers' = [k \in Keys |-> IF InFlight(k) THEN answers[k] ELSE {}]
  /\ UNCHANGED <<subject, docs>>

\* A client that got no answer sends the call again under its key, although
\* the first may be in flight or have committed.
Retry(w) ==
  /\ ~Busy(w)
  /\ \E key \in Keys, call \in Calls(subject, DOMAIN docs) :
       /\ requests[key].call = call \/ \E v \in Workers : txn[v].key = key /\ txn[v].call = call
       /\ (requests[key] # NoRequest \/ Possible(call)) = TRUE
       /\ Serve(w, call, key, requests[key])
  /\ UNCHANGED <<subject, docs, requests, ran, answers>>

\* Mutation of Taken: nothing keeps a key from being stored again.
TakenNever(key) == FALSE

\* The key is the name of its row.
Taken(key) == key \in Keys /\ requests[key] # NoRequest

\* The call is executed, and its answer stored with what it did.
Finish(w) ==
  /\ Busy(w) /\ txn[w].known = NoRequest
  /\ (~Taken(txn[w].key)) = TRUE
  /\ \E r \in Effects(txn[w].call, docs, txn[w].seen) :
       /\ Len(r.docs) <= MaxDocs[subject]
       /\ Cardinality({i \in DOMAIN r.docs : r.docs[i].kind = "Voucher"}) <= MaxVouchers
       /\ docs' = r.docs
       /\ IF txn[w].key = NoKey THEN UNCHANGED <<requests, ran, answers>>
          ELSE LET key == txn[w].key  answer == <<r.row, r.status>>
               IN /\ requests' = [requests EXCEPT ![key] = [call |-> txn[w].call, answer |-> answer]]
                  /\ ran' = [ran EXCEPT ![key] = @ + 1]
                  /\ answers' = [answers EXCEPT ![key] = @ \cup {answer}]
  /\ txn' = [txn EXCEPT ![w] = Idle]
  /\ UNCHANGED subject

\* A key that is known is answered from its row.
Replay(w) ==
  /\ Busy(w) /\ txn[w].known # NoRequest /\ txn[w].known.call = txn[w].call
  /\ answers' = [answers EXCEPT ![txn[w].key] = @ \cup {txn[w].known.answer}]
  /\ txn' = [txn EXCEPT ![w] = Idle]
  /\ UNCHANGED <<subject, docs, requests, ran>>

\* A call that is refused or fails leaves nothing, its key included.
GiveUp(w) ==
  /\ Busy(w)
  /\ txn' = [txn EXCEPT ![w] = Idle]
  /\ UNCHANGED <<subject, docs, requests, ran, answers>>

\* The desk submits and cancels what has no call of its own.
Desk(i) ==
  /\ i \in DOMAIN docs /\ docs[i].kind = "Material Request" /\ docs[i].status = "Draft"
  /\ docs' = [docs EXCEPT ![i].status = "Submitted"]
  /\ UNCHANGED <<subject, requests, ran, answers, txn>>

\* What the constants are: the client creates documents it has a call for.
TradeTypes ==
  /\ Subjects \subseteq {"voucher", "report", "till", "sale"}
  /\ Created \subseteq UNION {PurchaseRequests, Orders, Invoices, Purchases, StockEntries,
                             Assignments, Payrolls, Timesheets}
  /\ \A s \in Subjects : MaxDocs[s] \in Nat
  /\ NoKey \notin Keys
  /\ \A s \in Subjects : NoCall \notin Calls(s, Rows)

Init ==
  /\ subject \in Subjects /\ docs = << >>
  /\ requests = [k \in Keys |-> NoRequest] /\ ran = [k \in Keys |-> 0]
  /\ answers = [k \in Keys |-> {}]
  /\ txn = [w \in Workers |-> Idle]

Next ==
  \/ \E w \in Workers : Begin(w) \/ Retry(w) \/ Finish(w) \/ Replay(w) \/ GiveUp(w)
  \/ \E i \in DOMAIN docs : Desk(i)

Spec == Init /\ [][Next]_vars

-----------------------------------------------------------------------------
(* Properties.                                                             *)

\* Rows have the shape of their DocTypes.
TypeOK ==
  /\ subject \in Subjects
  /\ docs \in Seq(Row) /\ Len(docs) <= MaxDocs[subject]
  /\ \A k \in Keys : ran[k] \in Nat /\ (requests[k].call = NoCall \/ requests[k].call \in Calls(subject, Rows))

\* A write is executed once however often it comes under its key, also while
\* the first is running, and is always given the answer of that execution.
ExecutedOnce == TypeOK /\ \A k \in Keys : ran[k] <= 1 /\ answers[k] \subseteq {requests[k].answer}

\* An approved voucher has one journal entry, which has its lines, and no
\* other voucher has one.
VoucherPosted ==
  \A i \in DOMAIN docs : docs[i].kind = "Voucher" =>
    LET journals == {j \in DOMAIN docs : docs[j].kind = "Journal Entry" /\ docs[j].of = {i}}
    IN /\ Cardinality(journals) = IF docs[i].status = "Approved" THEN 1 ELSE 0
       /\ \A j \in journals : docs[j].entry = docs[i].entry

\* What was reviewed is not written any more, unless a review returns it.
ReviewedStands ==
  \A i \in DOMAIN docs : docs[i].kind = "Report" /\ docs[i].status \in Reviewed =>
    docs'[i].entry = docs[i].entry

Takings(j) == {c \in DOMAIN docs : docs[c].kind = "Closing" /\ j \in docs[c].of}

\* Every invoice of a till is taken in by one closing, or by none as long as
\* the session it was made in is open.
InvoicesTaken ==
  \A j \in DOMAIN docs : docs[j].kind = "POS Invoice" =>
    \/ Cardinality(Takings(j)) = 1
    \/ Takings(j) = {} /\ \E i \in OpenSessions(docs, docs[j].by) : i < j

\* What was made from a document and submitted keeps it submitted.
SourcesStand ==
  \A j \in DOMAIN docs : docs[j].kind \in Erp /\ docs[j].status = "Submitted" =>
    \A i \in docs[j].of : docs[i].status = "Submitted"

\* The papers of the office agree after every call, whether they were posted,
\* reviewed, closed or continued, and whatever was decided on stands
\* (voucher.py, hr.py, pos.py, workflow_conversion.py).
PapersStand ==
  [][docs' # docs => (VoucherPosted /\ InvoicesTaken /\ SourcesStand)' /\ ReviewedStands]_vars
=============================================================================
