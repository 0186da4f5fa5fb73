--------------------------------- MODULE Leave ---------------------------------
(* One employee's leave of one type with an allocation: daily and hourly       *)
(* requests, requests of a custom form that is executed as leave, and the      *)
(* applications made in self service.  Time and balance are counted in slots.  *)
EXTENDS Integers, FiniteSetsExt, Sequences

CONSTANTS
  Days,             \* the days leave is asked for
  Holidays,         \* those of them that are holidays
  Times,            \* from when to when hourly leave is asked for, in slots
  WorkingSlots,     \* the working time of a day
  Allocation,       \* what the employee may take
  MaxRequests, MaxApplications

VARIABLES
  requests,         \* the requests, each with its values, the values of a later correction and its native status
  applications,     \* Leave Applications; request is 0 for one made in self service
  entries           \* ledger entries of hourly leave: [request, amount]

vars == <<requests, applications, entries>>

DailyValues == {[kind |-> "Daily", from |-> d[1], to |-> d[2], start |-> 0, end |-> 0] : d \in Days \X Days}

HourlyValues ==
  {[kind |-> "Hourly", from |-> day, to |-> day, start |-> time[1], end |-> time[2]] : day \in Days, time \in Times}

InFlight == {"submitted", "in_review", "returned"}

Meet(v, w) == v.from <= w.to /\ v.to >= w.from

minutes_overlap(v, w) == v.start < w.end /\ w.start < v.end

\* The days of leave HRMS counts, in slots.
LeaveDays(v) == WorkingSlots * Cardinality((v.from..v.to) \ Holidays)

Amount(v) == IF v.kind = "Daily" THEN LeaveDays(v) ELSE v.end - v.start

Total(Set, Of(_)) == MapThenSumSet(Of, Set)

\* Corrections made on the re-opened form task are kept in its response.
effective_values(r) == IF r.correction = {} THEN r.values ELSE CHOOSE v \in r.correction : TRUE

-----------------------------------------------------------------------------
(* HRMS and its overlay *)

Standing(a) == a.status \in {"Open", "Approved"}

\* What HRMS still lets be consumed: it does not see hourly leave.
Consumption(own) ==
  Allocation - Total({k \in DOMAIN applications \ {own} : applications[k].status = "Approved"},
                     LAMBDA k : LeaveDays(applications[k]))

HourlyTaken == Total(DOMAIN entries, LAMBDA k : entries[k].amount)

\* Mutation of validate_leave_application: the hook is not installed.
NoOverlay(v, own) == TRUE

validate_leave_application(v, own) == HourlyTaken = 0 \/ Consumption(own) - HourlyTaken >= LeaveDays(v)

\* Leave Application.validate of an application that is not rejected.
Valid(v, own) ==
  /\ LeaveDays(v) > 0
  /\ \A k \in DOMAIN applications \ {own} : Standing(applications[k]) => ~Meet(applications[k], v)
  /\ Consumption(own) >= LeaveDays(v)
  /\ validate_leave_application(v, own)

-----------------------------------------------------------------------------
(* The rules of a leave request; own is the request edited, or 0 *)

remaining == Consumption(0) - HourlyTaken

\* Requests in flight reserve what they were stored with.
pending(own) ==
  Total({k \in DOMAIN applications : applications[k].status = "Open"}, LAMBDA k : LeaveDays(applications[k]))
  + Total({i \in DOMAIN requests \ {own} : requests[i].template /\ requests[i].status \in InFlight},
          LAMBDA i : Amount(requests[i].values))

\* Mutation of other_segments: leave that is approved and booked is forgotten.
OtherSegmentsUndecided(v, own) ==
  {i \in DOMAIN requests \ {own} :
     LET r == requests[i] IN
       /\ r.template /\ Meet(r.values, v)
       /\ r.status \in InFlight \/ (r.status = "approved" /\ r.native \in {"", "Failed"})}

\* The requests that still block the calendar, by the values they were stored with.
other_segments(v, own) ==
  {i \in DOMAIN requests \ {own} :
     LET r == requests[i] IN
       /\ r.template /\ Meet(r.values, v)
       /\ \/ r.status \in InFlight
          \/ r.status = "approved" /\ (r.native \in {"", "Failed"} \/ r.values.from \in v.from..v.to)}

\* The duration of hourly leave on a day other leave takes some slots of; {} if it breaks a rule.
hourly_duration(v, other) ==
  {n \in {v.end - v.start} : n >= 1 /\ n <= WorkingSlots /\ n + other <= WorkingSlots}

DailyRules(v, own) ==
  /\ v.from <= v.to /\ LeaveDays(v) > 0
  /\ other_segments(v, own) = {}
  /\ Valid(v, 0)

HourlyRules(v, own) ==
  LET others == {requests[i].values : i \in other_segments(v, own)}
      hourly == {i \in other_segments(v, own) : requests[i].values.kind = "Hourly"} IN
    /\ hourly_duration(v, Total(hourly, LAMBDA i : Amount(requests[i].values))) # {}
    /\ v.from \notin Holidays
    /\ \A o \in others : o.kind = "Hourly" /\ ~minutes_overlap(v, o)
    /\ \A k \in DOMAIN applications : Standing(applications[k]) => ~Meet(applications[k], v)

evaluate_leave(v, own) ==
  /\ IF v.kind = "Daily" THEN DailyRules(v, own) ELSE HourlyRules(v, own)
  /\ Amount(v) <= remaining - pending(own)

-----------------------------------------------------------------------------
(* The native document of an approved request *)

Application(v, status, i) == [from |-> v.from, to |-> v.to, status |-> status, request |-> i]

\* What on_approved inserts for request i: an application, a ledger entry or, refused, nothing.
Book(i) ==
  LET r == requests[i]
      v == effective_values(r) IN
    IF v.kind = "Hourly"
    THEN /\ UNCHANGED applications
         /\ entries' = IF hourly_duration(v, 0) # {} /\ Amount(v) <= remaining
                       THEN Append(entries, [request |-> i, amount |-> Amount(v)]) ELSE entries
    ELSE /\ UNCHANGED entries
         /\ applications' = IF Valid(v, 0) THEN Append(applications, Application(v, "Approved", i)) ELSE applications

\* An approval stands whatever becomes of its document.
dispatch(i, acted) ==
  /\ Book(i)
  /\ requests' = [requests EXCEPT ![i].status = "approved", ![i].acted = acted,
                                  ![i].native = IF <<applications, entries>>' = <<applications, entries>>
                                                THEN "Failed" ELSE "Created"]

-----------------------------------------------------------------------------
(* Requests *)

Request(v, template) ==
  [template |-> template, values |-> v, correction |-> {}, status |-> "submitted", acted |-> FALSE, native |-> ""]

create_request(v) ==
  /\ Len(requests) < MaxRequests
  /\ evaluate_leave(v, 0)
  /\ requests' = Append(requests, Request(v, TRUE))
  /\ UNCHANGED <<applications, entries>>

\* The form's own schema asks for a date range; nothing else is looked at until the approval.
submit_form(v) ==
  /\ Len(requests) < MaxRequests
  /\ v.from <= v.to
  /\ requests' = Append(requests, Request(v, FALSE))
  /\ UNCHANGED <<applications, entries>>

AfterForm(r) == IF r.acted THEN "in_review" ELSE "submitted"

\* Until somebody has acted, or once more after a return.
update_request(i, v) ==
  LET r == requests[i] IN
    /\ r.template
    /\ r.status = "returned" \/ r.status = "submitted"
    /\ evaluate_leave(v, i)
    /\ requests' = [requests EXCEPT ![i] = [r EXCEPT !.values = v, !.correction = {}, !.status = AfterForm(r)]]
    /\ UNCHANGED <<applications, entries>>

\* The requester completes the re-opened form task in the cartable.
complete_form_task(i, v) ==
  LET r == requests[i] IN
    /\ r.template /\ r.status = "returned"
    /\ evaluate_leave(v, i)
    /\ requests' = [requests EXCEPT ![i] = [r EXCEPT !.correction = {v} \ {r.values}, !.status = AfterForm(r)]]
    /\ UNCHANGED <<applications, entries>>

\* The first of two approvals, a return and a rejection.
Act(i, status) ==
  /\ requests[i].status \in {"submitted", "in_review"}
  /\ status = "in_review" => requests[i].status = "submitted"
  /\ requests' = [requests EXCEPT ![i].status = status, ![i].acted = @ \/ status # "returned"]
  /\ UNCHANGED <<applications, entries>>

approve(i) == requests[i].status \in {"submitted", "in_review"} /\ dispatch(i, TRUE)

cancel_request(i) ==
  /\ requests[i].status \in InFlight
  /\ requests' = [requests EXCEPT ![i].status = "cancelled"]
  /\ UNCHANGED <<applications, entries>>

\* Somebody retries the document once what has been in its way is gone.
create_native_document(i) ==
  /\ requests[i].status = "approved" /\ requests[i].native = "Failed"
  /\ dispatch(i, requests[i].acted)

-----------------------------------------------------------------------------
(* Self service *)

create_leave_application(v) ==
  /\ Cardinality({k \in DOMAIN applications : applications[k].request = 0}) < MaxApplications
  /\ v.from <= v.to /\ Valid(v, 0)
  /\ applications' = Append(applications, Application(v, "Open", 0))
  /\ UNCHANGED <<requests, entries>>

\* The approver decides, or the employee withdraws; only a rejection skips the balance.
Decide(k, status) ==
  /\ applications[k].status = "Open"
  /\ status # "Rejected" => Valid(applications[k], k)
  /\ applications' = [applications EXCEPT ![k].status = status]
  /\ UNCHANGED <<requests, entries>>

-----------------------------------------------------------------------------
Init == requests = <<>> /\ applications = <<>> /\ entries = <<>>

Next ==
  \/ \E v \in DailyValues \cup HourlyValues :
       \/ create_request(v)
       \/ \E i \in DOMAIN requests : update_request(i, v) \/ complete_form_task(i, v)
  \/ \E v \in DailyValues : submit_form(v) \/ create_leave_application(v)
  \/ \E i \in DOMAIN requests :
       \/ \E status \in {"in_review", "returned", "rejected"} : Act(i, status)
       \/ approve(i) \/ cancel_request(i) \/ create_native_document(i)
  \/ \E k \in DOMAIN applications : \E status \in {"Approved", "Rejected", "Cancelled"} : Decide(k, status)

Spec == Init /\ [][Next]_vars

-----------------------------------------------------------------------------
(* Properties *)

TypeOK ==
  /\ \A i \in DOMAIN requests :
       /\ requests[i].values \in DailyValues \cup HourlyValues
       /\ requests[i].correction \subseteq DailyValues \cup HourlyValues
       /\ requests[i].status \in InFlight \cup {"approved", "rejected", "cancelled"}
       /\ requests[i].native \in {"", "Created", "Failed"}
  /\ \A k \in DOMAIN applications : applications[k].status \in {"Open", "Approved", "Rejected", "Cancelled"}
  /\ \A k \in DOMAIN entries : entries[k].request \in DOMAIN requests

\* Leave requests that are in flight or approved.
Live == {i \in DOMAIN requests : requests[i].template /\ requests[i].status \in InFlight \cup {"approved"}}

\* What these requests ask for never meets, and the hourly ones of a day stay
\* within its working time.
Disjoint(Some) ==
  LET Of(i) == effective_values(requests[i]) IN
    /\ \A i, j \in Some : i # j /\ Meet(Of(i), Of(j)) =>
         Of(i).kind = "Hourly" /\ Of(j).kind = "Hourly" /\ ~minutes_overlap(Of(i), Of(j))
    /\ \A day \in Days :
         Total({i \in Some : Of(i).kind = "Hourly" /\ Of(i).from = day}, LAMBDA i : Amount(Of(i))) <= WorkingSlots

\* Leave asked for twice is refused whichever way and order its requests were
\* made, edited, approved, left without a document or retried, as long as none
\* of them was corrected on its form task.
NoDoubleLeave == Disjoint({i \in Live : requests[i].correction = {}})

\* "the total of the day must stay within the daily working hours"
\* (leave_hours.py:116-117): hourly leave booked on a day.
DayLimitKept ==
  LET Of(i) == effective_values(requests[i]) IN
    \A day \in Days :
      Total({i \in Live : requests[i].native = "Created" /\ Of(i).kind = "Hourly" /\ Of(i).from = day},
            LAMBDA i : Amount(Of(i))) <= WorkingSlots

\* "A full-day leave must not overspend what hourly leave left"
\* (leave_balance.py:159): requests, custom forms and self service together
\* never take more than is allocated.
NoOverspend == HourlyTaken <= Consumption(0)

\* Leave is neither booked twice nor beyond what is left.
LeaveKept == TypeOK /\ NoDoubleLeave /\ NoOverspend
=============================================================================
