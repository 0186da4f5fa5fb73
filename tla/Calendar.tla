-------------------------------- MODULE Calendar --------------------------------
(***************************************************************************)
(* The calendar of a user with several devices that may be offline: a      *)
(* device shows what it loaded, queues one edit, and sends it until it is  *)
(* answered; the server keeps the last mutation of every entry.  A job     *)
(* reminds of entries that are due.  Official holidays are imported in     *)
(* batches, each of which replaces the days of its own range.              *)
(*                                                                         *)
(* Whether a row exists, and which rows a job is to look at, is a plain    *)
(* read of the snapshot taken by Send, List and StartImport; rows are then *)
(* locked and read as committed, those of an import excepted.              *)
(***************************************************************************)
EXTENDS Naturals, FiniteSets, Sequences

CONSTANTS
  Devices,  \* devices of the user
  Items,    \* entries, by the name their client gives them
  Processes, \* what serves calls and jobs
  Days,     \* days of the official calendar
  MaxEdits, \* bound: edits of all devices
  Parts     \* parts to check: "personal", "official"

ASSUME CalendarBound == MaxEdits \in Nat /\ Days \subseteq Nat

VARIABLES
  part,     \* what the behaviour is about
  scopes,   \* ASOUD Calendar Scope with its Event
  notices,  \* notices sent of the version of an entry
  edits,    \* the edits made, a mutation is an index
  applied,  \* how often a mutation changed its entry
  view,     \* the version of each entry a device shows, 0 for none
  outbox,   \* the mutation a device has to send, 0 for none
  holidays, \* official days: whether the row exists and is active
  asked,    \* whether the import that covered a day last had it
  missed,   \* days the import that covered them last could not see
  handled   \* what each process does

calendarVars == <<part, scopes, notices, edits, applied, view, outbox, holidays, asked, missed, handled>>

Acts == {"remind", "note", "done", "delete"}

Scope == [there : BOOLEAN, active : BOOLEAN, version : 0..MaxEdits, kind : {"Reminder", "PersonalDay"},
          status : {"Open", "Completed", "Cancelled"}, due : BOOLEAN, last : 0..MaxEdits, notified : 0..MaxEdits]

NoScope == [there |-> FALSE, active |-> FALSE, version |-> 0, kind |-> "Reminder", status |-> "Open",
            due |-> FALSE, last |-> 0, notified |-> 0]

Free == [op |-> "none"]

Occupied(w) == handled[w].op # "none"

-----------------------------------------------------------------------------
(* Devices.                                                                *)

\* A device loads the active entries with their versions.
Load(d) ==
  /\ part = "personal"
  /\ view' = [view EXCEPT ![d] = [i \in Items |-> IF scopes[i].active THEN scopes[i].version ELSE 0]]
  /\ UNCHANGED <<part, scopes, notices, edits, applied, outbox, holidays, asked, missed, handled>>

Edit(d) ==
  /\ part = "personal" /\ outbox[d] = 0 /\ Len(edits) < MaxEdits
  /\ \E i \in Items, act \in Acts :
       /\ view[d][i] = 0 => act \in {"remind", "note"}
       /\ edits' = Append(edits, [item |-> i, act |-> act, version |-> view[d][i]])
  /\ outbox' = [outbox EXCEPT ![d] = Len(edits) + 1]
  /\ UNCHANGED <<part, scopes, notices, applied, view, holidays, asked, missed, handled>>

\* A device sends its edit, again as long as it has no answer.
Send(w, d) ==
  /\ ~Occupied(w) /\ outbox[d] # 0
  /\ handled' = [handled EXCEPT ![w] = [op |-> "save", device |-> d, mutation |-> outbox[d],
                                exists |-> scopes[edits[outbox[d]].item].there]]
  /\ UNCHANGED <<part, scopes, notices, edits, applied, view, outbox, holidays, asked, missed>>

-----------------------------------------------------------------------------
(* save_personal.                                                          *)

\* Mutation of Fresh: versions are not compared.
FreshAlways(s, e) == s.active

\* The edit was made on what is stored.
Fresh(s, e) == s.active /\ s.version = e.version

Deleted(s) == [s EXCEPT !.there = TRUE, !.active = FALSE, !.status = IF s.there THEN "Cancelled" ELSE @,
                        !.version = IF s.there THEN @ + 1 ELSE @]

Written(s, act) ==
  [s EXCEPT !.there = TRUE, !.active = TRUE, !.version = @ + 1,
            !.kind = CASE act = "remind" -> "Reminder" [] act = "note" -> "PersonalDay" [] OTHER -> @,
            !.status = IF act = "done" THEN "Completed" ELSE "Open",
            !.due = FALSE, !.notified = 0]

\* The answer reaches the device or is lost; a device that has sent the next
\* edit ignores it.
Answered(w) ==
  \/ outbox' = outbox
  \/ /\ outbox[handled[w].device] = handled[w].mutation
     /\ outbox' = [outbox EXCEPT ![handled[w].device] = 0]

SavePersonal(w) ==
  /\ Occupied(w) /\ handled[w].op = "save"
  /\ LET m == handled[w].mutation  e == edits[m]  s == scopes[e.item]
     IN /\ IF handled[w].exists THEN s.last # m /\ (Fresh(s, e)) = TRUE ELSE ~s.there
        /\ scopes' = [scopes EXCEPT ![e.item] = [IF e.act = "delete" THEN Deleted(s) ELSE Written(s, e.act)
                                                 EXCEPT !.last = m]]
        /\ notices' = [notices EXCEPT ![e.item] = 0]
        /\ applied' = [applied EXCEPT ![m] = @ + 1]
  /\ Answered(w)
  /\ handled' = [handled EXCEPT ![w] = Free]
  /\ UNCHANGED <<part, edits, view, holidays, asked, missed>>

\* A mutation that is the last of its entry is answered again; one that its
\* entry has outrun is refused, and so is one that meets its own insertion.
AnswerOnly(w) ==
  /\ Occupied(w) /\ handled[w].op = "save"
  /\ LET m == handled[w].mutation  e == edits[m]  s == scopes[e.item]
     IN IF handled[w].exists THEN s.last = m \/ ~Fresh(s, e) ELSE s.there
  /\ Answered(w)
  /\ handled' = [handled EXCEPT ![w] = Free]
  /\ UNCHANGED <<part, scopes, notices, edits, applied, view, holidays, asked, missed>>

-----------------------------------------------------------------------------
(* dispatch_reminders.                                                     *)

Due(s) == s.active /\ s.status = "Open" /\ s.due /\ s.notified # s.version

Listed == {i \in Items : Due(scopes[i]) /\ scopes[i].kind = "Reminder"}

TimeCome(i) ==
  /\ scopes[i].there /\ ~scopes[i].due
  /\ scopes' = [scopes EXCEPT ![i].due = TRUE]
  /\ UNCHANGED <<part, notices, edits, applied, view, outbox, holidays, asked, missed, handled>>

List(w) ==
  /\ ~Occupied(w) /\ Listed # {}
  /\ handled' = [handled EXCEPT ![w] = [op |-> "remind", items |-> Listed]]
  /\ UNCHANGED <<part, scopes, notices, edits, applied, view, outbox, holidays, asked, missed>>

\* Mutation of Reminded: no second look at the locked rows.
RemindedListed(w) == handled[w].items

\* Locked rows are looked at again, their kind excepted.
Reminded(w) == {i \in handled[w].items : Due(scopes[i])}

Remind(w) ==
  /\ Occupied(w) /\ handled[w].op = "remind"
  /\ scopes' = [i \in Items |-> IF i \in Reminded(w) THEN [scopes[i] EXCEPT !.notified = scopes[i].version] ELSE scopes[i]]
  /\ notices' = [i \in Items |-> IF i \in Reminded(w) THEN notices[i] + 1 ELSE notices[i]]
  /\ handled' = [handled EXCEPT ![w] = Free]
  /\ UNCHANGED <<part, edits, applied, view, outbox, holidays, asked, missed>>

-----------------------------------------------------------------------------
(* import_official.  The lock on the row of Administrator is taken after   *)
(* the first plain read, so an import may have an older snapshot than the  *)
(* import it waited for.  Rows are saved as they were read, so their       *)
(* stamps must not have changed; a row the snapshot does not show is       *)
(* inserted under the name of its day.  An import keeps its range, its     *)
(* days, the rows of the range in its snapshot, and which rows of it other *)
(* imports have written since.                                             *)

StartImport(w) ==
  /\ part = "official" /\ ~Occupied(w)
  /\ \E start, end \in Days :
       LET range == {x \in Days : start <= x /\ x <= end}
       IN \E days \in SUBSET range :
            handled' = [handled EXCEPT ![w] = [op |-> "import", range |-> range, days |-> days, since |-> {},
                                               seen |-> {x \in range : holidays[x].there}]]
  /\ UNCHANGED <<part, scopes, notices, edits, applied, view, outbox, holidays, asked, missed>>

\* Mutation of Imported: the days of earlier imports stay.
ImportedBesides(rows, import) ==
  [x \in Days |-> IF x \in import.days THEN [there |-> TRUE, active |-> TRUE] ELSE rows[x]]

\* Mutation of Imported: an import withdraws every day it has not.
ImportedAlone(rows, import) ==
  [x \in Days |-> [there |-> rows[x].there \/ x \in import.days, active |-> x \in import.days]]

\* What the import sees of its range is withdrawn, its days are written.
Imported(rows, import) ==
  [x \in Days |-> [there |-> rows[x].there \/ x \in import.days,
                  active |-> x \in import.days \/ (rows[x].active /\ x \notin import.seen)]]

\* No row it saves was saved since, none it inserts was inserted.
Latest(import) == import.since \cap (import.seen \cup import.days) = {}

\* Other imports find the rows of their range written.
WrittenSince(w, v) ==
  IF v # w /\ handled[v].op = "import"
  THEN [handled[v] EXCEPT !.since = @ \cup ((handled[w].seen \cup handled[w].days) \cap handled[v].range)]
  ELSE handled[v]

FinishImport(w) ==
  /\ Occupied(w) /\ handled[w].op = "import"
  /\ Latest(handled[w])
  /\ holidays' = Imported(holidays, handled[w])
  /\ asked' = [x \in Days |-> IF x \in handled[w].range THEN x \in handled[w].days ELSE asked[x]]
  /\ missed' = (missed \ handled[w].range) \cup handled[w].since
  /\ handled' = [[v \in Processes |-> WrittenSince(w, v)] EXCEPT ![w] = Free]
  /\ UNCHANGED <<part, scopes, notices, edits, applied, view, outbox>>

\* A call or job that fails leaves nothing.
Fail(w) ==
  /\ Occupied(w)
  /\ handled' = [handled EXCEPT ![w] = Free]
  /\ UNCHANGED <<part, scopes, notices, edits, applied, view, outbox, holidays, asked, missed>>

CalendarInit ==
  /\ part \in Parts
  /\ scopes = [i \in Items |-> NoScope] /\ notices = [i \in Items |-> 0]
  /\ edits = << >> /\ applied = [m \in 1..MaxEdits |-> 0]
  /\ view = [d \in Devices |-> [i \in Items |-> 0]] /\ outbox = [d \in Devices |-> 0]
  /\ holidays = [x \in Days |-> [there |-> FALSE, active |-> FALSE]]
  /\ asked = [x \in Days |-> FALSE] /\ missed = {}
  /\ handled = [w \in Processes |-> Free]

CalendarNext ==
  \/ \E d \in Devices : Load(d) \/ Edit(d) \/ \E w \in Processes : Send(w, d)
  \/ \E w \in Processes : \/ SavePersonal(w) \/ AnswerOnly(w) \/ List(w) \/ Remind(w)
                        \/ StartImport(w) \/ FinishImport(w) \/ Fail(w)
  \/ \E i \in Items : TimeCome(i)

CalendarSpec == CalendarInit /\ [][CalendarNext]_calendarVars

-----------------------------------------------------------------------------
(* Properties.                                                             *)

\* Rows have the shape of their DocTypes.
CalendarTypeOK ==
  /\ scopes \in [Items -> Scope] /\ Len(edits) <= MaxEdits
  /\ \A d \in Devices : outbox[d] \in 0..Len(edits) /\ view[d] \in [Items -> 0..MaxEdits]

\* A mutation changes its entry once however often it is sent, and a version of
\* an entry is reminded of once, however the jobs overlap.
OnceEach == (\A m \in 1..MaxEdits : applied[m] <= 1) /\ (\A i \in Items : notices[i] <= 1)

\* A day is official if the import that covered it last had it, but for a day
\* another import entered after that one had begun.
OfficialAsReviewed ==
  \A x \in Days :
    \/ holidays[x].active = asked[x]
    \/ holidays[x].active /\ x \in missed

\* An edit changes an entry only when its device had loaded what it replaces.
NoLostEdit ==
  \A i \in Items : scopes'[i].last # scopes[i].last =>
    edits[scopes'[i].last].version = IF scopes[i].active THEN scopes[i].version ELSE 0

\* The calendar is what its devices, jobs and reviewers made it: no edit is lost
\* or applied twice, no reminder is repeated, and of the range of an import no
\* day stays that it had not, unless another import had just entered it
\* (save_personal, dispatch_reminders, import_official).
CalendarKept ==
  [][<<scopes, applied, notices, holidays, asked>>' # <<scopes, applied, notices, holidays, asked>> =>
       (CalendarTypeOK /\ OnceEach /\ OfficialAsReviewed)' /\ NoLostEdit]_calendarVars

=============================================================================
