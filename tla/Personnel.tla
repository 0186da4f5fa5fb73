------------------------------- MODULE Personnel -------------------------------
(***************************************************************************)
(* The people of one office: the profile the application keeps of a        *)
(* person, the Employee that HR owns, the login account, and a record      *)
(* whose content is a document of HR.  The profile repeats columns of the  *)
(* Employee; they are written on both sides, by the application and by a   *)
(* hook after each save of the Employee, which leaves the profile's stamp. *)
(*                                                                         *)
(* A call reads the snapshot of its first query, and locking reads what is *)
(* committed.  Locks are held to the commit, so a call commits in one step *)
(* from what it read plainly, r, and what it reads under locks, the state. *)
(* A row that is saved must bear the stamp it was read with.               *)
(***************************************************************************)
EXTENDS Naturals, FiniteSets, TLC

CONSTANTS
  Slots,        \* people the office can hold, each with its Employee and record
  Humans,       \* whose name is on a profile; a human's mail is the login
  None,         \* no login, no person, no national id
  Mobiles,      \* values of a column kept on both sides
  Unset,        \* one of them
  MobileOf,     \* human to the mobiles that may be registered
  Requests,     \* request ids of clients
  NoRequest,
  Workers,
  Overlapping,  \* calls that may overlap others of them, the rest are served alone
  Identified,   \* whether national ids are given
  Served,       \* the calls of the instance
  MaxChanges    \* bound: commits of a behaviour

VARIABLES
  profiles,  \* ASOUD Party Profile
  employees, \* Employee of the same slot
  accounts,  \* User of a human's mail
  records,   \* ASOUD Personnel Record of a slot, with its check-ins
  receipts,  \* ASOUD Personnel Operation, invitations, and the request ids of records
  effects,   \* how often a request has been carried out
  page,      \* the file of a person as a client has it
  changes,   \* commits so far
  txn

vars == <<profiles, employees, accounts, records, receipts, effects, page, changes, txn>>

Stamps == 0..MaxChanges

Person == [there : BOOLEAN, modified : Stamps, name : Humans \cup {None}, national : Humans \cup {None},
           mobile : Mobiles, personnel : BOOLEAN, disabled : BOOLEAN, user : Humans \cup {None}]

Employee == [there : BOOLEAN, modified : Stamps, mobile : Mobiles, user : Humans \cup {None}]

Account == [there : BOOLEAN, modified : Stamps, enabled : BOOLEAN, works : BOOLEAN]

Record == [there : BOOLEAN, modified : Stamps, checkins : Stamps, time : 0..2, counted : BOOLEAN]

Site == [profiles |-> profiles, employees |-> employees, accounts |-> accounts, records |-> records,
         receipts |-> receipts]

Idle == [op |-> "none"]

Now == changes + 1

-----------------------------------------------------------------------------
(* Rows and receipts.                                                      *)

\* What a client holds of a person: the revision it sends, and what it shows.
FileOf(s, p) == [slot |-> p, profile |-> s.profiles[p].modified, employee |-> s.employees[p].modified,
                 record |-> s.records[p].modified, checkins |-> s.records[p].checkins,
                 mobile |-> s.employees[p].mobile, time |-> s.records[p].time]

\* Mutation of SameRevision: the Employee is not part of the revision.
SameRevisionProfile(s, f) == s.profiles[f.slot].modified = f.profile

\* profile_revision
SameRevision(s, f) ==
  s.profiles[f.slot].modified = f.profile /\ s.employees[f.slot].modified = f.employee

\* Mutation of SameRecord: what the check-ins say is not part of the revision.
SameRecordOwn(s, f) == s.records[f.slot].modified = f.record

SameRecord(s, f) == s.records[f.slot].modified = f.record /\ s.records[f.slot].checkins = f.checkins

\* One receipt of a request id in each kind of receipt.
Kind(op) == CASE op = "invite" -> "invitation" [] op = "add_record" -> "record" [] OTHER -> "operation"

Receipt(a) == [kind |-> Kind(a.op), request |-> a.request, call |-> a]

Earlier(s, a) == {e \in s.receipts : e.kind = Kind(a.op) /\ e.request = a.request}

\* Mutation of WithReceipt: nothing is recorded.
WithReceiptNone(s, a) == {s}

\* The site with the call recorded; the request id is unique.
WithReceipt(s, a) ==
  IF a.request = NoRequest THEN {s}
  ELSE IF Earlier(s, a) = {} THEN {[s EXCEPT !.receipts = @ \cup {Receipt(a)}]}
  ELSE {}

\* The outcomes of a call with a request id: done before, refused, or one of new.
\* The receipt is read under a lock, and must be of the same call.
Replayable(s, a, new) ==
  CASE a.request # NoRequest /\ Earlier(s, a) = {Receipt(a)} -> {s}
    [] a.request # NoRequest /\ Earlier(s, a) # {} -> {}
    [] OTHER -> UNION {WithReceipt(t, a) : t \in new}

-----------------------------------------------------------------------------
(* Saves.                                                                  *)

\* Mutation of SavedEmployee: the hook after the save is left out.
SavedEmployeeAlone(s, p, row) == [s EXCEPT !.employees[p] = [row EXCEPT !.there = TRUE, !.modified = Now]]

\* Employee.save and refresh_profile_cache, which leaves the profile's stamp.
SavedEmployee(s, p, row) ==
  [s EXCEPT !.employees[p] = [row EXCEPT !.there = TRUE, !.modified = Now], !.profiles[p].mobile = row.mobile]

SavedProfile(s, p, row) == [s EXCEPT !.profiles[p] = [row EXCEPT !.there = TRUE, !.modified = Now]]

\* Rows saved as they were read plainly: the stamps must not have moved.
Fresh(r, p) == employees[p].modified = r.employees[p].modified

\* Mutation of MayLink: other Employees with the login are not looked for.
MayLinkShared(r, s, p, login) ==
  /\ s.employees[p].user \in {None, login}
  /\ r.accounts[login].there => r.accounts[login].enabled
  /\ accounts[login] = r.accounts[login]

\* Who already has the login is read plainly, and so is the account: an account
\* inserted or saved since refuses the call.
MayLink(r, s, p, login) ==
  /\ \A q \in Slots \ {p} : r.employees[q].user # login
  /\ s.employees[p].user \in {None, login}
  /\ r.accounts[login].there => r.accounts[login].enabled
  /\ accounts[login] = r.accounts[login]

\* sync_employee_access of the site s that the call has made so far.
Linked(r, s, p, login) ==
  IF MayLink(r, s, p, login)
  THEN LET now == SavedEmployee(s, p, [s.employees[p] EXCEPT !.user = login])
       IN {[SavedProfile(now, p, s.profiles[p]) EXCEPT
              !.accounts[login] = [there |-> TRUE, modified |-> Now, enabled |-> TRUE, works |-> TRUE]]}
  ELSE {}

-----------------------------------------------------------------------------
(* The calls: the sites a call may commit, none if it is refused.  s is    *)
(* what it reads under locks, r what it reads plainly.                     *)

\* A new person takes one of the slots not used.
Free == {p \in Slots : ~profiles[p].there /\ \A q \in Slots : q < p => profiles[q].there}

Known(r, column, value) == {p \in Slots : r.profiles[p].there /\ r.profiles[p][column] = value}

\* The login is the strongest key, then the national id; a mobile counts if it
\* is one person's and no national id is given.
FindPerson(r, a) ==
  LET same == Known(r, "mobile", a.mobile)
  IN CASE r.accounts[a.who].there /\ Known(r, "user", a.who) # {} -> Known(r, "user", a.who)
       [] a.national /\ Known(r, "national", a.who) # {} -> Known(r, "national", a.who)
       [] Cardinality(same) = 1 /\ ~a.national -> same
       [] OTHER -> {}

\* The national id is unique.
Unique(s) == \A p, q \in Slots : s.profiles[p].national = s.profiles[q].national /\ p # q => s.profiles[p].national = None

\* _ensure_employee: an Employee is made, or saved as it was read plainly.
Hired(s, p, mobile) == SavedEmployee(s, p, [s.employees[p] EXCEPT !.mobile = mobile])

\* write_shared: the locked Employee with what the application shows of it.
Rewritten(s, p, mobile) == SavedEmployee(s, p, [s.employees[p] EXCEPT !.mobile = mobile])

Named(row, a) ==
  [row EXCEPT !.name = a.who, !.mobile = a.mobile, !.national = IF a.national THEN a.who ELSE @, !.personnel = TRUE]

\* An earlier registration with this request id is looked for in the snapshot.
Register(r, s, a) ==
  LET found == FindPerson(r, a)
      into == IF found # {} THEN found ELSE Free
      Filed(p) == SavedProfile(Hired(s, p, a.mobile), p, Named(s.profiles[p], a))
      Ended(t, p) == [t EXCEPT !.profiles[p].user = a.who]
      Into(p) == IF /\ r.employees[p].there => r.employees[p].user \in {None, a.who} /\ Fresh(r, p)
                    /\ Unique(Filed(p))
                 THEN {Ended(t, p) : t \in Linked(r, Filed(p), p, a.who)} ELSE {}
  IN IF \E e \in Earlier(r, a) : e.call.op = "register" /\ a.request # NoRequest THEN {s}
     ELSE UNION {WithReceipt(t, a) : t \in UNION {Into(p) : p \in into}}

\* An Employee read plainly: it is saved only as it was read.
Invite(r, s, a) ==
  Replayable(s, a, IF employees[a.slot].there /\ Fresh(r, a.slot) THEN Linked(r, s, a.slot, a.login) ELSE {})

\* The account is found through an Employee that is read plainly.
SetEnabled(r, s, a) ==
  LET login == r.employees[a.slot].user
  IN IF login = None THEN {}
     ELSE Replayable(s, a, {[s EXCEPT !.accounts[login].enabled = a.to, !.accounts[login].modified = Now]})

Unlink(r, s, a) ==
  LET e == s.employees[a.slot]
  IN CASE ~e.there -> {}
       [] e.user = None -> {SavedProfile(s, a.slot, s.profiles[a.slot])}
       [] \E q \in Slots \ {a.slot} : r.employees[q].user = e.user -> {}
       [] OTHER -> {[SavedProfile(SavedEmployee(s, a.slot, [e EXCEPT !.user = None]), a.slot, s.profiles[a.slot])
                      EXCEPT !.accounts[e.user].works = FALSE, !.accounts[e.user].modified = Now]}

\* write_shared, then the profile as the Employee now shows it.
UpdatePersonnel(s, a) ==
  LET p == a.file.slot
      now == Rewritten(s, p, a.mobile)
  IN Replayable(s, a, IF s.profiles[p].personnel /\ SameRevision(s, a.file)
                      THEN {SavedProfile(now, p, now.profiles[p])} ELSE {})

\* The profile and the Employee are read plainly; only personnel have an Employee written.
SaveParty(r, s, a) ==
  LET row == [r.profiles[a.slot] EXCEPT !.name = a.who, !.mobile = a.mobile,
                !.national = IF a.national THEN a.who ELSE None, !.personnel = a.personnel]
      now == IF a.personnel THEN Rewritten(Hired(s, a.slot, a.mobile), a.slot, a.mobile) ELSE s
      filed == SavedProfile(now, a.slot, row)
  IN IF /\ profiles[a.slot].modified = r.profiles[a.slot].modified
        /\ ~r.profiles[a.slot].there /\ a.national => Known(r, "national", a.who) = {}
        /\ a.personnel => Fresh(r, a.slot)
        /\ Unique(filed)
     THEN {filed} ELSE {}

\* The whole row is written as it was read.
DisableParty(r, s, a) ==
  IF profiles[a.slot].modified = r.profiles[a.slot].modified
  THEN {SavedProfile(s, a.slot, [r.profiles[a.slot] EXCEPT !.disabled = TRUE])} ELSE {}

\* Two check-ins are made, and the record that refers to them.
AddRecord(s, a) ==
  LET done == Earlier(s, a)
  IN IF done # {} THEN (IF done = {Receipt(a)} THEN {s} ELSE {})
     ELSE IF records[a.slot].there \/ \E e \in s.receipts : e.kind = "operation" /\ e.request = a.request THEN {}
     ELSE WithReceipt([s EXCEPT !.records[a.slot] =
                        [there |-> TRUE, modified |-> Now, checkins |-> Now, time |-> a.time, counted |-> FALSE]], a)

Editable(row) == row.there /\ ~row.counted

UpdateRecord(s, a) ==
  LET p == a.file.slot
  IN Replayable(s, a, IF SameRecord(s, a.file) /\ Editable(s.records[p])
                      THEN {[s EXCEPT !.records[p].time = a.time, !.records[p].checkins = Now,
                                      !.records[p].modified = Now]} ELSE {})

\* HR at the Desk: the Employee, the check-ins, and the attendance worked out of them.
Desk(s, a) ==
  CASE a.what = "employee" /\ s.employees[a.slot].there ->
         {SavedEmployee(s, a.slot, [s.employees[a.slot] EXCEPT !.mobile = a.mobile])}
    [] a.what = "checkins" /\ s.records[a.slot].there ->
         {[s EXCEPT !.records[a.slot].time = 2, !.records[a.slot].checkins = Now]}
    [] a.what = "attendance" /\ s.records[a.slot].there ->
         {[s EXCEPT !.records[a.slot].counted = TRUE, !.records[a.slot].checkins = Now]}
    [] OTHER -> {}

Result(r, s, a) ==
  CASE a.op = "register" -> Register(r, s, a)           [] a.op = "invite" -> Invite(r, s, a)
    [] a.op = "set_enabled" -> SetEnabled(r, s, a)      [] a.op = "unlink" -> Unlink(r, s, a)
    [] a.op = "update" -> UpdatePersonnel(s, a)         [] a.op = "save_party" -> SaveParty(r, s, a)
    [] a.op = "disable_party" -> DisableParty(r, s, a)  [] a.op = "add_record" -> AddRecord(s, a)
    [] a.op = "update_record" -> UpdateRecord(s, a)     [] a.op = "desk" -> Desk(s, a)

WithRequests == {"register", "invite", "set_enabled", "update", "add_record", "update_record"}

Asked == Requests \cup {NoRequest}

Existing == {p \in Slots : profiles[p].there}

Files == {f \in {page} : f # None}

\* A new party takes one free slot; an existing one keeps its name.
Parties ==
  UNION {UNION {[op : {"save_party"}, slot : {p}, who : {h}, mobile : MobileOf[h], national : Identified, personnel : BOOLEAN]
           : h \in IF profiles[p].there THEN {profiles[p].name} ELSE Humans} : p \in Existing \cup Free}

Calls ==
  UNION {[op : {"register"}, who : {h}, mobile : MobileOf[h], national : Identified, request : Asked] : h \in Humans}
    \cup [op : {"invite"}, slot : Existing, login : Humans, request : Asked]
    \cup [op : {"set_enabled"}, slot : Existing, to : BOOLEAN, request : Requests]
    \cup [op : {"unlink", "disable_party"}, slot : Existing]
    \cup [op : {"update"}, file : Files, mobile : Mobiles, request : Requests]
    \cup Parties
    \cup [op : {"add_record"}, slot : Existing, time : 0..1, request : Requests]
    \cup [op : {"update_record"}, file : Files, time : 0..1, request : Requests]
    \cup [op : {"desk"}, slot : Existing, what : {"employee"}, mobile : Mobiles]
    \cup [op : {"desk"}, slot : Existing, what : {"checkins", "attendance"}]

Absent == [there |-> FALSE, modified |-> 0]

\* Some mails have an account before the first registration.
Init ==
  /\ profiles = [p \in Slots |-> [name |-> None, national |-> None, mobile |-> Unset, personnel |-> FALSE,
                                  disabled |-> FALSE, user |-> None] @@ Absent]
  /\ employees = [p \in Slots |-> [mobile |-> Unset, user |-> None] @@ Absent]
  /\ \E some \in SUBSET Humans :
       accounts = [h \in Humans |-> [there |-> h \in some, modified |-> 0, enabled |-> TRUE, works |-> FALSE]]
  /\ records = [p \in Slots |-> [checkins |-> 0, time |-> 0, counted |-> FALSE] @@ Absent]
  /\ receipts = {} /\ effects = [k \in {"operation", "invitation", "record"} \X Requests |-> 0]
  /\ page = None /\ changes = 0
  /\ txn = [w \in Workers |-> Idle]

\* The call a, which read the snapshot r, commits.
Committed(r, a) ==
  \E s \in Result(r, Site, a) :
    /\ profiles' = s.profiles /\ employees' = s.employees /\ accounts' = s.accounts
    /\ records' = s.records /\ receipts' = s.receipts
    /\ changes' = IF s = Site THEN changes ELSE changes + 1
    /\ effects' = IF s = Site \/ a.op \notin WithRequests \/ a.request = NoRequest THEN effects
                  ELSE [effects EXCEPT ![Kind(a.op), a.request] = @ + 1]

Serve ==
  /\ changes < MaxChanges /\ \A w \in Workers : txn[w] = Idle
  /\ \E a \in Calls : a.op \in Served \ Overlapping /\ Committed(Site, a)
  /\ UNCHANGED <<page, txn>>

\* Calls that cannot succeed on what they read need not begin.
Begin(w) ==
  /\ changes < MaxChanges /\ txn[w] = Idle
  /\ \E a \in Calls :
       /\ a.op \in Served \cap Overlapping /\ (Result(Site, Site, a)) # {}
       /\ txn' = [txn EXCEPT ![w] = [op |-> a.op, call |-> a, read |-> Site]]
  /\ UNCHANGED <<profiles, employees, accounts, records, receipts, effects, page, changes>>

Commit(w) ==
  /\ txn[w] # Idle /\ changes < MaxChanges
  /\ Committed(txn[w].read, txn[w].call)
  /\ txn' = [txn EXCEPT ![w] = Idle]
  /\ UNCHANGED page

\* A refusal, a deadlock or a lost connection leaves nothing.
Fail(w) ==
  /\ txn[w] # Idle
  /\ txn' = [txn EXCEPT ![w] = Idle]
  /\ UNCHANGED <<profiles, employees, accounts, records, receipts, effects, page, changes>>

\* get_personnel
Open ==
  /\ {"update", "update_record"} \cap Served # {}
  /\ \E p \in Existing : employees[p].there /\ page' = FileOf(Site, p)
  /\ UNCHANGED <<profiles, employees, accounts, records, receipts, effects, changes, txn>>

Next == Serve \/ Open \/ \E w \in Workers : Begin(w) \/ Commit(w) \/ Fail(w)

Spec == Init /\ [][Next]_vars

-----------------------------------------------------------------------------
(* Properties.                                                             *)

\* Rows have the shape of their DocTypes.
TypeOK ==
  /\ profiles \in [Slots -> Person] /\ employees \in [Slots -> Employee]
  /\ accounts \in [Humans -> Account] /\ records \in [Slots -> Record]

\* What lists and searches show of personnel is what HR has, whichever side
\* was written last (refresh_profile_cache: "Keep legacy search columns usable
\* after a change made in ERPNext itself.").
CacheTellsEmployee ==
  \A p \in Slots : profiles[p].personnel => employees[p].there /\ profiles[p].mobile = employees[p].mobile

\* However registrations, invitations and withdrawals of access overlap, a login
\* that may do an employee's work is of one Employee, an Employee's login may, and
\* one human is not registered as two people (register: "two simultaneous
\* registrations of the same person must end with exactly one Person, one
\* Employee and one User").
OneLogin ==
  TypeOK /\ \A h \in Humans :
    /\ Cardinality({p \in Slots : employees[p].user = h}) = IF accounts[h].works THEN 1 ELSE 0
    /\ Cardinality({p \in Slots : profiles[p].user = h}) <= 1

\* A request that is repeated, at once or after whatever has happened since, is
\* carried out once.
RequestsOnce == \A k \in DOMAIN effects : effects[k] <= 1

\* An edit is of the file its client saw: what the Employee and the check-ins said
\* then is what it replaces; and it is made once, whenever it is sent again.
EditsAsSeen ==
  [][RequestsOnce' /\ \A e \in receipts' \ receipts :
       /\ e.call.op = "update" => employees[e.call.file.slot].mobile = e.call.file.mobile
       /\ e.call.op = "update_record" => records[e.call.file.slot].time = e.call.file.time
                                            /\ ~records[e.call.file.slot].counted]_vars
=============================================================================
