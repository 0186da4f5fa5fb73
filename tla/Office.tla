--------------------------------- MODULE Office ---------------------------------
(***************************************************************************)
(* The offices of a site as they are set up: the company, its setup with   *)
(* the sections that have been saved, the year of its accounts, the first  *)
(* office of the site, and the account of its personnel lead.              *)
(*                                                                         *)
(* ERPNext commits within the creation of a company, so an office is there *)
(* in two steps and the locks of its creation end with the first.  A call  *)
(* reads the snapshot of its first query; the lock on the company and the  *)
(* locked read of the setup come later and read what is committed.  A row  *)
(* that is saved must bear the stamp it was read with.                     *)
(***************************************************************************)
EXTENDS Naturals, FiniteSets

CONSTANTS
  Titles,      \* titles of offices, which name their companies
  Logins,      \* user names that may be asked for a lead
  None,        \* no office, no login
  Workers,
  MaxChanges   \* bound: commits of a behaviour

VARIABLES
  companies, \* Company
  setups,    \* ASOUD Company Setup, by company
  year,      \* Fiscal Year of one title, with the offices it is linked to
  first,     \* ASOUD Settings.first_office_company
  accounts,  \* User to the office whose lead it was made for
  told,      \* leads that clients have been told of: <<office, login>>
  changes,   \* commits so far
  txn

vars == <<companies, setups, year, first, accounts, told, changes, txn>>

Sections == {"office", "accounting", "roles"}

Stamps == 0..MaxChanges

Setup == [there : BOOLEAN, saved : SUBSET Sections, lead : Logins \cup {None}, completed : BOOLEAN, stamp : Stamps]

Site == [companies |-> companies, setups |-> setups, year |-> year, first |-> first, accounts |-> accounts]

Idle == [op |-> "none"]

Now == changes + 1

NoSetup == [there |-> FALSE, saved |-> {}, lead |-> None, completed |-> FALSE, stamp |-> 0]

-----------------------------------------------------------------------------
(* What a call that read r may leave of the committed site s.              *)

first_office_exists(r) == \E o \in Titles : r.setups[o].there /\ "office" \in r.setups[o].saved

\* Mutation of SaveSetup: the stamp is not looked at.
SaveSetupOver(r, s, o, row) == IF r.setups[o].there THEN {[s EXCEPT !.setups[o] = [row EXCEPT !.stamp = Now]]} ELSE {}

\* A save of a setup that was read plainly.
SaveSetup(r, s, o, row) ==
  IF r.setups[o].there /\ s.setups[o].stamp = r.setups[o].stamp
  THEN {[s EXCEPT !.setups[o] = [row EXCEPT !.stamp = Now]]} ELSE {}

WithSection(row, section) == [row EXCEPT !.saved = @ \cup {section}]

\* update_company_settings and update_enabled_roles
SaveSection(r, s, a) == SaveSetup(r, s, a.office, WithSection(r.setups[a.office], a.op))

\* The year is made, or linked to one more office that it fits.
CreateFiscalYear(r, s, a) ==
  IF r.setups[a.office].there /\ (a.office \in r.year.offices \/ s.year.stamp = r.year.stamp)
  THEN LET linked == IF a.office \in r.year.offices THEN s
                     ELSE [s EXCEPT !.year = [there |-> TRUE, enabled |-> r.year.enabled, stamp |-> Now,
                                              offices |-> r.year.offices \cup {a.office}]]
       IN SaveSetup(r, linked, a.office, r.setups[a.office])
  ELSE {}

\* Mutation of GuardBootstrap: only the lead is protected.
GuardBootstrapLead(old, new) == new.lead = old.lead

\* ASOUDCompanySetup.validate, for saves by other ways.
GuardBootstrap(old, new) == new.lead = old.lead /\ new.completed = old.completed

DeskSetup(r, s, a) ==
  IF r.setups[a.office].there /\ GuardBootstrap(r.setups[a.office], a.row) THEN SaveSetup(r, s, a.office, a.row) ELSE {}

\* An office that exists gets its setup, if it has none, and the first section.
EditOffice(r, s, a) ==
  CASE ~r.companies[a.office] -> {}
    [] r.setups[a.office].there -> SaveSetup(r, s, a.office, WithSection(r.setups[a.office], "office"))
    [] s.setups[a.office].there -> {}
    [] OTHER -> {[s EXCEPT !.setups[a.office] = [WithSection(NoSetup, "office") EXCEPT !.there = TRUE, !.stamp = Now]]}

\* The first office, read plainly, and its setup, read under the locks.
Settled(r, s, o) == r.first = o /\ r.setups[o].there /\ "office" \in s.setups[o].saved

RequireFiscal(r, o) == o \in r.year.offices /\ r.year.enabled

\* Mutation of CreateLead: an office may be given another lead.
CreateLeadAgain(r, s, a) ==
  IF /\ Settled(r, s, a.office) /\ RequireFiscal(r, a.office)
     /\ r.accounts[a.login] = None /\ s.accounts[a.login] = None
  THEN {[s EXCEPT !.accounts[a.login] = a.office, !.setups[a.office] = [@ EXCEPT !.lead = a.login, !.stamp = Now]]}
  ELSE {}

\* A lead that is there is told again, whatever is asked for now.
CreateLead(r, s, a) ==
  CASE ~(Settled(r, s, a.office) /\ RequireFiscal(r, a.office)) -> {}
    [] s.setups[a.office].lead # None -> {s}
    [] r.accounts[a.login] # None \/ s.accounts[a.login] # None -> {}
    [] OTHER -> {[s EXCEPT !.accounts[a.login] = a.office,
                           !.setups[a.office] = [@ EXCEPT !.lead = a.login, !.stamp = Now]]}

\* Mutation of Complete: the year is left to the client.
CompleteWithoutYear(r, s, a) ==
  IF Settled(r, s, a.office)
  THEN {[s EXCEPT !.setups[a.office] = [@ EXCEPT !.completed = TRUE, !.stamp = Now]]} ELSE {}

Complete(r, s, a) ==
  IF Settled(r, s, a.office) /\ RequireFiscal(r, a.office)
  THEN {[s EXCEPT !.setups[a.office] = [@ EXCEPT !.completed = TRUE, !.stamp = Now]]} ELSE {}

Result(r, s, a) ==
  CASE a.op \in Sections -> SaveSection(r, s, a)
    [] a.op = "year" -> CreateFiscalYear(r, s, a)
    [] a.op = "desk" -> DeskSetup(r, s, a)
    [] a.op = "edit" -> EditOffice(r, s, a)
    [] a.op = "lead" -> CreateLead(r, s, a)
    [] a.op = "complete" -> Complete(r, s, a)
    [] a.op = "status" -> IF Settled(r, s, a.office) THEN {s} ELSE {}

\* The lead an answer names: its account is read plainly, so that of a lead made
\* since the call began is not found.
Named(r, s, a) ==
  IF a.op \in {"lead", "complete", "status"}
  THEN {<<a.office, l>> : l \in {x \in Logins : s.setups[a.office].lead = x
                                   /\ (r.accounts[x] # None \/ (a.op = "lead" /\ a.login = x /\ accounts[x] = None))}}
  ELSE {}

-----------------------------------------------------------------------------
(* Creation of offices.                                                    *)

\* create_first_office, and save_office without a company.
MayCreate(a) ==
  IF a.op = "create_first" THEN ~first_office_exists(Site) /\ ~companies[a.office]
  ELSE ~companies[a.office]

\* Creations are served one after another; the rest overlaps.
BeginCreation(w) ==
  /\ txn[w] = Idle /\ changes < MaxChanges
  /\ \A v \in Workers : txn[v].op \notin {"create_first", "create"}
  /\ \E a \in [op : {"create_first", "create"}, office : Titles] :
       /\ MayCreate(a)
       /\ companies' = [companies EXCEPT ![a.office] = TRUE]
       /\ txn' = [txn EXCEPT ![w] = [op |-> a.op, call |-> a, read |-> Site]]
  /\ changes' = changes + 1
  /\ UNCHANGED <<setups, year, first, accounts, told>>

\* Mutation of Marked: every creation marks its office.
MarkedAlways(a) == a.office

Marked(a) == IF a.op = "create_first" THEN a.office ELSE first

\* After the commit within: the setup and the mark of the first office.
EndCreation(w) ==
  /\ txn[w].op \in {"create_first", "create"} /\ changes < MaxChanges
  /\ LET o == txn[w].call.office
         row == IF setups[o].there THEN setups[o] ELSE [NoSetup EXCEPT !.there = TRUE]
     IN setups' = [setups EXCEPT ![o] = [WithSection(row, "office") EXCEPT !.stamp = Now]]
  /\ first' = Marked(txn[w].call)
  /\ changes' = changes + 1
  /\ txn' = [txn EXCEPT ![w] = Idle]
  /\ UNCHANGED <<companies, year, accounts, told>>

-----------------------------------------------------------------------------
(* Calls.                                                                  *)

\* The Desk may write any value of the protected columns.
DeskRows(o) == {[setups[o] EXCEPT !.lead = l, !.completed = c] : l \in Logins \cup {None}, c \in BOOLEAN}

Calls ==
  [op : {"accounting", "roles", "year", "edit", "complete", "status"}, office : Titles]
    \cup [op : {"lead"}, office : Titles, login : Logins]
    \cup UNION {[op : {"desk"}, office : {o}, row : DeskRows(o)] : o \in Titles}

Init ==
  /\ companies = [o \in Titles |-> FALSE] /\ setups = [o \in Titles |-> NoSetup]
  /\ year = [there |-> FALSE, enabled |-> TRUE, offices |-> {}, stamp |-> 0]
  /\ first = None /\ accounts = [l \in Logins |-> None] /\ told = {} /\ changes = 0
  /\ txn = [w \in Workers |-> Idle]

Begin(w) ==
  /\ txn[w] = Idle /\ changes < MaxChanges
  /\ \E a \in Calls :
       /\ Result(Site, Site, a) # {}
       /\ txn' = [txn EXCEPT ![w] = [op |-> a.op, call |-> a, read |-> Site]]
  /\ UNCHANGED <<companies, setups, year, first, accounts, told, changes>>

Commit(w) ==
  /\ txn[w].op \notin {"none", "create_first", "create"} /\ changes < MaxChanges
  /\ \E s \in Result(txn[w].read, Site, txn[w].call) :
       /\ setups' = s.setups /\ year' = s.year /\ accounts' = s.accounts
       /\ told' = told \cup Named(txn[w].read, s, txn[w].call)
       /\ changes' = IF s = Site THEN changes ELSE changes + 1
  /\ txn' = [txn EXCEPT ![w] = Idle]
  /\ UNCHANGED <<companies, first>>

\* A refusal, a conflict, a wait that is too long or a crash: what has not been
\* committed is gone, and of a creation the company is left.
Fail(w) ==
  /\ txn[w] # Idle
  /\ txn' = [txn EXCEPT ![w] = Idle]
  /\ UNCHANGED <<companies, setups, year, first, accounts, told, changes>>

\* The Desk disables or enables the year.
DeskYear ==
  /\ year.there /\ changes < MaxChanges
  /\ year' = [year EXCEPT !.enabled = ~@, !.stamp = Now]
  /\ changes' = changes + 1
  /\ UNCHANGED <<companies, setups, first, accounts, told, txn>>

Next == DeskYear \/ \E w \in Workers : BeginCreation(w) \/ EndCreation(w) \/ Begin(w) \/ Commit(w) \/ Fail(w)

Spec == Init /\ [][Next]_vars

-----------------------------------------------------------------------------
(* Properties.                                                             *)

\* Rows have the shape of their DocTypes.
TypeOK ==
  /\ setups \in [Titles -> Setup] /\ accounts \in [Logins -> Titles \cup {None}]
  /\ first \in Titles \cup {None} /\ year.offices \subseteq Titles

\* One account is made for the lead of an office, however calls are repeated or
\* overlap; the setup points to it, and every client is told of that one.
OneLead ==
  /\ \A l \in Logins : accounts[l] # None => setups[accounts[l]].lead = l
  /\ \A t \in told : setups[t[1]].lead = t[2]

\* Only the first office is completed and led, and not before it had a year;
\* it is an office that was saved.
FirstOfficeKnown ==
  /\ first # None => "office" \in setups[first].saved
  /\ \A o \in Titles : (setups[o].completed \/ setups[o].lead # None) => o = first /\ o \in year.offices
  /\ \A o \in Titles : setups[o].there => companies[o]

\* What has been saved of a setup stays saved, its lead and its completion are
\* final, and so is the first office, although each save writes the whole row.
OfficeStands ==
  /\ first # None => first' = first
  /\ \A o \in Titles :
       /\ setups[o].saved \subseteq setups'[o].saved
       /\ setups[o].completed => setups'[o].completed
       /\ setups[o].lead # None => setups'[o].lead = setups[o].lead

\* Offices are set up as their clients were told, through crashes between the
\* two commits of a creation, repeated calls and saves by the Desk.
SetUpOnce ==
  [][vars' # vars =>
       TypeOK' /\ OneLead' /\ FirstOfficeKnown' /\ ((setups' # setups \/ first' # first) => OfficeStands) = TRUE]_vars
=============================================================================
