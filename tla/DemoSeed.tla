------------------------------- MODULE DemoSeed -------------------------------
(***************************************************************************)
(* The demo data of a test site: the seed, which looks every record up and *)
(* creates what is missing, and the reset, which deletes every record that *)
(* carries a mark of the demo company, in an order the native links allow. *)
(*                                                                         *)
(* A command is one transaction, with two exceptions, both inside the      *)
(* creation of the company: the first native Workflow of a site adds a     *)
(* Custom Field, whose ALTER TABLE commits all that was done before it,    *)
(* and ERPNext commits when it makes the accounts of the company.  A       *)
(* command may be killed, or fail, between any two steps.  A deadlock      *)
(* makes MariaDB roll the whole transaction back; the reset then repeats   *)
(* the step that met it.                                                   *)
(***************************************************************************)
EXTENDS Naturals, Sequences, FiniteSets

CONSTANTS
  Size(_),       \* how many records the seed wants of a group
  MaxRecords,    \* bound: records of one group
  MaxDesk,       \* bound: what other users do to the demo company
  MaxDeadlocks   \* bound: deadlocks one reset meets

\* The groups of records, named for their DocTypes; items, parties and price
\* lists are trade, an employee comes with a party profile, a request with its
\* instance, tasks and native document.  accounts is what ERPNext makes of a new
\* company.  journal is a DocType the seed and the reset do not know.
SeedOrder ==
  <<"company", "accounts", "setup", "year", "department", "designation", "employee", "user", "personnel",
    "holiday", "leave type", "allocation", "leave", "structure", "assignment", "attendance",
    "trade", "stock", "sales", "purchase", "template", "request">>

\* Mutation of ResetOrder: designations go before the employees.
ResetOrderEarly ==
  <<"invoice", "receipt", "order", "sales", "stock", "attendance", "leave", "allocation",
    "assignment", "request", "template", "shared", "designation", "personnel", "employee", "user",
    "trade", "structure", "leave type", "holiday", "department", "year", "setup", "company">>

ResetOrder ==
  <<"invoice", "receipt", "order", "sales", "stock", "attendance", "leave", "allocation",
    "assignment", "request", "template", "shared", "personnel", "employee", "user", "trade",
    "structure", "leave type", "holiday", "designation", "department", "year", "setup", "company">>

Masters == {"department", "designation", "employee", "user", "personnel"}

Leaves == {"holiday", "leave type", "allocation", "leave"}

Pay == {"structure", "assignment", "attendance"}

Groups == {"company", "accounts", "setup", "trade", "stock", "sales", "order", "receipt", "invoice",
           "template", "request", "journal"} \cup Masters \cup Leaves \cup Pay

\* Documents that are submitted, and records marked by their company alone.
Documents == {"stock", "sales", "order", "receipt", "invoice"}

OfCompany == Documents \cup {"department", "employee", "attendance", "request", "template", "journal"}

Records == Groups \X (1..MaxRecords)

\* What the bounds are.
SeedAssumption ==
  /\ \A g \in Groups : Size(g) \in 0..MaxRecords
  /\ MaxRecords \in Nat /\ MaxDesk \in Nat /\ MaxDeadlocks \in Nat

\* Link fields that keep a record of the second group from being deleted.
Links ==
  {<<g, "company">> : g \in OfCompany \cup {"setup", "leave", "allocation", "structure", "assignment", "trade"}}
    \cup
  {<<"employee", "department">>, <<"employee", "designation">>, <<"employee", "holiday">>,
   <<"employee", "user">>, <<"personnel", "employee">>, <<"allocation", "employee">>,
   <<"allocation", "leave type">>, <<"leave", "employee">>, <<"leave", "leave type">>,
   <<"leave", "user">>, <<"assignment", "structure">>, <<"assignment", "employee">>,
   <<"attendance", "employee">>, <<"attendance", "leave">>, <<"stock", "trade">>,
   <<"sales", "trade">>, <<"order", "trade">>, <<"receipt", "order">>, <<"invoice", "receipt">>,
   <<"request", "template">>, <<"request", "department">>, <<"request", "user">>}

VARIABLES
  site,  \* committed rows
  run,   \* the command that is running
  desk   \* how much other users did

vars == <<site, run, desk>>

-----------------------------------------------------------------------------
(* Rows.                                                                   *)

Companies == {"demo", "other"}

\* The Fiscal Year that covers today: by whom it was made, whether it looks
\* like one of the seed, and the companies it is restricted to, if any.
Year == [by : {"nobody", "seed", "desk"}, calendar : BOOLEAN, rows : SUBSET Companies]

NoYear == [by |-> "nobody", calendar |-> FALSE, rows |-> {}]

\* Records every company may link: the native Workflow of the system
\* templates, and a Workflow State of an older seed.
Shared == {"workflow", "state"}

Statuses == {"Running", "Completed", "Rejected", "Cancelled"}

Rows == [recs : SUBSET Records, submitted : SUBSET Records, ended : SUBSET Records, year : Year,
         shared : SUBSET Shared, used : SUBSET Shared, field : BOOLEAN]

Of(rows, g) == {r \in rows.recs : r[1] = g}

InForce(rows, g) == Of(rows, g) \cap rows.submitted

\* The native check of a deletion, and of a cancellation.
Linked(rows, r) == \E x \in rows.recs : <<x[1], r[1]>> \in Links

\* With their company the accounts go.
Without(rows, gone) ==
  LET all == gone \cup {r \in Of(rows, "accounts") : \E x \in gone : x[1] = "company"}
  IN [rows EXCEPT !.recs = @ \ all, !.submitted = @ \ all, !.ended = @ \ all]

\* n new records of a group, submitted if its documents are.
Fresh(rows, g, n) ==
  LET free == ({g} \X (1..MaxRecords)) \ rows.recs
  IN {x \in SUBSET free : Cardinality(x) = n /\ \A r \in x, y \in free \ x : r[2] < y[2]}

With(rows, new) ==
  [rows EXCEPT !.recs = @ \cup new, !.submitted = @ \cup {r \in new : r[1] \in Documents}]

-----------------------------------------------------------------------------
(* Sections of the seed: the rows each may leave.                          *)

Missing(rows, g) == {<<g, n>> : n \in 1..Size(g)} \ rows.recs

\* Records with a fixed name: only what is missing.
Named(rows, g) == {With(rows, Missing(rows, g))}

\* Its row, and what the hook of its insertion makes: the hook may fail, before
\* the Workflow or after, which does not stop the company.
SeedCompany(rows) ==
  IF Of(rows, "company") # {} THEN {rows}
  ELSE LET row == With(rows, Missing(rows, "company"))
           native == [row EXCEPT !.shared = @ \cup {"workflow"}]
       IN {row, native, With(native, Missing(rows, "template"))}

SeedAction(companies) ==
  IF companies = {} THEN "use" ELSE IF "demo" \in companies THEN "present" ELSE "append"

SeedYear(rows) ==
  IF rows.year = NoYear
  THEN {[rows EXCEPT !.year = [by |-> "seed", calendar |-> TRUE, rows |-> {"demo"}]]}
  ELSE IF SeedAction(rows.year.rows) = "append" THEN {[rows EXCEPT !.year.rows = @ \cup {"demo"}]}
  ELSE {rows}

\* Any submitted Stock Entry will do.
SeedStock(rows) ==
  IF InForce(rows, "stock") # {} THEN {rows}
  ELSE {With(rows, new) : new \in Fresh(rows, "stock", 1)}

\* Mutation of SeedSales: the invoices are not counted.
SeedSalesAgain(rows) == {With(rows, new) : new \in Fresh(rows, "sales", Size("sales"))}

\* All invoices again unless enough of them are in force.
SeedSales(rows) ==
  IF Cardinality(InForce(rows, "sales")) >= Size("sales") THEN {rows}
  ELSE {With(rows, new) : new \in Fresh(rows, "sales", Size("sales"))}

\* An order of any status stands for the whole flow.
SeedPurchase(rows) ==
  IF Of(rows, "order") # {} THEN {rows}
  ELSE {With(rows, new \cup other \cup bill) : new \in Fresh(rows, "order", 1),
          other \in Fresh(rows, "receipt", 1), bill \in Fresh(rows, "invoice", 1)}

SeedTemplate(rows) == {[new EXCEPT !.shared = @ \cup {"workflow"}] : new \in Named(rows, "template")}

\* The components of the salary name accounts.
SeedStructure(rows) == IF Of(rows, "accounts") = {} THEN {} ELSE Named(rows, "structure")

\* Every request is created by its fixed request_id, refused without its
\* template; all but the last are then driven to their end.
SeedRequest(rows) ==
  IF Missing(rows, "request") # {} /\ Of(rows, "template") = {} THEN {}
  ELSE {[new EXCEPT !.ended = @ \cup {<<"request", n>> : n \in 1..(Size("request") - 1)}] :
          new \in Named(rows, "request")}

Section(rows, g) ==
  CASE g = "company" -> SeedCompany(rows)
    [] g = "year" -> SeedYear(rows)
    [] g = "stock" -> SeedStock(rows)
    [] g = "sales" -> SeedSales(rows)
    [] g = "purchase" -> SeedPurchase(rows)
    [] g = "template" -> SeedTemplate(rows)
    [] g = "request" -> SeedRequest(rows)
    [] g = "structure" -> SeedStructure(rows)
    [] g \in {"accounts", "setup", "trade", "assignment", "attendance"} \cup Masters \cup Leaves -> Named(rows, g)

\* Sections done at once: the accounts of a company that is there are not made.
Sections(rows, g) == IF g = "company" /\ Of(rows, g) # {} THEN 2 ELSE 1

\* What the first Workflow commits: itself, and all before it, the row of the
\* company without its templates.
Altered(rows, g) ==
  [(IF g = "company" THEN With(rows, Missing(rows, g)) ELSE rows)
   EXCEPT !.shared = @ \cup {"workflow"}, !.field = TRUE]

\* What is committed once a section has led from rows to new: ERPNext commits
\* before or after it has made the accounts.
CommittedBy(g, rows, new) ==
  CASE new.field /\ ~rows.field -> {Altered(rows, g)}
    [] g = "accounts" -> {rows, new}
    [] OTHER -> {site}

-----------------------------------------------------------------------------
(* Steps of the reset.                                                     *)

ResetAction(year) ==
  IF "demo" \notin year.rows THEN "keep"
  ELSE IF year.calendar /\ year.rows = {"demo"} THEN "delete" ELSE "remove row"

\* Mutation of ResetYear: a calendar year is deleted whoever shares it.
ResetYearShared(rows) ==
  CASE ResetAction(rows.year) = "keep" -> {rows}
    [] rows.year.calendar /\ ResetAction(rows.year) # "keep" -> {[rows EXCEPT !.year = NoYear]}
    [] OTHER -> {[rows EXCEPT !.year.rows = @ \ {"demo"}]}

ResetYear(rows) ==
  CASE ResetAction(rows.year) = "keep" -> {rows}
    [] ResetAction(rows.year) = "delete" -> {[rows EXCEPT !.year = NoYear]}
    [] OTHER -> {[rows EXCEPT !.year.rows = @ \ {"demo"}]}

\* The Workflow stays while any definition links it, the State if anything
\* does; the demo company's own definitions link the Workflow.
ResetShared(rows) ==
  {[rows EXCEPT !.shared = @ \ ({"workflow", "state"} \
     (rows.used \cup IF Of(rows, "template") # {} THEN {"workflow"} ELSE {}))]}

\* What the reset deletes of a group: what its mark selects.
Marked(rows, g) ==
  {r \in Of(rows, g) : g \in OfCompany \/ r[2] <= Size(g)}

\* Cancelled if submitted, its ledger purged, deleted; gone already is no error.
DeleteOne(rows, r) ==
  IF r \in rows.recs /\ Linked(rows, r) THEN {} ELSE {Without(rows, {r})}

-----------------------------------------------------------------------------
(* The running command: at is the section, rows what its transaction sees, *)
(* names the records its section still has to delete.                      *)

NoRun == [cmd |-> "none", at |-> 0, rows |-> {}, names |-> {}, deadlocks |-> 0]

Running(cmd) == run.cmd = cmd

\* run: the guard of the site name and of developer_mode is passed.
Begin(cmd) ==
  /\ Running("none")
  /\ run' = [cmd |-> cmd, at |-> 1, rows |-> site, deadlocks |-> 0,
             names |-> IF cmd = "reset" THEN Marked(site, ResetOrder[1]) ELSE {}]
  /\ UNCHANGED <<site, desk>>

\* The command is killed, or raises: only what was committed stays.
Fail ==
  /\ ~Running("none")
  /\ run' = NoRun
  /\ UNCHANGED <<site, desk>>

Commit ==
  /\ site' = run.rows
  /\ run' = NoRun
  /\ UNCHANGED desk

\* A section of the seed.  The first native Workflow of the site adds the
\* Custom Field.
SeedSection ==
  /\ Running("seed") /\ run.at <= Len(SeedOrder)
  /\ LET g == SeedOrder[run.at]
     IN \E rows \in Section(run.rows, g) :
          LET new == [rows EXCEPT !.field = @ \/ "workflow" \in rows.shared]
          IN /\ run' = [run EXCEPT !.at = @ + Sections(run.rows, g), !.rows = new]
             /\ site' \in CommittedBy(g, run.rows, new)
  /\ UNCHANGED desk

SeedEnds == Running("seed") /\ run.at > Len(SeedOrder) /\ Commit

\* The next section of the reset, once nothing is left of this one.
NextWipe(rows) ==
  LET at == run.at + 1 IN
  [run EXCEPT !.at = at, !.rows = rows,
              !.names = IF at > Len(ResetOrder) THEN {} ELSE Marked(rows, ResetOrder[at])]

Wiping == Running("reset") /\ run.at <= Len(ResetOrder)

WipeOne ==
  /\ Wiping
  /\ \E r \in run.names : \E rows \in DeleteOne(run.rows, r) :
       run' = [run EXCEPT !.rows = rows, !.names = @ \ {r}]
  /\ UNCHANGED <<site, desk>>

WipeNext ==
  /\ Wiping /\ run.names = {}
  /\ \E rows \in CASE ResetOrder[run.at] = "shared" -> ResetShared(run.rows)
                   [] ResetOrder[run.at] = "year" -> ResetYear(run.rows)
                   [] OTHER -> {run.rows} :
       run' = NextWipe(rows)
  /\ UNCHANGED <<site, desk>>

\* A statement of _delete_one is the victim of a deadlock: the transaction is
\* rolled back, and the step is repeated in a new one.
Deadlock ==
  /\ Wiping /\ run.names # {} /\ run.deadlocks < MaxDeadlocks
  /\ run' = [run EXCEPT !.rows = site, !.deadlocks = @ + 1]
  /\ UNCHANGED <<site, desk>>

ResetEnds == Running("reset") /\ run.at > Len(ResetOrder) /\ Commit

-----------------------------------------------------------------------------
(* Other users of the site, while no command runs.                         *)

Desk(rows) ==
  /\ Running("none") /\ desk < MaxDesk
  /\ rows # site
  /\ site' = rows
  /\ desk' = desk + 1
  /\ UNCHANGED run

\* System templates are guarded against deletion; accounts go with their company.
DeskDeletes ==
  \E r \in {x \in site.recs : x[1] \notin {"template", "accounts"}} :
    Desk(Without(site, {r})) /\ ~Linked(site, r)

DeskCancels ==
  \E r \in site.submitted : Desk([site EXCEPT !.submitted = @ \ {r}]) /\ ~Linked(site, r)

DeskAdds ==
  /\ Running("none") /\ Of(site, "company") # {}
  /\ \E g \in OfCompany : \E new \in Fresh(site, g, 1) : Desk(With(site, new))

DeskDecides == \E r \in Of(site, "request") : Desk([site EXCEPT !.ended = @ \cup {r}])

\* Another company is created, and with it its templates.
DeskFounds ==
  Desk([site EXCEPT !.shared = @ \cup {"workflow"}, !.used = @ \cup {"workflow"}, !.field = TRUE])

\* Somebody makes the Fiscal Year of today, or shares it.
DeskYear ==
  \/ \E calendar \in BOOLEAN, rows \in {{}, {"other"}} :
       site.year = NoYear /\ Desk([site EXCEPT !.year = [by |-> "desk", calendar |-> calendar,
                                                         rows |-> rows]])
  \/ site.year.rows # {} /\ Desk([site EXCEPT !.year.rows = @ \cup {"other"}])

\* A site before its first company, with the Workflow State of an older seed,
\* which something else may link.
Init ==
  /\ site \in [recs : {{}}, submitted : {{}}, ended : {{}}, year : {NoYear},
               shared : {{"state"}}, used : SUBSET {"state"}, field : {FALSE}]
  /\ run = NoRun
  /\ desk = 0

Next ==
  \/ Begin("seed")
  \/ Begin("reset")
  \/ Fail
  \/ SeedSection
  \/ SeedEnds
  \/ WipeOne
  \/ WipeNext
  \/ Deadlock
  \/ ResetEnds
  \/ DeskDeletes
  \/ DeskCancels
  \/ DeskAdds
  \/ DeskDecides
  \/ DeskFounds
  \/ DeskYear

Spec == Init /\ [][Next]_vars

-----------------------------------------------------------------------------
(* Properties.                                                             *)

\* Rows and the command have their shape; what others link is there.
TypeOK ==
  /\ site \in Rows /\ desk \in 0..MaxDesk
  /\ site.submitted \cup site.ended \subseteq site.recs
  /\ site.used \subseteq site.shared
  /\ run.cmd \in {"none", "seed", "reset"}
  /\ run.cmd # "none" => run.rows \in Rows /\ run.names \subseteq Records

\* What the seed promises to be there.
Complete(rows) ==
  /\ \A g \in Groups \ Documents : Missing(rows, g) = {}
  /\ InForce(rows, "stock") # {} /\ Of(rows, "order") # {}
  /\ Cardinality(InForce(rows, "sales")) >= Size("sales")
  /\ rows.year # NoYear /\ (rows.year.rows = {} \/ "demo" \in rows.year.rows)
  /\ "workflow" \in rows.shared

Commits(cmd, order) ==
  Running(cmd) /\ run.at > Len(order) /\ run' = NoRun /\ site' = run.rows

\* A seed that ends left a complete site, took nothing away, and changed
\* nothing of a site that was complete, wherever an earlier one was killed
\* and whatever users deleted in between; after one that was killed before its
\* company had accounts, no seed ends until a reset (_seed).
Reseeding ==
  [][Commits("seed", SeedOrder) =>
       /\ Complete(site')
       /\ site.recs \subseteq site'.recs /\ site.ended \subseteq site'.ended
       /\ Complete(site) => site'.recs = site.recs /\ site'.year = site.year]_vars

\* A reset that ends left no record of the demo company and none of its marks,
\* whatever deadlocks it met: what a rollback brought back stops it by its
\* links (_reset_records, _delete_one).
NothingMarked ==
  Commits("reset", ResetOrder) =>
    (\A g \in Groups : Marked(site', g) = {}) /\ "demo" \notin site'.year.rows

\* Without a deadlock the order of the reset meets no link: only a document
\* the reset does not know can stop it.
OrderRespectsLinks ==
  Running("reset") /\ run.deadlocks = 0 /\ Of(site, "journal") = {} =>
    \A r \in run.names : DeleteOne(run.rows, r) # {}

\* Neither command takes from others: what they link stays, a year they made
\* stays, for the companies it was made for (fiscal_year_seed_action,
\* fiscal_year_reset_action, _shared_workflow_unreferenced).
OthersKept ==
  ~Running("none") =>
    /\ site'.used = site.used /\ site.used \subseteq site'.shared
    /\ site.year.by = "desk" => site'.year.by = "desk"
    /\ site.year.by = "desk" /\ site.year.rows = {} => site'.year.rows = {}
    /\ "other" \in site.year.rows => "other" \in site'.year.rows

\* No command runs or starts, and nobody else writes.
Untouched == Running("none") /\ Running("none")' /\ site' = site

\* A reset takes all of the demo and nothing else (_reset).
CleanReset == [][~Untouched => (TypeOK /\ OrderRespectsLinks)' /\ NothingMarked /\ OthersKept]_vars

\* A seed completes the site and takes nothing, a reset takes all of the demo
\* and nothing else, wherever an earlier command was killed (_seed, _reset).
SeedAndReset == Reseeding /\ CleanReset

=============================================================================
