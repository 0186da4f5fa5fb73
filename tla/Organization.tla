------------------------------ MODULE Organization ------------------------------
(***************************************************************************)
(* The organization of one office: its units, native Departments in a      *)
(* tree, and the chart of its positions, one document whose rows refer to  *)
(* units and seat employees.  Nothing but the code keeps what the rows     *)
(* refer to: they are text in a column.                                    *)
(*                                                                         *)
(* A call reads the snapshot that its first query takes, and locks the     *)
(* company only then.  A chart that is saved must bear the stamp it was    *)
(* read with, and an office has one chart (the name of the document).      *)
(***************************************************************************)
EXTENDS Naturals, FiniteSets

CONSTANTS
  Titles,       \* titles of units; a new unit is named by its title
  Codes,        \* codes of positions
  Employees,
  None,         \* no unit, no parent
  Contents,     \* what a client may write of a position
  Given,        \* charts and units of an office before the first call
  Imports,      \* files that may be imported: units and positions
  Workers,
  MaxChanges    \* bound: commits of a behaviour

VARIABLES
  units,    \* Department, by name
  chart,    \* ASOUD Organization Chart: the rows by code
  staff,    \* employees that are active
  page,     \* the chart as a client has it
  changes,  \* commits so far
  txn

vars == <<units, chart, staff, page, changes, txn>>

Stamps == 0..MaxChanges

Unit == [there : BOOLEAN, title : Titles, parent : Titles \cup {None}, group : BOOLEAN, enabled : BOOLEAN]

\* A term of an assignment: when it began, none if it is older than the history.
Term == [who : Employees, since : Stamps, till : Stamps]

\* by: a row that names its unit by id, or (of older clients) by title; terms: the
\* row keeps the history of its seats, or (of older clients) only who has the seat.
Row == [by : {"id", "title"}, unit : Titles \cup {None}, parent : Codes \cup {None}, terms : BOOLEAN,
        occupants : SUBSET Employees, history : SUBSET Term]

Site == [units |-> units, chart |-> chart, staff |-> staff]

Idle == [op |-> "none"]

Now == changes + 1

-----------------------------------------------------------------------------
(* Units.                                                                  *)

NewUnit(u, parent) == [there |-> TRUE, title |-> u, parent |-> parent, group |-> TRUE, enabled |-> TRUE]

\* The row a form starts from.
AsIs(s, u) == IF s.units[u].there THEN s.units[u] ELSE NewUnit(u, None)

\* What the rows of a chart say of a unit.
RefersTo(s, row, u) == row.unit # None /\ row.unit = IF row.by = "id" THEN u ELSE s.units[u].title

references(s, u) == {p \in DOMAIN s.chart.rows : RefersTo(s, s.chart.rows[p], u)}

Children(s, u) == {c \in Titles : s.units[c].there /\ s.units[c].parent = u}

\* A unit and those above it.
Ancestors(s, u) ==
  LET Above[n \in 0..Cardinality(Titles)] ==
        IF n = 0 THEN {u} \ {None} ELSE Above[n - 1] \cup ({s.units[x].parent : x \in Above[n - 1]} \ {None})
  IN Above[Cardinality(Titles)]

\* Mutation of validate_parent: only the unit itself is no parent of it.
validate_parent_direct(s, u, parent) ==
  u # parent /\ \A x \in Ancestors(s, parent) : s.units[x].there /\ s.units[x].enabled

validate_parent(s, u, parent) ==
  \A x \in Ancestors(s, parent) : x # u /\ s.units[x].there /\ s.units[x].enabled

\* Mutation of guard_department: titles may change under the rows of older clients.
guard_department_titles(s, u, row) == row.enabled \/ references(s, u) = {}

guard_department(s, u, row) ==
  /\ row.enabled \/ references(s, u) = {}
  /\ row.title # s.units[u].title => \A p \in references(s, u) : s.chart.rows[p].by = "id"

\* A call whose client has seen an older row is refused.
SaveUnit(s, u, row) ==
  LET old == s.units[u]
  IN IF /\ row.enabled = AsIs(s, u).enabled /\ (old.there \/ row.title = u)
        /\ old.there => guard_department(s, u, row)
        /\ validate_parent(s, u, row.parent)
        /\ row.parent # None => s.units[row.parent].group
        /\ row.group \/ Children(s, u) = {}
     THEN {[s EXCEPT !.units[u] = row]} ELSE {}

DeleteUnit(s, u) ==
  IF s.units[u].there /\ references(s, u) = {} /\ Children(s, u) = {}
  THEN {[s EXCEPT !.units[u].there = FALSE]} ELSE {}

\* The Desk: a unit is disabled or enabled, titled anew, or gets another name.
DeskUnit(s, u, row) ==
  IF s.units[u].there /\ guard_department(s, u, row) THEN {[s EXCEPT !.units[u] = row]} ELSE {}

RenameUnit(s, u, name) ==
  IF s.units[u].there /\ ~s.units[name].there /\ references(s, u) = {}
  THEN {[s EXCEPT !.units = [x \in Titles |->
           CASE x = u -> [s.units[x] EXCEPT !.there = FALSE]
             [] x = name -> s.units[u]
             [] x \in Children(s, u) -> [s.units[x] EXCEPT !.parent = name]
             [] OTHER -> s.units[x]]]}
  ELSE {}

-----------------------------------------------------------------------------
(* The chart.                                                              *)

Above(rows, p) ==
  LET Up[n \in 0..Cardinality(Codes)] ==
        IF n = 0 THEN {rows[p].parent} ELSE {rows[x].parent : x \in Up[n - 1] \cap DOMAIN rows}
  IN UNION {Up[n] : n \in 0..Cardinality(Codes)} \ {None}

validate_rows(rows) == \A p \in DOMAIN rows : Above(rows, p) \subseteq DOMAIN rows \ {p}

normalize_assignments(s, rows) ==
  /\ \A p \in DOMAIN rows : rows[p].occupants \subseteq s.staff
  /\ \A p, q \in DOMAIN rows : p # q => rows[p].occupants \cap rows[q].occupants = {}

validate_position_units(s, rows) ==
  \A p \in DOMAIN rows : rows[p].by = "id" /\ rows[p].unit # None =>
    s.units[rows[p].unit].there /\ s.units[rows[p].unit].enabled

Subordinates(rows, p) == {q \in DOMAIN rows : rows[q].parent = p}

deletion_review(rows, p) == rows[p].occupants = {} /\ Subordinates(rows, p) = {} /\ rows[p].history = {}

\* May the rows replace the old ones?
Keeps(old, rows) ==
  /\ \A p \in DOMAIN old \ DOMAIN rows : deletion_review(old, p)
  /\ \A p \in DOMAIN old \cap DOMAIN rows :
       rows[p].terms \/ (~old[p].terms /\ (old[p].occupants = {} \/ old[p].occupants = rows[p].occupants))

\* Mutation of Seated: terms begin with the row.
SeatedAnew(before, row, prior) == {[who |-> e, since |-> Now, till |-> 0] : e \in row.occupants}

\* The history of a row: whoever left ends a term, whoever came begins one.
Seated(before, row, prior) ==
  LET kept == IF before = {} THEN {[who |-> e, since |-> 0, till |-> 0] : e \in prior} ELSE before
  IN {IF t.till = 0 /\ t.who \notin row.occupants THEN [t EXCEPT !.till = Now] ELSE t : t \in kept}
       \cup {[who |-> e, since |-> Now, till |-> 0] : e \in row.occupants \ prior}

reconcile(old, rows) ==
  [p \in DOMAIN rows |->
     LET before == IF p \in DOMAIN old THEN old[p] ELSE [history |-> {}, occupants |-> {}]
     IN IF rows[p].terms THEN [rows[p] EXCEPT !.history = Seated(before.history, rows[p], before.occupants)]
        ELSE [rows[p] EXCEPT !.history = {}]]

\* Rows as a client means them.
intent(rows) == [p \in DOMAIN rows |-> [rows[p] EXCEPT !.history = {}]]

\* Mutation of Stored: the revision stays.
StoredSilently(chart_, rows) == [there |-> TRUE, revision |-> chart_.revision, stamp |-> Now, rows |-> rows]

Stored(chart_, rows) ==
  [there |-> TRUE, revision |-> chart_.revision + (IF rows # chart_.rows THEN 1 ELSE 0), stamp |-> Now,
   rows |-> rows]

\* A save that repeats what is there is answered and writes nothing.
SaveChart(s, revision, rows) ==
  LET unchanged == intent(s.chart.rows) = intent(rows)
  IN CASE ~(validate_rows(rows) /\ normalize_assignments(s, rows) /\ validate_position_units(s, rows)) -> {}
       [] unchanged /\ revision # s.chart.revision -> {s}
       [] revision # s.chart.revision -> {}
       [] OTHER -> IF Keeps(s.chart.rows, rows)
                   THEN {[s EXCEPT !.chart = Stored(s.chart, reconcile(s.chart.rows, rows))]} ELSE {}

\* The locked chart is read anew; with none the answer is that it is empty.
ResetChart(r, s, revision) ==
  CASE ~r.chart.there -> IF revision = 0 THEN {s} ELSE {}
    [] s.chart.revision # revision -> {}
    [] OTHER -> {[s EXCEPT !.chart = Stored(s.chart, <<>>)]}

\* A file matches units by name and adds units and positions, all of it or nothing.
ApplyImport(s, revision, file) ==
  LET created == {u \in DOMAIN file.units : ~file.units[u].match}
      with == [s EXCEPT !.units = [u \in Titles |->
                 IF u \in created
                 THEN NewUnit(u, file.units[u].parent) ELSE s.units[u]]]
      rows == [p \in DOMAIN s.chart.rows \cup DOMAIN file.rows |->
                 IF p \in DOMAIN s.chart.rows THEN s.chart.rows[p] ELSE file.rows[p]]
  IN IF /\ revision = s.chart.revision
        /\ file.template => DOMAIN s.chart.rows = {}
        /\ DOMAIN file.rows \cap DOMAIN s.chart.rows = {}
        /\ \A u \in DOMAIN file.units :
             LET given == file.units[u].parent
             IN IF file.units[u].match
                THEN s.units[u].there /\ s.units[u].enabled /\ given \in {None, s.units[u].parent}
                ELSE /\ ~s.units[u].there
                     /\ validate_parent(with, u, given) /\ (given # None => with.units[given].group)
     THEN SaveChart(with, revision, rows) ELSE {}

-----------------------------------------------------------------------------
(* Calls.                                                                  *)

\* One position removed, added or written.
Drafts(rows) ==
  {[q \in DOMAIN rows \ {p} |-> rows[q]] : p \in DOMAIN rows}
    \cup {[q \in DOMAIN rows \cup {p} |-> IF q = p THEN c ELSE rows[q]] : p \in Codes, c \in Contents}

ChartCalls == [op : {"save"}, page : {page}, rows : Drafts(page.rows)] \cup [op : {"reset"}, page : {page}]

UnitRows(u) ==
  LET now == AsIs(Site, u)
  IN {[now EXCEPT !.parent = x] : x \in Titles \cup {None}}
       \cup {[now EXCEPT !.group = ~@], [now EXCEPT !.enabled = ~@]} \cup {[now EXCEPT !.title = t] : t \in Titles}

\* Mutation of IsLatest: the stamp is not looked at.
IsLatestAny(r, s) == TRUE

\* Frappe: a chart that is saved is the one that was read.
IsLatest(r, s) == s.chart.stamp = r.chart.stamp

\* What a call that read r commits on s.
Result(r, s, a) ==
  IF a.op = "save"
  THEN {t \in SaveChart(r, a.page.revision, a.rows) : t.chart # r.chart => IsLatest(r, s)}
  ELSE ResetChart(r, s, a.page.revision)

Init ==
  /\ \E g \in Given : units = g.units /\ chart = g.chart
  /\ staff = Employees /\ changes = 0
  /\ page = [revision |-> chart.revision, rows |-> chart.rows]
  /\ txn = [w \in Workers |-> Idle]

Begin(w) ==
  /\ txn[w] = Idle /\ changes < MaxChanges
  /\ \E a \in ChartCalls :
       /\ Result(Site, Site, a) # {}
       /\ txn' = [txn EXCEPT ![w] = [op |-> a.op, call |-> a, read |-> Site]]
  /\ UNCHANGED <<units, chart, staff, page, changes>>

Commit(w) ==
  /\ txn[w] # Idle /\ changes < MaxChanges
  /\ \E t \in Result(txn[w].read, Site, txn[w].call) :
       chart' = IF t.chart = txn[w].read.chart THEN chart ELSE t.chart
  /\ changes' = changes + 1
  /\ txn' = [txn EXCEPT ![w] = Idle]
  /\ UNCHANGED <<units, staff, page>>

\* A refusal, a conflict or a lost connection leaves nothing.
Fail(w) ==
  /\ txn[w] # Idle
  /\ txn' = [txn EXCEPT ![w] = Idle]
  /\ UNCHANGED <<units, chart, staff, page, changes>>

\* The Desk and HR are not bound to what a client has seen.
UnitCalls(u) ==
  UNION {SaveUnit(Site, u, row) : row \in UnitRows(u)}
    \cup UNION {DeskUnit(Site, u, row) : row \in {x \in UnitRows(u) : x.parent = units[u].parent}}
    \cup UNION {RenameUnit(Site, u, name) : name \in Titles}
    \cup DeleteUnit(Site, u)

\* Calls about units and imports, which no other overlaps.
Serve ==
  /\ changes < MaxChanges /\ \A w \in Workers : txn[w] = Idle
  /\ \E s \in UNION {UnitCalls(u) : u \in Titles} \cup UNION {ApplyImport(Site, page.revision, f) : f \in Imports} :
       /\ s # Site
       /\ units' = s.units /\ chart' = s.chart
  /\ changes' = changes + 1
  /\ UNCHANGED <<staff, page, txn>>

GetChart ==
  /\ page' = [revision |-> chart.revision, rows |-> chart.rows]
  /\ page' # page
  /\ UNCHANGED <<units, chart, staff, changes, txn>>

Leaves ==
  /\ \E e \in staff : staff' = staff \ {e}
  /\ UNCHANGED <<units, chart, page, changes, txn>>

Next == Serve \/ GetChart \/ Leaves \/ \E w \in Workers : Begin(w) \/ Commit(w) \/ Fail(w)

Spec == Init /\ [][Next]_vars

-----------------------------------------------------------------------------
(* Properties.                                                             *)

\* Rows have the shape of their documents.
TypeOK ==
  /\ units \in [Titles -> Unit] /\ staff \subseteq Employees
  /\ DOMAIN chart.rows \subseteq Codes /\ \A p \in DOMAIN chart.rows : chart.rows[p] \in Row

\* Units form a tree of groups, without a ring, whatever is moved, named anew
\* or imported (validate_parent, save_unit, plan).
UnitsFormTree ==
  \A u \in {x \in Titles : units[x].there /\ units[x].parent # None} :
    /\ units[units[u].parent].there /\ u \notin Ancestors(Site, units[u].parent)

\* An employee has one seat, and the open terms of a position are its seats,
\* through edits by clients old and new (normalize_assignments, reconcile).
TermsTellSeats ==
  /\ \A p, q \in DOMAIN chart.rows : p # q => chart.rows[p].occupants \cap chart.rows[q].occupants = {}
  /\ \A p \in DOMAIN chart.rows :
       LET open == {t \in chart.rows[p].history : t.till = 0}
       IN chart.rows[p].terms =>
            {t.who : t \in open} = chart.rows[p].occupants /\ \A t, v \in open : t.who = v.who => t = v

\* A position that names its unit by id is in a unit that is there and active.
PlacesAreThere ==
  \A p \in DOMAIN chart.rows : chart.rows[p].by = "id" =>
    \A u \in {chart.rows[p].unit} \ {None} : units[u].there /\ units[u].enabled

\* A position that a step leaves as it is refers to the units it referred to,
\* by id or by title, and they are as active as they were (guard_department,
\* guard_rename, delete_unit).
PlacesStand ==
  \A p \in DOMAIN chart.rows \cap DOMAIN chart'.rows :
    chart'.rows[p] = chart.rows[p] =>
      \A u \in {x \in Titles : units[x].there /\ p \in references(Site, x)} :
        units'[u].there /\ p \in references(Site, u)' /\ (units[u].enabled => units'[u].enabled)

\* What replaces a chart was drafted from the rows that it replaces, however
\* saves, resets and imports overlap or are repeated (save_chart, reset_chart).
DraftedFromWhatIsThere ==
  IF txn' = txn THEN page.rows = chart.rows
  ELSE \A w \in Workers : txn'[w] # txn[w] => txn[w].call.page.rows = chart.rows

\* Short of a reset no term of an assignment is lost, and one that has ended
\* stays as it is (reconcile, deletion_review).
PastKept ==
  (\A w \in Workers : txn'[w] # txn[w] => txn[w].op # "reset") =>
    \A p \in DOMAIN chart.rows : \A t \in chart.rows[p].history :
      /\ p \in DOMAIN chart'.rows
      /\ \E v \in chart'.rows[p].history : v.who = t.who /\ v.since = t.since /\ (t.till # 0 => v = t)

\* The chart stands: on units that are there, with all terms of its seats, and
\* never over an edit its author had not seen.
ChartStands ==
  [][vars' # vars =>
       /\ TypeOK' /\ UnitsFormTree' /\ TermsTellSeats' /\ PlacesAreThere'
       /\ ((units' # units \/ chart' # chart) => PlacesStand) = TRUE
       /\ (chart'.rows # chart.rows => DraftedFromWhatIsThere /\ PastKept) = TRUE]_vars
=============================================================================
