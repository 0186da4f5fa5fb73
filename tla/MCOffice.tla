-------------------------------- MODULE MCOffice --------------------------------
(* Instances of Trade, Calendar, DemoSeed, Organization and Office, which  *)
(* share no rows: a behaviour is about one.                                *)
EXTENDS Trade, Calendar, TLC

CONSTANTS Components, None

VARIABLES
  component,                                                  \* what the behaviour is about
  site, run, desk,                                            \* DemoSeed
  units, chart, staff, page, changes, charting,               \* Organization
  companies, setups, year, first, leads, told, steps, opening \* Office

demoVars == <<site, run, desk>>

chartVars == <<units, chart, staff, page, changes, charting>>

setupVars == <<companies, setups, year, first, leads, told, steps, opening>>

officeVars == <<component, vars, calendarVars, demoVars, chartVars, setupVars>>

\* Some lines balance only once they are rounded.
Lines == {<< <<100, 0>>, <<0, 100>> >>, << <<104, 0>>, <<0, 100>> >>}

Bounds == [voucher |-> 3, report |-> 1, till |-> 8, sale |-> 3]

\* What the theorems about Trade assume of its constants.
ASSUME TradeAssumption == TradeTypes

-----------------------------------------------------------------------------
(* Two invoices and two requests, of which one stays open; one of the      *)
(* rest, none of the DocType the seed does not know.                       *)

DemoRecords(g) == CASE g \in {"sales", "request"} -> 2 [] g = "journal" -> 0 [] OTHER -> 1

S == INSTANCE DemoSeed WITH Size <- DemoRecords, MaxRecords <- 4, MaxDesk <- 1, MaxDeadlocks <- 1

ASSUME SeedAssumption == S!SeedAssumption

-----------------------------------------------------------------------------
(* Two units and two positions, which clients old and new write; an office *)
(* that has a position of an old client, and one that has nothing.         *)

Position == [by |-> "id", unit |-> "none", parent |-> "none", terms |-> TRUE, occupants |-> {}, history |-> {}]

OldPosition == [Position EXCEPT !.by = "title", !.unit = "a", !.terms = FALSE]

NoUnits == [u \in {"a", "b"} |->
              [there |-> FALSE, title |-> u, parent |-> "none", group |-> TRUE, enabled |-> TRUE]]

Charts ==
  {[units |-> [NoUnits EXCEPT !["a"].there = TRUE],
    chart |-> [there |-> TRUE, revision |-> 1, stamp |-> 0, rows |-> ("p" :> [OldPosition EXCEPT !.occupants = {"e"}])]],
   [units |-> NoUnits, chart |-> [there |-> FALSE, revision |-> 0, stamp |-> 0, rows |-> <<>>]]}

Positions ==
  {[Position EXCEPT !.unit = "a", !.occupants = {"e"}], [Position EXCEPT !.parent = "p", !.occupants = {"f"}],
   [Position EXCEPT !.unit = "b", !.parent = "q"], [OldPosition EXCEPT !.occupants = {"f"}]}

NewUnit(parent) == [match |-> FALSE, parent |-> parent]

Files ==
  {[units |-> ("b" :> NewUnit("a")) @@ ("a" :> [match |-> TRUE, parent |-> "none"]),
    rows |-> ("q" :> [Position EXCEPT !.unit = "b"]), template |-> FALSE],
   [units |-> ("b" :> NewUnit("a")) @@ ("a" :> NewUnit("none")),
    rows |-> ("p" :> [Position EXCEPT !.unit = "a"]), template |-> TRUE]}

U == INSTANCE Organization WITH
       txn <- charting, Titles <- {"a", "b"}, Codes <- {"p", "q"},
       Employees <- {"e", "f"}, None <- "none", Contents <- Positions, Given <- Charts, Imports <- Files, MaxChanges <- 3

-----------------------------------------------------------------------------
(* Two offices and two user names.                                         *)

O == INSTANCE Office WITH
       accounts <- leads, changes <- steps, txn <- opening, Titles <- {"a", "b"}, Logins <- {"ali", "sara"},
       MaxChanges <- 5

-----------------------------------------------------------------------------

\* What the behaviour is not about starts in one way.
OfficeInit ==
  /\ component \in Components
  /\ Init /\ CalendarInit /\ S!Init /\ U!Init /\ O!Init
  /\ component = "trade" \/ subject = "sale"
  /\ component = "calendar" \/ part = "official"
  /\ component = "demo" \/ site.used = {}
  /\ component = "chart" \/ chart.there

OfficeNext ==
  \/ component = "trade" /\ Next /\ UNCHANGED <<component, calendarVars, demoVars, chartVars, setupVars>>
  \/ component = "calendar" /\ CalendarNext /\ UNCHANGED <<component, vars, demoVars, chartVars, setupVars>>
  \/ component = "demo" /\ S!Next /\ UNCHANGED <<component, vars, calendarVars, chartVars, setupVars>>
  \/ component = "chart" /\ U!Next /\ UNCHANGED <<component, vars, calendarVars, demoVars, setupVars>>
  \/ component = "office" /\ O!Next /\ UNCHANGED <<component, vars, calendarVars, demoVars, chartVars>>

OfficeSpec == OfficeInit /\ [][OfficeNext]_officeVars

Interchangeable == Permutations(Workers) \cup Permutations(Keys) \cup Permutations(Devices)

-----------------------------------------------------------------------------
(* The properties of the components other than Trade and Calendar.         *)

\* A seed completes the site and takes nothing, a reset takes all of the demo and
\* nothing else, wherever an earlier command was killed (_seed, _reset).
SeedAndReset == S!SeedAndReset

\* The chart stands on units that are there, with every term of its seats, and no
\* edit of it is lost to one that had not seen it (save_chart, reset_chart,
\* apply_import, guard_department, reconcile).
ChartStands == U!ChartStands

\* An office is set up once: one lead, whom every client is told of, a completion
\* that had a year, and sections that stay saved (create_first_office,
\* create_hr_lead, complete, ASOUDCompanySetup.validate).
SetUpOnce == O!SetUpOnce

=============================================================================
