------------------------------ MODULE FormRouting ------------------------------
(***************************************************************************)
(* From a published form to a running workflow: the life of a form and its *)
(* revisions, the binding of a workflow definition to one of them, the     *)
(* submission of a form as an entry, and the ways an instance is started:  *)
(* by the submission, again by the owner of the entry, as a restart by a   *)
(* manager, or by hand.                                                    *)
(*                                                                         *)
(* A call is a REPEATABLE READ transaction.  Begin keeps in seen what its  *)
(* plain reads will see, Finish commits against the committed rows c,      *)
(* which is what its locking reads see.  An operator returns the rows the  *)
(* call may commit, {} when it is refused.                                 *)
(***************************************************************************)
EXTENDS Naturals, Sequences, FiniteSets

CONSTANTS
  Forms, Defs,  \* forms, workflow definitions
  Contents,     \* what a draft may say
  First,        \* what every form says at first
  OwnRoute,     \* contents that name a workflow of their own
  Modes,        \* ways of starting that designers choose for a definition
  Keys,         \* request keys of the clients
  Overlap,      \* sets of calls that may be served at the same time
  Workers,      \* processes that serve calls
  MaxRev,       \* bound: revisions of a form
  MaxVersion,   \* bound: draft versions of a form
  MaxEntries,   \* bound: submitted entries
  MaxInst       \* bound: workflow instances

Entries == 1..MaxEntries

Instances == 1..MaxInst

NoForm == "no form"

NoDef == "no definition"

NoKey == "no key"

ASSUME RoutingAssumption ==
  /\ First \in Contents /\ OwnRoute \subseteq Contents
  /\ Modes \in [Defs -> SUBSET {"event", "restart", "manual"}]
  /\ MaxRev \in Nat \ {0} /\ MaxVersion \in Nat \ {0} /\ MaxEntries \in Nat /\ MaxInst \in Nat
  /\ NoForm \notin Forms /\ NoDef \notin Defs /\ NoKey \notin Keys

VARIABLES
  db,  \* committed rows
  txn  \* the call each worker serves

vars == <<db, txn>>

-----------------------------------------------------------------------------
(* Rows.                                                                   *)

Revision == [version : 1..MaxRev, content : Contents]

\* ASOUD Form with its revisions in the order they were inserted; active is
\* the active one, 0 if none was published.
Form == [draft : Contents, version : 1..MaxVersion, disabled : BOOLEAN,
         revs : UNION {[1..n -> Revision] : n \in 0..MaxRev}, active : 0..MaxRev]

\* ASOUD Workflow Definition and the start settings of its Start stage:
\* "legacy" if they were never saved as v1, "restart" when a document event
\* starts it and managers may restart it.
Definition == [status : {"none", "Inactive", "Active", "Archived"},
               mode : {"legacy", "event", "restart", "manual"},
               form : Forms \cup {NoForm}, rev : 0..MaxRev]

NoDefinition == [status |-> "none", mode |-> "legacy", form |-> NoForm, rev |-> 0]

\* ASOUD Form Entry, and whether a request of the form's own workflow is its
\* reference.
Entry == [form : Forms \cup {NoForm}, rev : 0..MaxRev, key : Keys \cup {NoKey}, own : BOOLEAN]

NoEntry == [form |-> NoForm, rev |-> 0, key |-> NoKey, own |-> FALSE]

\* ASOUD Workflow Instance; entry is 0 and key the request_id of a manual start.
Instance == [status : {"none", "Running", "Ended"}, def : Defs \cup {NoDef},
             entry : 0..MaxEntries, key : Keys \cup {NoKey}]

NoInstance == [status |-> "none", def |-> NoDef, entry |-> 0, key |-> NoKey]

Rows == [form : [Forms -> Form], def : [Defs -> Definition],
         entry : [Entries -> Entry], inst : [Instances -> Instance]]

Free(rows, none) ==
  {n \in DOMAIN rows : rows[n] = none /\ \A x \in DOMAIN rows : rows[x] = none => n <= x}

Made(c) == {e \in Entries : c.entry[e] # NoEntry}

Running(c) == {i \in Instances : c.inst[i].status = "Running"}

\* A published form that takes entries of revision rev.
Offers(form, rev) == rev > 0 /\ ~form.disabled /\ form.active = rev

-----------------------------------------------------------------------------
(* Forms.                                                                  *)

\* save_form of an existing form: the same content is no change, another
\* version is refused.
SaveForm(c, f, content, version) ==
  IF c.form[f].draft = content \/ c.form[f].version # version THEN {}
  ELSE {[c EXCEPT !.form[f] = [c.form[f] EXCEPT !.draft = content, !.version = version + 1]]}

\* The rows a transition may leave, before the draft version is counted up.
Publish(form, count) ==
  IF form.active > 0 /\ form.revs[form.active].content = form.draft
  THEN {[form EXCEPT !.disabled = FALSE]}
  ELSE {[form EXCEPT !.disabled = FALSE, !.active = Len(form.revs) + 1,
                     !.revs = Append(form.revs, [version |-> count + 1,
                                                 content |-> form.draft])]}

Enable(form, disabled) ==
  IF form.active = 0 THEN {} ELSE {[form EXCEPT !.disabled = disabled]}

TransitionOf(form, action, count) ==
  CASE action = "publish" -> Publish(form, count)
    [] action = "enable" -> Enable(form, FALSE)
    [] action = "disable" -> Enable(form, TRUE)

\* Mutation of Transition: expected_version is not compared.
TransitionAnyVersion(c, f, action, version, count) ==
  {[c EXCEPT !.form[f] = [form EXCEPT !.version = form.version + 1]] :
     form \in TransitionOf(c.form[f], action, count)}

\* transition: under the form lock, the revisions counted in the snapshot.
Transition(c, f, action, version, count) ==
  IF c.form[f].version # version THEN {}
  ELSE {[c EXCEPT !.form[f] = [form EXCEPT !.version = version + 1]] :
          form \in TransitionOf(c.form[f], action, count)}

\* remove_builtin compares no version.
RemoveBuiltin(c, f) ==
  IF c.form[f].disabled THEN {}
  ELSE {[c EXCEPT !.form[f] = [c.form[f] EXCEPT !.disabled = TRUE,
                                                !.version = c.form[f].version + 1]]}

-----------------------------------------------------------------------------
(* Routing: which definition an entry of revision rev of form f starts.    *)

Bound(defs, f) == {d \in Defs : defs[d].form = f /\ defs[d].status # "Archived"}

\* route: NoDef when the form has no workflow, nothing when it is refused.
Route(defs, f, rev) ==
  IF \A d \in Defs : defs[d].form # f THEN {NoDef}
  ELSE {d \in Bound(defs, f) : /\ Bound(defs, f) = {d}
                               /\ defs[d].rev = rev
                               /\ defs[d].status = "Active"}

\* Mutation of Rebind: running instances are not looked for.
RebindRunning(c, seen, d, f, rev) ==
  IF \/ c.def[d].form # seen[d].form
     \/ /\ f # NoForm
        /\ \/ ~Offers(c.form[f], rev)
           \/ c.form[f].revs[rev].content \in OwnRoute
           \/ Bound(seen, f) \ {d} # {}
  THEN {}
  ELSE {[c EXCEPT !.def[d] = [c.def[d] EXCEPT !.form = f, !.rev = rev]]}

\* bind: the old and the new form are locked, then the definition; other
\* definitions are looked for in the snapshot.  The definition's validation
\* refuses another source while an instance runs.
Rebind(c, seen, d, f, rev) ==
  IF \/ c.def[d].form # seen[d].form
     \/ /\ <<f, rev>> # <<c.def[d].form, c.def[d].rev>>
        /\ \E i \in Running(c) : c.inst[i].def = d
     \/ /\ f # NoForm
        /\ \/ ~Offers(c.form[f], rev)
           \/ c.form[f].revs[rev].content \in OwnRoute
           \/ Bound(seen, f) \ {d} # {}
  THEN {}
  ELSE {[c EXCEPT !.def[d] = [c.def[d] EXCEPT !.form = f, !.rev = rev]]}

\* save_stage_settings of a user task that chooses the source, or drops it.
BindTask(c, seen, d, f, rev) ==
  IF seen[d].mode # "legacy" THEN {} ELSE Rebind(c, seen, d, f, rev)

\* workflow_start_settings.save: unchanged settings are no change, running
\* instances refuse others; a manual start clears the source.
SaveStart(c, seen, running, d, mode, f, rev) ==
  IF \/ [seen[d] EXCEPT !.mode = mode, !.form = f, !.rev = rev] = seen[d]
     \/ d \in running
     \/ c.def[d].mode # seen[d].mode
     \/ (mode = "manual") # (f = NoForm)
  THEN {}
  ELSE {[r EXCEPT !.def[d] = [r.def[d] EXCEPT !.mode = mode]] :
          r \in Rebind(c, seen, d, f, rev)}

\* set_workflow_status: on activation the form is looked at under its lock
\* and other definitions in the snapshot.
SetStatus(c, seen, d, status) ==
  LET row == c.def[d] IN
  IF \/ row.status = "none"
     \/ /\ status = "Active" /\ row.status # "Active" /\ row.form # NoForm
        /\ ~Offers(c.form[row.form], row.rev) \/ Bound(seen, row.form) \ {d} # {}
  THEN {}
  ELSE {[c EXCEPT !.def[d] = [row EXCEPT !.status = status]]}

\* create_workflow_draft.
CreateDefinition(c, d) ==
  IF c.def[d] # NoDefinition THEN {}
  ELSE {[c EXCEPT !.def[d] = [NoDefinition EXCEPT !.status = "Inactive"]]}

\* delete_definition: never one that was started, nor one whose document, as
\* it was read, is bound.
DeleteDefinition(c, seen, d) ==
  IF \/ c.def[d].status = "none"
     \/ \E i \in Instances : c.inst[i].def = d
     \/ seen[d].form # NoForm
  THEN {}
  ELSE {[c EXCEPT !.def[d] = NoDefinition]}

-----------------------------------------------------------------------------
(* Starting.                                                               *)

NewInstance(c, d, e, key) ==
  {[c EXCEPT !.inst[i] = [status |-> "Running", def |-> d, entry |-> e, key |-> key]] :
     i \in Free(c.inst, NoInstance)}

\* start_decision, of the status of the instances there are.
StartDecision(mode, statuses, restart) ==
  CASE statuses # {} /\ ~restart -> "reuse"
    [] restart /\ (statuses = {} \/ "Running" \in statuses \/ mode # "restart") -> "refuse"
    [] OTHER -> "new"

\* What the snapshot shows of the entry: its instances under this definition,
\* or under any if the settings are legacy ones.
Statuses(seen, insts, d, e) ==
  {insts[i].status : i \in {x \in Instances : /\ insts[x].entry = e
                                              /\ seen[d].mode = "legacy" \/ insts[x].def = d}}

\* Mutation of Start: the status is not looked at again under the lock.
StartUnlocked(c, seen, d, e, restart, insts) ==
  CASE StartDecision(seen[d].mode, Statuses(seen, insts, d, e), restart) = "refuse" -> {}
    [] StartDecision(seen[d].mode, Statuses(seen, insts, d, e), restart) = "reuse" -> {c}
    [] OTHER -> NewInstance(c, d, e, NoKey)

\* Mutation of Start: an instance of the entry is not looked for.
StartAnew(c, seen, d, e, restart, insts) ==
  IF c.def[d].status # "Active" \/ (restart /\ seen[d].mode # "restart") THEN {}
  ELSE NewInstance(c, d, e, NoKey)

\* start_workflow_instance of an entry, once the entry may be started: the
\* definition is locked for its status only, the rest is of the snapshot.
Start(c, seen, d, e, restart, insts) ==
  LET decision == StartDecision(seen[d].mode, Statuses(seen, insts, d, e), restart) IN
  IF c.def[d].status # "Active" \/ decision = "refuse" THEN {}
  ELSE IF decision = "reuse" THEN {c}
  ELSE NewInstance(c, d, e, NoKey)

\* start_workflow_instance called for an entry: assert_reference first, with
\* entry and form locked and the route of the snapshot.
StartEntry(c, seen, d, e, restart, insts) ==
  LET entry == c.entry[e] IN
  IF \/ <<seen[d].form, seen[d].rev, seen[d].status>> # <<entry.form, entry.rev, "Active">>
     \/ ~Offers(c.form[entry.form], entry.rev)
     \/ d \notin Route(seen, entry.form, entry.rev)
  THEN {}
  ELSE Start(c, seen, d, e, restart, insts)

\* A manual start without a record: request_id answers a repeated one.
StartManual(c, seen, d, key, insts) ==
  IF \/ seen[d].mode # "manual" \/ seen[d].status # "Active" \/ c.def[d].status # "Active"
     \/ \E i \in Instances : insts[i].def = d /\ insts[i].key = key
  THEN {} ELSE NewInstance(c, d, 0, key)

-----------------------------------------------------------------------------
(* Submission.                                                             *)

UsedKeys(c) == {c.entry[e].key : e \in Made(c)}

\* The entry, and the instance its workflow starts.
NewEntry(c, seen, f, rev, key, insts) ==
  UNION {LET own == c.form[f].revs[rev].content \in OwnRoute
             with == [c EXCEPT !.entry[e] = [form |-> f, rev |-> rev, key |-> key, own |-> own]]
         IN UNION {IF d = NoDef THEN {with}
                   ELSE IF own THEN {}
                   ELSE Start(with, seen, d, e, FALSE, insts) : d \in Route(seen, f, rev)}
         : e \in Free(c.entry, NoEntry)}

\* Mutation of Submit: the form is read before it is locked.
SubmitStale(c, seen, form, keys, f, rev, key, insts) ==
  IF key \in keys \cup UsedKeys(c) \/ ~Offers(form, rev) THEN {}
  ELSE NewEntry(c, seen, f, rev, key, insts)

\* submit_form: under the form lock the revision must be the active one of an
\* enabled form.  A repeated key is answered if the snapshot shows its entry,
\* refused by the unique column if not.
Submit(c, seen, form, keys, f, rev, key, insts) ==
  IF key \in keys \cup UsedKeys(c) \/ ~Offers(c.form[f], rev) \/ rev > Len(form.revs) THEN {}
  ELSE NewEntry(c, seen, f, rev, key, insts)

-----------------------------------------------------------------------------
(* Calls as transactions.                                                  *)

Actions == {"publish", "enable", "disable"}

NoTxn == [op |-> "none"]

Sources(c) == {<<NoForm, 0>>} \cup {<<f, c.form[f].active>> : f \in {x \in Forms : c.form[x].active > 0}}

\* The calls a client may make of what it sees now.
Calls ==
  LET Defined == {d \in Defs : db.def[d].status # "none"}
      Active == {d \in Defs : db.def[d].status = "Active"}
  IN UNION {
    UNION {[op : {"save"}, form : {f}, content : Contents, version : {db.form[f].version}]
             \cup [op : {"transition"}, form : {f}, action : Actions,
                   version : {db.form[f].version}, count : {Len(db.form[f].revs)}]
             \cup [op : {"remove"}, form : {f}]
           : f \in {x \in Forms : db.form[x].version < MaxVersion}},
    UNION {[op : {"submit"}, form : {f}, rev : {db.form[f].active}, key : Keys,
            row : {db.form[f]}, keys : {UsedKeys(db)}, seen : {db.def}, insts : {db.inst}]
           : f \in {x \in Forms : Offers(db.form[x], db.form[x].active)}},
    [op : {"create"}, def : Defs \ Defined],
    [op : {"delete"}, def : {d \in Defined : db.def[d].form = NoForm}, seen : {db.def}],
    UNION {[op : {"status"}, def : {d}, seen : {db.def},
            status : {"Inactive", "Active", "Archived"} \ {db.def[d].status}] : d \in Defined},
    [op : {"bind"}, def : {d \in Defined : db.def[d].mode = "legacy"}, source : Sources(db),
     seen : {db.def}],
    UNION {[op : {"settings"}, def : {d}, mode : Modes[d], source : Sources(db),
            seen : {db.def}, running : {{db.inst[i].def : i \in Running(db)}}] : d \in Defined},
    [op : {"start", "restart"}, def : Active, entry : Made(db), seen : {db.def},
     insts : {db.inst}],
    [op : {"manual"}, def : {d \in Active : db.def[d].mode = "manual"}, key : Keys,
     seen : {db.def}, insts : {db.inst}]}

Idle(w) == txn[w] = NoTxn

\* A call begins while others are served only if Overlap lets them meet.
Begin(w) ==
  /\ Idle(w)
  /\ \E call \in Calls :
       /\ \A v \in Workers : Idle(v) \/ \E calls \in Overlap : {call.op, txn[v].op} \subseteq calls
       /\ txn' = [txn EXCEPT ![w] = call]
  /\ UNCHANGED db

\* Refused for a reason not modelled (permissions, an incomplete design), a
\* replay, a deadlock, a lost connection.
Abort(w) ==
  /\ ~Idle(w)
  /\ txn' = [txn EXCEPT ![w] = NoTxn]
  /\ UNCHANGED db

Commit(w, results) ==
  /\ db' \in results
  /\ txn' = [txn EXCEPT ![w] = NoTxn]

FinishSave(w) ==
  LET t == txn[w] IN
  t.op = "save" /\ Commit(w, SaveForm(db, t.form, t.content, t.version))

FinishTransition(w) ==
  LET t == txn[w] IN
  /\ t.op = "transition"
  /\ Len(db.form[t.form].revs) < MaxRev \/ t.action # "publish"
  /\ Commit(w, Transition(db, t.form, t.action, t.version, t.count))

FinishRemove(w) ==
  /\ txn[w].op = "remove"
  /\ db.form[txn[w].form].version < MaxVersion
  /\ Commit(w, RemoveBuiltin(db, txn[w].form))

FinishSubmit(w) ==
  LET t == txn[w] IN
  /\ t.op = "submit"
  /\ Commit(w, Submit(db, t.seen, t.row, t.keys, t.form, t.rev, t.key, t.insts))

FinishCreate(w) == txn[w].op = "create" /\ Commit(w, CreateDefinition(db, txn[w].def))

FinishStatus(w) ==
  txn[w].op = "status" /\ Commit(w, SetStatus(db, txn[w].seen, txn[w].def, txn[w].status))

FinishDelete(w) ==
  txn[w].op = "delete" /\ Commit(w, DeleteDefinition(db, txn[w].seen, txn[w].def))

FinishBind(w) ==
  LET t == txn[w] IN
  t.op = "bind" /\ Commit(w, BindTask(db, t.seen, t.def, t.source[1], t.source[2]))

FinishSettings(w) ==
  LET t == txn[w] IN
  /\ t.op = "settings"
  /\ Commit(w, SaveStart(db, t.seen, t.running, t.def, t.mode, t.source[1], t.source[2]))

FinishStart(w) ==
  LET t == txn[w] IN
  /\ t.op \in {"start", "restart"}
  /\ Commit(w, StartEntry(db, t.seen, t.def, t.entry, t.op = "restart", t.insts))

FinishManual(w) ==
  LET t == txn[w] IN
  t.op = "manual" /\ Commit(w, StartManual(db, t.seen, t.def, t.key, t.insts))

\* The engine ends an instance.
InstanceEnds ==
  /\ \E i \in Running(db) : db' = [db EXCEPT !.inst[i].status = "Ended"]
  /\ UNCHANGED txn

\* A form as a designer drafts it, and a builtin that opening it publishes.
Drafted == [draft |-> First, version |-> 1, disabled |-> FALSE, revs |-> <<>>, active |-> 0]

Opened == [Drafted EXCEPT !.revs = <<[version |-> 1, content |-> First]>>, !.active = 1]

Init ==
  /\ db \in [form : [Forms -> {Drafted, Opened}],
             def : {[d \in Defs |-> NoDefinition]},
             entry : {[e \in Entries |-> NoEntry]}, inst : {[i \in Instances |-> NoInstance]}]
  /\ txn = [w \in Workers |-> NoTxn]

Next ==
  \/ InstanceEnds
  \/ \E w \in Workers :
       \/ Begin(w)
       \/ Abort(w)
       \/ FinishSave(w)
       \/ FinishTransition(w)
       \/ FinishRemove(w)
       \/ FinishSubmit(w)
       \/ FinishCreate(w)
       \/ FinishStatus(w)
       \/ FinishDelete(w)
       \/ FinishBind(w)
       \/ FinishSettings(w)
       \/ FinishStart(w)
       \/ FinishManual(w)

Spec == Init /\ [][Next]_vars

-----------------------------------------------------------------------------
(* Properties.                                                             *)

Txn == [op : {"save"}, form : Forms, content : Contents, version : Nat]
         \cup [op : {"transition"}, form : Forms, action : Actions, version : Nat, count : Nat]
         \cup [op : {"remove"}, form : Forms]
         \cup [op : {"submit"}, form : Forms, rev : 1..MaxRev, key : Keys, row : Form,
               keys : SUBSET Keys, seen : [Defs -> Definition], insts : [Instances -> Instance]]
         \cup [op : {"create"}, def : Defs]
         \cup [op : {"status"}, def : Defs, status : {"Inactive", "Active", "Archived"},
               seen : [Defs -> Definition]]
         \cup [op : {"delete"}, def : Defs, seen : [Defs -> Definition]]
         \cup [op : {"bind"}, def : Defs, source : (Forms \cup {NoForm}) \X (0..MaxRev),
               seen : [Defs -> Definition]]
         \cup [op : {"settings"}, def : Defs, mode : {"event", "restart", "manual"}, running : SUBSET Defs,
               source : (Forms \cup {NoForm}) \X (0..MaxRev), seen : [Defs -> Definition]]
         \cup [op : {"start", "restart"}, def : Defs, entry : Entries,
               seen : [Defs -> Definition], insts : [Instances -> Instance]]
         \cup [op : {"manual"}, def : Defs, key : Keys, seen : [Defs -> Definition],
               insts : [Instances -> Instance]]

\* Rows and transactions have their shape.
TypeOK == db \in Rows /\ txn \in [Workers -> Txn \cup {NoTxn}]

\* The revisions of a form are numbered 1, 2, 3 in the order they were
\* published, though the count is read before the lock (transition).
RevisionsNumbered ==
  \A f \in Forms : \A n \in DOMAIN db.form[f].revs : db.form[f].revs[n].version = n

\* An entry is taken by a form that is enabled, in the revision that is then
\* the active one, and it and its instance appear together: the workflow is
\* active and bound to the entry's form and revision; an entry without instance belongs to a
\* form that no definition, not even an archived one, is bound to (submit_form,
\* route).
Routed ==
  [][\A e \in Entries \ Made(db) :
       e \in Made(db') =>
         LET entry == db'.entry[e]
             mine == {i \in Instances : db'.inst[i].entry = e}
         IN /\ Offers(db.form[entry.form], entry.rev)
            /\ IF mine = {} THEN \A d \in Defs : db.def[d].form # entry.form
               ELSE \A i \in mine : /\ ~entry.own
                                    /\ db.def[db'.inst[i].def] =
                                         [status |-> "Active", mode |-> db.def[db'.inst[i].def].mode,
                                          form |-> entry.form, rev |-> entry.rev]]_vars

\* While an entry is worked on, its workflow stays bound to the form and the
\* revision the entry was submitted in (validate of the definition, bind).
BoundWhileRunning ==
  \A i \in Running(db) :
    /\ db.def[db.inst[i].def].status # "none"
    /\ db.inst[i].entry # 0 =>
         /\ db.def[db.inst[i].def].form = db.entry[db.inst[i].entry].form
         /\ db.def[db.inst[i].def].rev = db.entry[db.inst[i].entry].rev

\* Entries, revisions and bindings agree: revisions are numbered in order, and
\* what runs is bound to what was submitted, though forms, revisions and
\* definitions are changed by calls that overlap.
RunsItsForm == TypeOK /\ RevisionsNumbered /\ BoundWhileRunning

\* No entry runs twice under one definition, and a request_id starts one
\* instance of a definition (start_workflow_instance, start_decision).
StartedOnce ==
  \A i, j \in Instances :
    i # j /\ db.inst[i].def = db.inst[j].def /\ db.inst[i].def # NoDef =>
      /\ db.inst[i].key = NoKey \/ db.inst[i].key # db.inst[j].key
      /\ \/ db.inst[i].entry = 0 \/ db.inst[i].entry # db.inst[j].entry
         \/ ~({i, j} \subseteq Running(db))

=============================================================================
