--------------------------- MODULE FormRoutingProofs ---------------------------
(***************************************************************************)
(* That what runs is bound to what was submitted, that an entry runs once  *)
(* under a definition and that an entry appears together with its instance,*)
(* for any number of forms, definitions, entries, instances and workers.   *)
(*                                                                         *)
(* The calls that change a binding or start an existing entry decide by    *)
(* their snapshot, so they must be served alone; work on forms, changes of *)
(* a definition's status, new definitions and submissions may overlap as   *)
(* they like, for none of these touches a binding.                         *)
(***************************************************************************)
EXTENDS FormRouting, TLAPS

USE RoutingAssumption

-----------------------------------------------------------------------------
(* The invariant.                                                          *)

\* Calls that may overlap.
MayMeet(op) ==
  \/ op = "save" \/ op = "transition" \/ op = "remove"
  \/ op = "submit" \/ op = "create" \/ op = "status"

\* The others.
Alone(op) ==
  op = "delete" \/ op = "bind" \/ op = "settings" \/ op = "start" \/ op = "restart" \/ op = "manual"

OnlyThoseMeet == \A calls \in Overlap : \A op \in calls : MayMeet(op)

\* Calls that keep the definitions, or the instances, of their snapshot.
KeepsDefs(op) == op = "submit" \/ op = "status" \/ Alone(op)

KeepsInsts(op) == op = "submit" \/ op = "start" \/ op = "restart" \/ op = "manual"

SameBinding(a, b) == a.form = b.form /\ a.rev = b.rev /\ a.mode = b.mode

\* b is what became of instance a while the call was served alone.
Later(a, b) ==
  a.def = b.def /\ a.entry = b.entry /\ a.key = b.key
  /\ (b.status = "Running" => a.status = "Running")

Present(c, e) == e # 0 => c.entry[e] # NoEntry

\* What the call t may rely on when it commits to c.
Relies(t, c) ==
  /\ KeepsDefs(t.op) => \A d \in Defs : SameBinding(t.seen[d], c.def[d])
  /\ KeepsInsts(t.op) => \A i \in Instances : Present(c, t.insts[i].entry)
  /\ KeepsInsts(t.op) /\ Alone(t.op) => \A i \in Instances : Later(t.insts[i], c.inst[i])
  /\ t.op = "save" \/ t.op = "transition" => t.version < MaxVersion
  /\ t.op = "transition" =>
       /\ t.version <= c.form[t.form].version
       /\ t.version = c.form[t.form].version => Len(c.form[t.form].revs) = t.count
  /\ t.op = "start" \/ t.op = "restart" => c.entry[t.entry] # NoEntry

Numbered(form) == \A n \in DOMAIN form.revs : form.revs[n].version = n

\* An instance that runs, and its definition.
BoundTo(c, i) ==
  c.inst[i].status = "Running" =>
    LET d == c.inst[i].def IN
    /\ d \in Defs /\ c.def[d].status # "none"
    /\ c.inst[i].entry # 0 =>
         c.def[d].form = c.entry[c.inst[i].entry].form /\ c.def[d].rev = c.entry[c.inst[i].entry].rev

\* Two instances of one definition.
Apart(a, b) ==
  a.def = b.def /\ a.def # NoDef =>
    /\ a.key = NoKey \/ a.key # b.key
    /\ a.entry = 0 \/ a.entry # b.entry \/ a.status # "Running" \/ b.status # "Running"

Sound(c) ==
  /\ \A f \in Forms : Numbered(c.form[f])
  /\ \A e \in Entries : c.entry[e] # NoEntry => c.entry[e].key # NoKey
  /\ \A i \in Instances : BoundTo(c, i) /\ Present(c, c.inst[i].entry)
  /\ \A i, j \in Instances : i # j => Apart(c.inst[i], c.inst[j])

RoutingInv ==
  /\ TypeOK
  /\ Sound(db)
  /\ \A w \in Workers : Relies(txn[w], db)
  /\ \A w \in Workers : Alone(txn[w].op) => \A v \in Workers : v # w => txn[v] = NoTxn

-----------------------------------------------------------------------------
(* Rows.                                                                   *)

\* One row written, the others as they were.
PutsForm(c, x, f, row) ==
  /\ x.form[f] = row /\ \A g \in Forms : g # f => x.form[g] = c.form[g]
  /\ x.def = c.def /\ x.entry = c.entry /\ x.inst = c.inst

PutsDef(c, x, d, row) ==
  /\ x.def[d] = row /\ \A e \in Defs : e # d => x.def[e] = c.def[e]
  /\ x.form = c.form /\ x.entry = c.entry /\ x.inst = c.inst

PutsEntry(c, x, e, row) ==
  /\ x.entry[e] = row /\ \A g \in Entries : g # e => x.entry[g] = c.entry[g]
  /\ x.form = c.form /\ x.def = c.def /\ x.inst = c.inst

PutsInst(c, x, i, row) ==
  /\ x.inst[i] = row /\ \A j \in Instances : j # i => x.inst[j] = c.inst[j]
  /\ x.form = c.form /\ x.def = c.def /\ x.entry = c.entry

LEMMA RowTypes ==
  ASSUME NEW c \in Rows
  PROVE  /\ \A f \in Forms : c.form[f] \in Form
         /\ \A d \in Defs : c.def[d] \in Definition
         /\ \A e \in Entries : c.entry[e] \in Entry
         /\ \A i \in Instances : c.inst[i] \in Instance
         /\ DOMAIN c.inst = Instances /\ DOMAIN c.entry = Entries
BY DEF Rows

LEMMA FormPut ==
  ASSUME NEW c \in Rows, NEW f \in Forms, NEW row \in Form
  PROVE  /\ [c EXCEPT !.form[f] = row] \in Rows
         /\ PutsForm(c, [c EXCEPT !.form[f] = row], f, row)
<1> DEFINE x == [c EXCEPT !.form[f] = row]
           forms == [c.form EXCEPT ![f] = row]
<1>1. forms \in [Forms -> Form]
  BY DEF Rows
<1>2. x = [c EXCEPT !.form = forms]
  BY DEF Rows
<1>3. forms[f] = row /\ \A g \in Forms : g # f => forms[g] = c.form[g]
  BY DEF Rows
<1> HIDE DEF forms
<1>4. x \in Rows
  BY <1>1, <1>2 DEF Rows
<1>5. x.form = forms /\ x.def = c.def /\ x.entry = c.entry /\ x.inst = c.inst
  BY <1>2 DEF Rows
<1> QED BY <1>3, <1>4, <1>5 DEF PutsForm

LEMMA DefPut ==
  ASSUME NEW c \in Rows, NEW d \in Defs, NEW row \in Definition
  PROVE  /\ [c EXCEPT !.def[d] = row] \in Rows
         /\ PutsDef(c, [c EXCEPT !.def[d] = row], d, row)
<1> DEFINE x == [c EXCEPT !.def[d] = row]
           defs == [c.def EXCEPT ![d] = row]
<1>1. defs \in [Defs -> Definition]
  BY DEF Rows
<1>2. x = [c EXCEPT !.def = defs]
  BY DEF Rows
<1>3. defs[d] = row /\ \A e \in Defs : e # d => defs[e] = c.def[e]
  BY DEF Rows
<1> HIDE DEF defs
<1>4. x \in Rows
  BY <1>1, <1>2 DEF Rows
<1>5. x.def = defs /\ x.form = c.form /\ x.entry = c.entry /\ x.inst = c.inst
  BY <1>2 DEF Rows
<1> QED BY <1>3, <1>4, <1>5 DEF PutsDef

LEMMA EntryPut ==
  ASSUME NEW c \in Rows, NEW e \in Entries, NEW row \in Entry
  PROVE  /\ [c EXCEPT !.entry[e] = row] \in Rows
         /\ PutsEntry(c, [c EXCEPT !.entry[e] = row], e, row)
<1> DEFINE x == [c EXCEPT !.entry[e] = row]
           entries == [c.entry EXCEPT ![e] = row]
<1>1. entries \in [Entries -> Entry]
  BY DEF Rows
<1>2. x = [c EXCEPT !.entry = entries]
  BY DEF Rows
<1>3. entries[e] = row /\ \A g \in Entries : g # e => entries[g] = c.entry[g]
  BY DEF Rows
<1> HIDE DEF entries
<1>4. x \in Rows
  BY <1>1, <1>2 DEF Rows
<1>5. x.entry = entries /\ x.form = c.form /\ x.def = c.def /\ x.inst = c.inst
  BY <1>2 DEF Rows
<1> QED BY <1>3, <1>4, <1>5 DEF PutsEntry

LEMMA InstPut ==
  ASSUME NEW c \in Rows, NEW i \in Instances, NEW row \in Instance
  PROVE  /\ [c EXCEPT !.inst[i] = row] \in Rows
         /\ PutsInst(c, [c EXCEPT !.inst[i] = row], i, row)
<1> DEFINE x == [c EXCEPT !.inst[i] = row]
           insts == [c.inst EXCEPT ![i] = row]
<1>1. insts \in [Instances -> Instance]
  BY DEF Rows
<1>2. x = [c EXCEPT !.inst = insts]
  BY DEF Rows
<1>3. insts[i] = row /\ \A j \in Instances : j # i => insts[j] = c.inst[j]
  BY DEF Rows
<1> HIDE DEF insts
<1>4. x \in Rows
  BY <1>1, <1>2 DEF Rows
<1>5. x.inst = insts /\ x.form = c.form /\ x.def = c.def /\ x.entry = c.entry
  BY <1>2 DEF Rows
<1> QED BY <1>3, <1>4, <1>5 DEF PutsInst

-----------------------------------------------------------------------------
(* Forms.                                                                  *)

\* What work on a form does: its version goes up, its revisions stay in order.
FormStep(c, x, f) ==
  /\ x \in Rows
  /\ x.form[f].version = c.form[f].version + 1
  /\ Numbered(c.form[f]) => Numbered(x.form[f])
  /\ \A g \in Forms : g # f => x.form[g] = c.form[g]
  /\ x.def = c.def /\ x.entry = c.entry /\ x.inst = c.inst

LEMMA FormStepPut ==
  ASSUME NEW c \in Rows, NEW f \in Forms, NEW row \in Form, NEW x,
         x = [c EXCEPT !.form[f] = row],
         row.version = c.form[f].version + 1,
         Numbered(c.form[f]) => Numbered(row)
  PROVE  FormStep(c, x, f)
BY FormPut DEF FormStep, PutsForm

LEMMA FormFields ==
  ASSUME NEW form \in Form
  PROVE  /\ form.draft \in Contents /\ form.version \in Nat /\ form.disabled \in BOOLEAN
         /\ form.active \in 0..MaxRev /\ Len(form.revs) \in 0..MaxRev
         /\ form.revs \in Seq(Revision) /\ DOMAIN form.revs = 1..Len(form.revs)
<1>1. PICK n \in 0..MaxRev : form.revs \in [1..n -> Revision]
  BY DEF Form
<1>2. n \in Nat
  BY <1>1
<1>3. form.revs \in Seq(Revision) /\ Len(form.revs) = n
  BY <1>1, <1>2
<1>4. form.disabled \in BOOLEAN
  BY Zenon DEF Form
<1>5. form.draft \in Contents /\ form.version \in Nat /\ form.active \in 0..MaxRev
  BY DEF Form
<1> QED BY <1>1, <1>3, <1>4, <1>5

LEMMA SaveStep ==
  ASSUME NEW c \in Rows, NEW f \in Forms, NEW content \in Contents, NEW version,
         version < MaxVersion, NEW x \in SaveForm(c, f, content, version)
  PROVE  FormStep(c, x, f)
<1> DEFINE row == [c.form[f] EXCEPT !.draft = content, !.version = version + 1]
<1>1. c.form[f] \in Form /\ version = c.form[f].version /\ x = [c EXCEPT !.form[f] = row]
  BY RowTypes DEF SaveForm
<1>2. version + 1 \in 1..MaxVersion
  BY <1>1 DEF Form
<1>3. row \in Form /\ row.version = c.form[f].version + 1 /\ row.revs = c.form[f].revs
  BY <1>1, <1>2 DEF Form
<1> HIDE DEF row
<1> QED BY <1>1, <1>3, FormStepPut DEF Numbered

\* A transition but for its version: a publication appends the next revision.
LEMMA TransitionRow ==
  ASSUME NEW form \in Form, NEW action \in Actions, NEW count,
         Len(form.revs) = count, count < MaxRev \/ action # "publish",
         NEW row \in TransitionOf(form, action, count)
  PROVE  row \in Form /\ row.version = form.version /\ (Numbered(form) => Numbered(row))
<1> USE FormFields
<1>0. action = "publish" \/ action = "enable" \/ action = "disable"
  BY DEF Actions
<1>1. CASE row \in Enable(form, FALSE) \cup Enable(form, TRUE)
  <2>1. PICK b \in BOOLEAN : row = [form EXCEPT !.disabled = b]
    BY <1>1 DEF Enable
  <2>2. row \in Form /\ row.version = form.version /\ row.revs = form.revs
    BY <2>1 DEF Form
  <2> QED BY <2>2 DEF Numbered
<1>2. CASE row \in Publish(form, count) /\ action = "publish"
  <2>1. CASE row = [form EXCEPT !.disabled = FALSE]
    <3>1. row \in Form /\ row.version = form.version /\ row.revs = form.revs
      BY <2>1 DEF Form
    <3> QED BY <3>1 DEF Numbered
  <2> DEFINE new == [version |-> count + 1, content |-> form.draft]
             revs == Append(form.revs, new)
  <2>2. CASE row = [form EXCEPT !.disabled = FALSE, !.active = Len(form.revs) + 1, !.revs = revs]
    <3>1. count + 1 \in 1..MaxRev /\ count \in Nat
      BY <1>2
    <3>2. new \in Revision /\ new.version = count + 1
      BY <3>1 DEF Revision
    <3> HIDE DEF new
    <3>3. /\ revs \in Seq(Revision) /\ Len(revs) = count + 1 /\ revs[count + 1] = new
          /\ \A n \in 1..count : revs[n] = form.revs[n]
      BY <3>2
    <3> HIDE DEF revs
    <3>4. revs \in [1..(count + 1) -> Revision] /\ DOMAIN revs = 1..(count + 1)
      BY <3>1, <3>3
    <3>5. revs \in UNION {[1..n -> Revision] : n \in 0..MaxRev}
      BY <3>1, <3>4
    <3>6. Len(form.revs) + 1 \in 0..MaxRev
      BY <3>1
    <3>7. row \in Form /\ row.version = form.version /\ row.revs = revs
      BY <2>2, <3>5, <3>6 DEF Form
    <3>8. ASSUME Numbered(form), NEW n \in 1..(count + 1) PROVE revs[n].version = n
      <4>1. CASE n \in 1..count
        BY <3>3, <3>8, <4>1 DEF Numbered
      <4>2. CASE n = count + 1
        BY <3>2, <3>3, <4>2
      <4> QED BY <3>1, <4>1, <4>2
    <3> QED BY <3>4, <3>7, <3>8 DEF Numbered
  <2> QED BY <1>2, <2>1, <2>2 DEF Publish
<1> QED BY <1>0, <1>1, <1>2 DEF TransitionOf

LEMMA TransitionStep ==
  ASSUME NEW c \in Rows, NEW f \in Forms, NEW action \in Actions, NEW version, NEW count,
         version < MaxVersion,
         version = c.form[f].version => Len(c.form[f].revs) = count,
         Len(c.form[f].revs) < MaxRev \/ action # "publish",
         NEW x \in Transition(c, f, action, version, count)
  PROVE  FormStep(c, x, f)
<1>1. c.form[f] \in Form /\ c.form[f].version = version
  BY RowTypes DEF Transition
<1>2. PICK form \in TransitionOf(c.form[f], action, count) :
        x = [c EXCEPT !.form[f] = [form EXCEPT !.version = version + 1]]
  BY DEF Transition
<1>3. /\ form \in Form /\ form.version = version
      /\ Numbered(c.form[f]) => Numbered(form)
  BY <1>1, <1>2, TransitionRow
<1> DEFINE row == [form EXCEPT !.version = version + 1]
<1>4. version + 1 \in 1..MaxVersion
  BY <1>1 DEF Form
<1>5. row \in Form /\ row.version = version + 1 /\ row.revs = form.revs
  BY <1>3, <1>4 DEF Form
<1> HIDE DEF row
<1> QED BY <1>1, <1>2, <1>3, <1>5, FormStepPut DEF Numbered, row

LEMMA RemoveStep ==
  ASSUME NEW c \in Rows, NEW f \in Forms, c.form[f].version < MaxVersion,
         NEW x \in RemoveBuiltin(c, f)
  PROVE  FormStep(c, x, f)
<1> DEFINE row == [c.form[f] EXCEPT !.disabled = TRUE, !.version = c.form[f].version + 1]
<1>1. c.form[f] \in Form /\ x = [c EXCEPT !.form[f] = row]
  BY RowTypes DEF RemoveBuiltin
<1>2. c.form[f].version + 1 \in 1..MaxVersion
  BY <1>1 DEF Form
<1>3. row \in Form /\ row.version = c.form[f].version + 1 /\ row.revs = c.form[f].revs
  BY <1>1, <1>2 DEF Form
<1> HIDE DEF row
<1> QED BY <1>1, <1>3, FormStepPut DEF Numbered

-----------------------------------------------------------------------------
(* Definitions.                                                            *)

\* What a call about definition d does: the row it leaves suits what runs.
Suits(c, d, row) ==
  (\E i \in Instances : c.inst[i].def = d /\ c.inst[i].status = "Running") =>
    row.status # "none" /\ row.form = c.def[d].form /\ row.rev = c.def[d].rev

DefStep(c, x, d) ==
  x \in Rows /\ \E row \in Definition : PutsDef(c, x, d, row) /\ Suits(c, d, row)

LEMMA DefStepPut ==
  ASSUME NEW c \in Rows, NEW d \in Defs, NEW row \in Definition, NEW x,
         x = [c EXCEPT !.def[d] = row], Suits(c, d, row)
  PROVE  DefStep(c, x, d)
BY DefPut DEF DefStep

LEMMA RebindStep ==
  ASSUME NEW c \in Rows, Sound(c), NEW seen, NEW d \in Defs, NEW f \in Forms \cup {NoForm},
         NEW rev \in 0..MaxRev, NEW x \in Rebind(c, seen, d, f, rev)
  PROVE  DefStep(c, x, d)
<1> DEFINE row == [c.def[d] EXCEPT !.form = f, !.rev = rev]
<1>1. c.def[d] \in Definition /\ x = [c EXCEPT !.def[d] = row]
  BY RowTypes DEF Rebind
<1>2. (\E i \in Running(c) : c.inst[i].def = d) => f = c.def[d].form /\ rev = c.def[d].rev
  BY DEF Rebind
<1>3. row \in Definition /\ row.status = c.def[d].status /\ row.form = f /\ row.rev = rev
  BY <1>1 DEF Definition
<1> HIDE DEF row
<1>4. Suits(c, d, row)
  BY <1>2, <1>3 DEF Suits, Running, Sound, BoundTo
<1> QED BY <1>1, <1>3, <1>4, DefStepPut

LEMMA SaveStartStep ==
  ASSUME NEW c \in Rows, Sound(c), NEW seen, NEW running, NEW d \in Defs,
         NEW mode \in {"event", "restart", "manual"}, NEW f \in Forms \cup {NoForm},
         NEW rev \in 0..MaxRev,
         NEW x \in SaveStart(c, seen, running, d, mode, f, rev)
  PROVE  DefStep(c, x, d)
<1>1. PICK r \in Rebind(c, seen, d, f, rev) :
        x = [r EXCEPT !.def[d] = [r.def[d] EXCEPT !.mode = mode]]
  BY DEF SaveStart
<1>2. DefStep(c, r, d)
  BY RebindStep
<1>3. PICK old \in Definition : r \in Rows /\ PutsDef(c, r, d, old) /\ Suits(c, d, old)
  BY <1>2 DEF DefStep
<1> DEFINE row == [old EXCEPT !.mode = mode]
<1>4. r.def[d] = old
  BY <1>3 DEF PutsDef
<1>5. row \in Definition /\ row.status = old.status /\ row.form = old.form /\ row.rev = old.rev
  BY DEF Definition
<1>6. x = [r EXCEPT !.def[d] = row]
  BY <1>1, <1>4
<1> HIDE DEF row
<1>7. x \in Rows /\ PutsDef(r, x, d, row)
  BY <1>3, <1>5, <1>6, DefPut
<1>8. PutsDef(c, x, d, row)
  BY <1>3, <1>7 DEF PutsDef
<1>9. Suits(c, d, row)
  BY <1>3, <1>5 DEF Suits
<1> QED BY <1>5, <1>7, <1>8, <1>9 DEF DefStep

\* A change of status binds nothing.
LEMMA StatusStep ==
  ASSUME NEW c \in Rows, NEW seen, NEW d \in Defs, NEW status \in {"Inactive", "Active", "Archived"},
         NEW x \in SetStatus(c, seen, d, status)
  PROVE  DefStep(c, x, d) /\ SameBinding(c.def[d], x.def[d])
<1> DEFINE row == [c.def[d] EXCEPT !.status = status]
<1>1. c.def[d] \in Definition /\ x = [c EXCEPT !.def[d] = row]
  BY RowTypes DEF SetStatus
<1>2. /\ row \in Definition /\ row.status # "none" /\ row.form = c.def[d].form
      /\ row.rev = c.def[d].rev /\ row.mode = c.def[d].mode
  BY <1>1 DEF Definition
<1> HIDE DEF row
<1>3. PutsDef(c, x, d, row)
  BY <1>1, <1>2, DefPut
<1>4. Suits(c, d, row)
  BY <1>2 DEF Suits
<1> QED BY <1>1, <1>2, <1>3, <1>4, DefStepPut DEF PutsDef, SameBinding

\* A new definition is bound to nothing, as what was not there.
LEMMA CreateStep ==
  ASSUME NEW c \in Rows, Sound(c), NEW d \in Defs, NEW x \in CreateDefinition(c, d)
  PROVE  DefStep(c, x, d) /\ SameBinding(c.def[d], x.def[d])
<1> DEFINE row == [NoDefinition EXCEPT !.status = "Inactive"]
<1>1. c.def[d] = NoDefinition /\ x = [c EXCEPT !.def[d] = row]
  BY DEF CreateDefinition
<1>2. /\ row \in Definition /\ row.form = NoDefinition.form
      /\ row.rev = NoDefinition.rev /\ row.mode = NoDefinition.mode
  BY DEF Definition, NoDefinition
<1> HIDE DEF row
<1>3. c.def[d].status = "none"
  BY <1>1 DEF NoDefinition
<1>4. PutsDef(c, x, d, row)
  BY <1>1, <1>2, DefPut
<1>5. Suits(c, d, row)
  BY <1>3 DEF Suits, Sound, BoundTo
<1> QED BY <1>1, <1>2, <1>4, <1>5, DefStepPut DEF PutsDef, SameBinding

LEMMA DeleteStep ==
  ASSUME NEW c \in Rows, NEW seen, NEW d \in Defs, NEW x \in DeleteDefinition(c, seen, d)
  PROVE  DefStep(c, x, d)
<1>1. (\A i \in Instances : c.inst[i].def # d) /\ x = [c EXCEPT !.def[d] = NoDefinition]
  BY DEF DeleteDefinition
<1>2. NoDefinition \in Definition
  BY DEF NoDefinition, Definition
<1>3. Suits(c, d, NoDefinition)
  BY <1>1 DEF Suits
<1> QED BY <1>1, <1>2, <1>3, DefStepPut

-----------------------------------------------------------------------------
(* What the calls leave sound.                                             *)

LEMMA FormStepSound ==
  ASSUME NEW c \in Rows, Sound(c), NEW f \in Forms, NEW x, FormStep(c, x, f)
  PROVE  Sound(x)
<1>1. \A g \in Forms : Numbered(x.form[g])
  BY DEF FormStep, Sound
<1> QED BY <1>1 DEF FormStep, Sound, BoundTo, Present

LEMMA DefStepSound ==
  ASSUME NEW c \in Rows, Sound(c), NEW d \in Defs, NEW x, DefStep(c, x, d)
  PROVE  Sound(x)
<1>1. PICK row : PutsDef(c, x, d, row) /\ Suits(c, d, row)
  BY DEF DefStep
<1>2. /\ x.def[d] = row /\ \A e \in Defs : e # d => x.def[e] = c.def[e]
      /\ x.form = c.form /\ x.entry = c.entry /\ x.inst = c.inst
  BY <1>1 DEF PutsDef
<1>3. ASSUME NEW i \in Instances PROVE BoundTo(x, i)
  <2>1. BoundTo(c, i)
    BY DEF Sound
  <2>2. CASE c.inst[i].def = d
    BY <1>1, <1>2, <2>1, <2>2 DEF BoundTo, Suits
  <2>3. CASE c.inst[i].def # d
    BY <1>2, <2>1, <2>3 DEF BoundTo
  <2> QED BY <2>2, <2>3
<1> QED BY <1>2, <1>3 DEF Sound, Present

\* A new instance of definition d for entry e, 0 if none.
Started(c, x, d, e, key) ==
  /\ x \in Rows
  /\ \E i \in Instances, row \in Instance :
       /\ c.inst[i] = NoInstance /\ PutsInst(c, x, i, row)
       /\ row.status = "Running" /\ row.def = d /\ row.entry = e /\ row.key = key

LEMMA NewInstanceStep ==
  ASSUME NEW c \in Rows, NEW d \in Defs, NEW e \in 0..MaxEntries, NEW key \in Keys \cup {NoKey},
         NEW x \in NewInstance(c, d, e, key)
  PROVE  Started(c, x, d, e, key)
<1> DEFINE row == [status |-> "Running", def |-> d, entry |-> e, key |-> key]
<1>1. PICK i \in Instances : c.inst[i] = NoInstance /\ x = [c EXCEPT !.inst[i] = row]
  BY RowTypes DEF NewInstance, Free
<1>2. /\ row \in Instance /\ row.status = "Running" /\ row.def = d /\ row.entry = e
      /\ row.key = key
  BY DEF Instance
<1> HIDE DEF row
<1>3. x \in Rows /\ PutsInst(c, x, i, row)
  BY <1>1, <1>2, InstPut
<1> QED BY <1>1, <1>2, <1>3 DEF Started

\* That nothing of definition d stands in the way of an instance for entry e.
Clear(c, d, e, key) ==
  \A j \in Instances : c.inst[j].def = d =>
    /\ key = NoKey \/ c.inst[j].key # key
    /\ e = 0 \/ c.inst[j].entry # e \/ c.inst[j].status # "Running"

LEMMA StartedSound ==
  ASSUME NEW c \in Rows, Sound(c), NEW d \in Defs, NEW e, NEW key, NEW x,
         Started(c, x, d, e, key), c.def[d].status # "none", Present(c, e),
         e # 0 => c.def[d].form = c.entry[e].form /\ c.def[d].rev = c.entry[e].rev,
         Clear(c, d, e, key)
  PROVE  Sound(x)
<1>1. PICK i \in Instances, row \in Instance :
        /\ PutsInst(c, x, i, row)
        /\ row.status = "Running" /\ row.def = d /\ row.entry = e /\ row.key = key
  BY DEF Started
<1>2. /\ x.inst[i] = row /\ \A j \in Instances : j # i => x.inst[j] = c.inst[j]
      /\ x.form = c.form /\ x.def = c.def /\ x.entry = c.entry
  BY <1>1 DEF PutsInst
<1>3. ASSUME NEW j \in Instances PROVE BoundTo(x, j) /\ Present(x, x.inst[j].entry)
  <2>1. CASE j = i
    BY <1>1, <1>2, <2>1 DEF BoundTo, Present
  <2>2. CASE j # i
    BY <1>2, <2>2 DEF Sound, BoundTo, Present
  <2> QED BY <2>1, <2>2
<1>4. ASSUME NEW j \in Instances, NEW l \in Instances, j # l PROVE Apart(x.inst[j], x.inst[l])
  <2>1. CASE j # i /\ l # i
    BY <1>2, <1>4, <2>1 DEF Sound
  <2>2. CASE j = i
    BY <1>1, <1>2, <1>4, <2>2 DEF Clear, Apart
  <2>3. CASE l = i
    BY <1>1, <1>2, <1>4, <2>3 DEF Clear, Apart
  <2> QED BY <2>1, <2>2, <2>3
<1> QED BY <1>2, <1>3, <1>4 DEF Sound

\* An entry that is there, started by a call served alone.
LEMMA StartEntryStep ==
  ASSUME NEW c \in Rows, Sound(c), NEW seen, NEW insts, NEW d \in Defs, NEW e \in Entries,
         NEW restart \in BOOLEAN, SameBinding(seen[d], c.def[d]),
         \A i \in Instances : Later(insts[i], c.inst[i]), c.entry[e] # NoEntry,
         NEW x \in StartEntry(c, seen, d, e, restart, insts)
  PROVE  Sound(x) /\ (x = c \/ Started(c, x, d, e, NoKey))
<1> DEFINE decision == StartDecision(seen[d].mode, Statuses(seen, insts, d, e), restart)
<1>1. /\ seen[d].form = c.entry[e].form /\ seen[d].rev = c.entry[e].rev
      /\ c.def[d].status = "Active"
      /\ decision # "refuse"
      /\ decision = "reuse" => x = c
      /\ decision # "reuse" => x \in NewInstance(c, d, e, NoKey)
  BY DEF StartEntry, Start
<1>2. CASE decision = "reuse"
  BY <1>1, <1>2
<1>3. CASE decision # "reuse"
  <2>1. Started(c, x, d, e, NoKey)
    BY <1>1, <1>3, NewInstanceStep DEF Entries
  <2>2. Clear(c, d, e, NoKey)
    <3> SUFFICES ASSUME NEW j \in Instances, c.inst[j].def = d, c.inst[j].entry = e,
                        c.inst[j].status = "Running"
                 PROVE  FALSE
      BY DEF Clear
    <3>1. insts[j].def = d /\ insts[j].entry = e /\ insts[j].status = "Running"
      BY DEF Later
    <3>2. "Running" \in Statuses(seen, insts, d, e)
      BY <3>1 DEF Statuses
    <3>3. decision = "reuse" \/ decision = "refuse"
      BY <3>2 DEF StartDecision
    <3> QED BY <1>1, <1>3, <3>3
  <2>3. Sound(x)
    BY <1>1, <2>1, <2>2, StartedSound DEF SameBinding, Present
  <2> QED BY <2>1, <2>3
<1> QED BY <1>2, <1>3

\* A manual start, also served alone.
LEMMA StartManualStep ==
  ASSUME NEW c \in Rows, Sound(c), NEW seen, NEW insts, NEW d \in Defs, NEW key \in Keys,
         \A i \in Instances : Later(insts[i], c.inst[i]),
         NEW x \in StartManual(c, seen, d, key, insts)
  PROVE  Started(c, x, d, 0, key) /\ Sound(x)
<1>1. /\ c.def[d].status = "Active" /\ x \in NewInstance(c, d, 0, key)
      /\ \A i \in Instances : ~(insts[i].def = d /\ insts[i].key = key)
  BY DEF StartManual
<1>2. Started(c, x, d, 0, key)
  BY <1>1, NewInstanceStep
<1>3. Clear(c, d, 0, key)
  BY <1>1 DEF Clear, Later
<1> QED BY <1>1, <1>2, <1>3, StartedSound DEF Present

-----------------------------------------------------------------------------
(* Submissions.                                                            *)

\* An entry made of the active revision of an enabled form, and its instance
\* under the definition that is bound to them, or no definition is.
EntryMade(c, y, x, e, row) ==
  /\ c.entry[e] = NoEntry /\ row.key # NoKey /\ PutsEntry(c, y, e, row)
  /\ row.form \in Forms /\ Offers(c.form[row.form], row.rev)
  /\ \/ x = y /\ \A d \in Defs : c.def[d].form # row.form
     \/ /\ ~row.own
        /\ \E d \in Defs : /\ Started(y, x, d, e, NoKey) /\ c.def[d].status = "Active"
                           /\ c.def[d].form = row.form /\ c.def[d].rev = row.rev

Submitted(c, x) ==
  \E e \in Entries, y \in Rows, row \in Entry : EntryMade(c, y, x, e, row)

\* The form has no workflow, or one that is bound to it.
LEMMA RouteOf ==
  ASSUME NEW defs, NEW f, NEW rev, NEW d \in Route(defs, f, rev)
  PROVE  \/ d = NoDef /\ \A g \in Defs : defs[g].form # f
         \/ d \in Defs /\ defs[d].form = f /\ defs[d].rev = rev
BY DEF Route, Bound

LEMMA SubmitStep ==
  ASSUME NEW c \in Rows, Sound(c), NEW seen, NEW insts, NEW form, NEW keys, NEW f \in Forms,
         NEW rev \in 0..MaxRev, NEW key \in Keys,
         \A d \in Defs : SameBinding(seen[d], c.def[d]),
         \A i \in Instances : Present(c, insts[i].entry),
         NEW x \in Submit(c, seen, form, keys, f, rev, key, insts)
  PROVE  Submitted(c, x)
<1> DEFINE own == c.form[f].revs[rev].content \in OwnRoute
           row == [form |-> f, rev |-> rev, key |-> key, own |-> own]
           with(e) == [c EXCEPT !.entry[e] = row]
<1>1. PICK e \in Free(c.entry, NoEntry), d \in Route(seen, f, rev) :
        /\ Offers(c.form[f], rev)
        /\ \/ d = NoDef /\ x = with(e)
           \/ d # NoDef /\ ~own /\ x \in Start(with(e), seen, d, e, FALSE, insts)
  <2>1. Offers(c.form[f], rev) /\ x \in NewEntry(c, seen, f, rev, key, insts)
    BY DEF Submit
  <2>2. PICK e \in Free(c.entry, NoEntry) :
          x \in UNION {IF d = NoDef THEN {with(e)}
                       ELSE IF own THEN {}
                       ELSE Start(with(e), seen, d, e, FALSE, insts) : d \in Route(seen, f, rev)}
    BY <2>1 DEF NewEntry
  <2> HIDE DEF own, row, with
  <2>3. PICK d \in Route(seen, f, rev) :
          x \in IF d = NoDef THEN {with(e)}
                ELSE IF own THEN {} ELSE Start(with(e), seen, d, e, FALSE, insts)
    BY <2>2
  <2>4. \/ d = NoDef /\ x = with(e)
        \/ d # NoDef /\ ~own /\ x \in Start(with(e), seen, d, e, FALSE, insts)
    BY <2>3
  <2> QED BY <2>1, <2>4
<1>2. e \in Entries /\ c.entry[e] = NoEntry
  BY RowTypes DEF Free
<1>3. own \in BOOLEAN
  OBVIOUS
<1> HIDE DEF own
<1>4. row \in Entry /\ row.form = f /\ row.rev = rev /\ row.key = key /\ row.own = own
  BY <1>3 DEF Entry
<1> DEFINE y == with(e)
<1>5. row.key # NoKey
  BY <1>4
<1> HIDE DEF row
<1>6. y \in Rows /\ PutsEntry(c, y, e, row)
  BY <1>2, <1>4, EntryPut
<1>7. d = NoDef => x = y /\ \A g \in Defs : c.def[g].form # f
  BY <1>1, RouteOf DEF SameBinding
<1>8. CASE d = NoDef
  BY <1>1, <1>2, <1>4, <1>5, <1>6, <1>7, <1>8 DEF Submitted, EntryMade
<1>9. CASE d # NoDef
  <2>0. ~own /\ x \in Start(y, seen, d, e, FALSE, insts)
    BY <1>1, <1>9
  <2>1. d \in Defs /\ c.def[d].form = f /\ c.def[d].rev = rev
    BY <1>9, RouteOf DEF SameBinding
  <2> HIDE DEF y
  <2>2. y.def = c.def
    BY <1>6 DEF PutsEntry
  <2>3. \A i \in Instances : insts[i].entry # e
    BY <1>2 DEF Present, Entries
  <2>4. Statuses(seen, insts, d, e) = {}
    BY <2>3 DEF Statuses
  <2>5. StartDecision(seen[d].mode, Statuses(seen, insts, d, e), FALSE) = "new"
    BY <2>4 DEF StartDecision
  <2>6. y.def[d].status = "Active" /\ x \in NewInstance(y, d, e, NoKey)
    BY <2>0, <2>5 DEF Start
  <2>7. Started(y, x, d, e, NoKey)
    BY <1>2, <1>6, <2>1, <2>6, NewInstanceStep DEF Entries
  <2>8. EntryMade(c, y, x, e, row)
    BY <1>1, <1>2, <1>4, <1>5, <1>6, <2>0, <2>1, <2>2, <2>6, <2>7 DEF EntryMade
  <2> QED BY <1>2, <1>4, <1>6, <2>8 DEF Submitted
<1> QED BY <1>8, <1>9

\* The entry alone.
LEMMA EntrySound ==
  ASSUME NEW c \in Rows, Sound(c), NEW e \in Entries, c.entry[e] = NoEntry, NEW row,
         row.key # NoKey, NEW y, PutsEntry(c, y, e, row)
  PROVE  Sound(y) /\ \A i \in Instances : y.inst[i].entry # e
<1>1. /\ y.entry[e] = row /\ \A g \in Entries : g # e => y.entry[g] = c.entry[g]
      /\ y.form = c.form /\ y.def = c.def /\ y.inst = c.inst
  BY DEF PutsEntry
<1>2. \A i \in Instances : c.inst[i].entry # e
  BY DEF Sound, Present, Entries
<1>3. ASSUME NEW i \in Instances PROVE BoundTo(y, i) /\ Present(y, y.inst[i].entry)
  <2>1. BoundTo(c, i) /\ Present(c, c.inst[i].entry) /\ c.inst[i].entry \in 0..MaxEntries
    BY RowTypes DEF Sound, Instance
  <2>2. c.inst[i].entry # 0 => y.entry[c.inst[i].entry] = c.entry[c.inst[i].entry]
    BY <1>1, <1>2, <2>1 DEF Entries
  <2> QED BY <1>1, <2>1, <2>2 DEF BoundTo, Present
<1> QED BY <1>1, <1>2, <1>3 DEF Sound

LEMMA SubmittedSound ==
  ASSUME NEW c \in Rows, Sound(c), NEW x, Submitted(c, x)
  PROVE  /\ x \in Rows /\ Sound(x) /\ x.form = c.form /\ x.def = c.def
         /\ \A e \in Entries : c.entry[e] # NoEntry => x.entry[e] # NoEntry
<1>1. PICK e \in Entries, y \in Rows, row \in Entry : EntryMade(c, y, x, e, row)
  BY DEF Submitted
<1>2. /\ c.entry[e] = NoEntry /\ row.key # NoKey /\ row # NoEntry
      /\ PutsEntry(c, y, e, row)
  BY <1>1 DEF EntryMade, NoEntry
<1>3. /\ y.entry[e] = row /\ \A g \in Entries : g # e => y.entry[g] = c.entry[g]
      /\ y.form = c.form /\ y.def = c.def /\ y.inst = c.inst
  BY <1>2 DEF PutsEntry
<1>4. Sound(y) /\ \A i \in Instances : y.inst[i].entry # e
  BY <1>2, EntrySound
<1>5. CASE x = y
  BY <1>2, <1>3, <1>4, <1>5
<1>6. ASSUME NEW d \in Defs, Started(y, x, d, e, NoKey), c.def[d].status = "Active",
             c.def[d].form = row.form, c.def[d].rev = row.rev
      PROVE  x \in Rows /\ Sound(x) /\ x.form = y.form /\ x.def = y.def /\ x.entry = y.entry
  <2>1. x \in Rows /\ x.form = y.form /\ x.def = y.def /\ x.entry = y.entry
    BY <1>6 DEF Started, PutsInst
  <2>2. Clear(y, d, e, NoKey)
    BY <1>4 DEF Clear
  <2>3. Present(y, e) /\ y.def[d].status # "none"
    BY <1>2, <1>3, <1>6 DEF Present
  <2>4. Sound(x)
    BY <1>3, <1>4, <1>6, <2>2, <2>3, StartedSound
  <2> QED BY <2>1, <2>4
<1> QED BY <1>1, <1>2, <1>3, <1>5, <1>6 DEF EntryMade

-----------------------------------------------------------------------------
(* Calls.                                                                  *)

\* The transaction a worker is in, by its operation.
LEMMA TxnOf ==
  ASSUME NEW t \in Txn
  PROVE  /\ t.op = "save" => t.form \in Forms /\ t.content \in Contents
         /\ t.op = "transition" => t.form \in Forms /\ t.action \in Actions /\ t.version \in Nat
         /\ t.op = "remove" => t.form \in Forms
         /\ t.op = "submit" => t.form \in Forms /\ t.rev \in 1..MaxRev /\ t.key \in Keys
         /\ t.op = "create" \/ t.op = "status" \/ Alone(t.op) => t.def \in Defs
         /\ t.op = "status" => t.status \in {"Inactive", "Active", "Archived"}
         /\ t.op = "settings" => t.mode \in {"event", "restart", "manual"}
         /\ t.op = "bind" \/ t.op = "settings" => t.source \in (Forms \cup {NoForm}) \X (0..MaxRev)
         /\ t.op = "start" \/ t.op = "restart" => t.entry \in Entries
         /\ t.op = "manual" => t.key \in Keys
         /\ KeepsInsts(t.op) => t.insts \in [Instances -> Instance]
<1>1. CASE t \in [op : {"save"}, form : Forms, content : Contents, version : Nat]
  BY <1>1 DEF Alone, KeepsInsts
<1>2. CASE t \in [op : {"transition"}, form : Forms, action : Actions, version : Nat, count : Nat]
  BY <1>2 DEF Alone, KeepsInsts
<1>3. CASE t \in [op : {"remove"}, form : Forms]
  BY <1>3 DEF Alone, KeepsInsts
<1>4. CASE t \in [op : {"submit"}, form : Forms, rev : 1..MaxRev, key : Keys, row : Form,
                  keys : SUBSET Keys, seen : [Defs -> Definition], insts : [Instances -> Instance]]
  BY <1>4 DEF Alone, KeepsInsts
<1>5. CASE t \in [op : {"create"}, def : Defs]
  BY <1>5 DEF Alone, KeepsInsts
<1>6. CASE t \in [op : {"status"}, def : Defs, status : {"Inactive", "Active", "Archived"},
                  seen : [Defs -> Definition]]
  BY <1>6 DEF Alone, KeepsInsts
<1>7. CASE t \in [op : {"delete"}, def : Defs, seen : [Defs -> Definition]]
  BY <1>7 DEF Alone, KeepsInsts
<1>8. CASE t \in [op : {"bind"}, def : Defs, source : (Forms \cup {NoForm}) \X (0..MaxRev),
                  seen : [Defs -> Definition]]
  BY <1>8 DEF Alone, KeepsInsts
<1>9. CASE t \in [op : {"settings"}, def : Defs, mode : {"event", "restart", "manual"},
                  running : SUBSET Defs, source : (Forms \cup {NoForm}) \X (0..MaxRev),
                  seen : [Defs -> Definition]]
  BY <1>9 DEF Alone, KeepsInsts
<1>10. CASE t \in [op : {"start", "restart"}, def : Defs, entry : Entries,
                   seen : [Defs -> Definition], insts : [Instances -> Instance]]
  BY <1>10 DEF Alone, KeepsInsts
<1>11. CASE t \in [op : {"manual"}, def : Defs, key : Keys, seen : [Defs -> Definition],
                   insts : [Instances -> Instance]]
  BY <1>11 DEF Alone, KeepsInsts
<1> QED
  BY <1>1, <1>2, <1>3, <1>4, <1>5, <1>6, <1>7, <1>8, <1>9, <1>10, <1>11 DEF Txn

\* What a call may find when it begins.
LEMMA SourceType == ASSUME db \in Rows PROVE Sources(db) \subseteq (Forms \cup {NoForm}) \X (0..MaxRev)
<1>1. \A f \in Forms : db.form[f].active \in 0..MaxRev
  BY RowTypes, FormFields
<1> QED BY <1>1 DEF Sources

\* The calls as their parts.
LEMMA CallOf ==
  ASSUME NEW call \in Calls
  PROVE  \/ \E f \in Forms :
              /\ db.form[f].version < MaxVersion
              /\ \/ call \in [op : {"save"}, form : {f}, content : Contents,
                              version : {db.form[f].version}]
                 \/ call \in [op : {"transition"}, form : {f}, action : Actions,
                              version : {db.form[f].version}, count : {Len(db.form[f].revs)}]
                 \/ call \in [op : {"remove"}, form : {f}]
         \/ \E f \in Forms :
              /\ Offers(db.form[f], db.form[f].active)
              /\ call \in [op : {"submit"}, form : {f}, rev : {db.form[f].active}, key : Keys,
                           row : {db.form[f]}, keys : {UsedKeys(db)}, seen : {db.def},
                           insts : {db.inst}]
         \/ call \in [op : {"create"}, def : Defs]
         \/ call \in [op : {"delete"}, def : Defs, seen : {db.def}]
         \/ call \in [op : {"status"}, def : Defs, seen : {db.def},
                      status : {"Inactive", "Active", "Archived"}]
         \/ call \in [op : {"bind"}, def : Defs, source : Sources(db), seen : {db.def}]
         \/ \E d \in Defs :
              call \in [op : {"settings"}, def : {d}, mode : Modes[d], source : Sources(db),
                        seen : {db.def}, running : {{db.inst[i].def : i \in Running(db)}}]
         \/ call \in [op : {"start", "restart"}, def : Defs, entry : Made(db),
                      seen : {db.def}, insts : {db.inst}]
         \/ call \in [op : {"manual"}, def : Defs, key : Keys, seen : {db.def},
                      insts : {db.inst}]
BY DEF Calls

\* A call begins with what it may rely on.
LEMMA CallRelies ==
  ASSUME db \in Rows, Sound(db), NEW call \in Calls
  PROVE  call \in Txn /\ Relies(call, db)
<1>1. /\ db.def \in [Defs -> Definition] /\ db.inst \in [Instances -> Instance]
      /\ \A f \in Forms : db.form[f] \in Form
      /\ \A i \in Instances : Present(db, db.inst[i].entry)
  BY DEF Rows, Sound
<1>2. \A f \in Forms : db.form[f].version \in Nat /\ Len(db.form[f].revs) \in Nat
  BY <1>1, FormFields
<1>3. \A d \in Defs : SameBinding(db.def[d], db.def[d])
  BY DEF SameBinding
<1>4. \A i \in Instances : Later(db.inst[i], db.inst[i])
  BY DEF Later
<1>5. ASSUME NEW f \in Forms, db.form[f].version < MaxVersion,
             call \in [op : {"save"}, form : {f}, content : Contents,
                       version : {db.form[f].version}]
      PROVE  call \in Txn /\ Relies(call, db)
  <2>1. /\ call.op = "save" /\ call.version < MaxVersion
        /\ call \in [op : {"save"}, form : Forms, content : Contents, version : Nat]
    BY <1>2, <1>5
  <2> QED BY <2>1 DEF Txn, Relies, KeepsDefs, KeepsInsts, Alone
<1>6. ASSUME NEW f \in Forms, db.form[f].version < MaxVersion,
             call \in [op : {"transition"}, form : {f}, action : Actions,
                       version : {db.form[f].version}, count : {Len(db.form[f].revs)}]
      PROVE  call \in Txn /\ Relies(call, db)
  <2>1. /\ call.op = "transition" /\ call.version < MaxVersion /\ call.form = f
        /\ call.version = db.form[f].version /\ call.count = Len(db.form[f].revs)
        /\ call \in [op : {"transition"}, form : Forms, action : Actions, version : Nat, count : Nat]
    BY <1>2, <1>6
  <2> QED BY <1>2, <2>1 DEF Txn, Relies, KeepsDefs, KeepsInsts, Alone
<1>7. ASSUME NEW f \in Forms, call \in [op : {"remove"}, form : {f}]
      PROVE  call \in Txn /\ Relies(call, db)
  <2>1. call.op = "remove" /\ call \in [op : {"remove"}, form : Forms]
    BY <1>7
  <2> QED BY <2>1 DEF Txn, Relies, KeepsDefs, KeepsInsts, Alone
<1>8. ASSUME NEW f \in Forms, Offers(db.form[f], db.form[f].active),
             call \in [op : {"submit"}, form : {f}, rev : {db.form[f].active}, key : Keys,
                       row : {db.form[f]}, keys : {UsedKeys(db)}, seen : {db.def},
                       insts : {db.inst}]
      PROVE  call \in Txn /\ Relies(call, db)
  <2>1. db.form[f].active \in 1..MaxRev
    BY <1>1, <1>8, FormFields DEF Offers
  <2>2. UsedKeys(db) \subseteq Keys
    <3>1. \A e \in Entries : db.entry[e] \in Entry
      BY RowTypes
    <3>2. \A e \in Made(db) : db.entry[e].key # NoKey
      BY DEF Sound, Made
    <3> QED BY <3>1, <3>2 DEF UsedKeys, Made, Entry
  <2>3. /\ call.op = "submit" /\ call.seen = db.def /\ call.insts = db.inst
        /\ call \in [op : {"submit"}, form : Forms, rev : 1..MaxRev, key : Keys, row : Form,
                     keys : SUBSET Keys, seen : [Defs -> Definition],
                     insts : [Instances -> Instance]]
    BY <1>1, <1>8, <2>1, <2>2
  <2> QED BY <1>1, <1>3, <2>3 DEF Txn, Relies, KeepsDefs, KeepsInsts, Alone
<1>9. ASSUME call \in [op : {"create"}, def : Defs]
      PROVE  call \in Txn /\ Relies(call, db)
  BY <1>9 DEF Txn, Relies, KeepsDefs, KeepsInsts, Alone
<1>10. ASSUME call \in [op : {"delete"}, def : Defs, seen : {db.def}]
       PROVE  call \in Txn /\ Relies(call, db)
  <2>1. /\ call.op = "delete" /\ call.seen = db.def
        /\ call \in [op : {"delete"}, def : Defs, seen : [Defs -> Definition]]
    BY <1>1, <1>10
  <2> QED BY <1>3, <2>1 DEF Txn, Relies, KeepsInsts
<1>11. ASSUME call \in [op : {"status"}, def : Defs, seen : {db.def},
                        status : {"Inactive", "Active", "Archived"}]
       PROVE  call \in Txn /\ Relies(call, db)
  <2>1. /\ call.op = "status" /\ call.seen = db.def
        /\ call \in [op : {"status"}, def : Defs, status : {"Inactive", "Active", "Archived"},
                     seen : [Defs -> Definition]]
    BY <1>1, <1>11
  <2> QED BY <1>3, <2>1 DEF Txn, Relies, KeepsInsts
<1>12. ASSUME call \in [op : {"bind"}, def : Defs, source : Sources(db), seen : {db.def}]
       PROVE  call \in Txn /\ Relies(call, db)
  <2>1. /\ call.op = "bind" /\ call.seen = db.def
        /\ call \in [op : {"bind"}, def : Defs,
                     source : (Forms \cup {NoForm}) \X (0..MaxRev), seen : [Defs -> Definition]]
    BY <1>1, <1>12, SourceType
  <2> QED BY <1>3, <2>1 DEF Txn, Relies, KeepsInsts
<1>13. ASSUME NEW d \in Defs,
              call \in [op : {"settings"}, def : {d}, mode : Modes[d], source : Sources(db),
                        seen : {db.def}, running : {{db.inst[i].def : i \in Running(db)}}]
       PROVE  call \in Txn /\ Relies(call, db)
  <2>1. {db.inst[i].def : i \in Running(db)} \subseteq Defs
    BY DEF Running, Sound, BoundTo
  <2>2. Modes[d] \subseteq {"event", "restart", "manual"}
    OBVIOUS
  <2>3. /\ call.op = "settings" /\ call.seen = db.def
        /\ call \in [op : {"settings"}, def : Defs, mode : {"event", "restart", "manual"},
                     running : SUBSET Defs, source : (Forms \cup {NoForm}) \X (0..MaxRev),
                     seen : [Defs -> Definition]]
    BY <1>1, <1>13, <2>1, <2>2, SourceType
  <2> QED BY <1>3, <2>3 DEF Txn, Relies, KeepsInsts
<1>14. ASSUME call \in [op : {"start", "restart"}, def : Defs, entry : Made(db),
                        seen : {db.def}, insts : {db.inst}]
       PROVE  call \in Txn /\ Relies(call, db)
  <2>1. /\ call.op = "start" \/ call.op = "restart"
        /\ call.seen = db.def /\ call.insts = db.inst /\ call.entry \in Made(db)
        /\ call \in [op : {"start", "restart"}, def : Defs, entry : Entries,
                     seen : [Defs -> Definition], insts : [Instances -> Instance]]
    BY <1>1, <1>14 DEF Made
  <2> QED BY <1>1, <1>3, <1>4, <2>1 DEF Txn, Relies, Made
<1>15. ASSUME call \in [op : {"manual"}, def : Defs, key : Keys, seen : {db.def},
                        insts : {db.inst}]
       PROVE  call \in Txn /\ Relies(call, db)
  <2>1. /\ call.op = "manual" /\ call.seen = db.def /\ call.insts = db.inst
        /\ call \in [op : {"manual"}, def : Defs, key : Keys, seen : [Defs -> Definition],
                     insts : [Instances -> Instance]]
    BY <1>1, <1>15
  <2> QED BY <1>1, <1>3, <1>4, <2>1 DEF Txn, Relies
<1> QED
  BY <1>5, <1>6, <1>7, <1>8, <1>9, <1>10, <1>11, <1>12, <1>13, <1>14, <1>15, CallOf

-----------------------------------------------------------------------------
(* Steps.                                                                  *)

\* What a call that others may overlap leaves to them.
Kept(c, x) ==
  /\ \A d \in Defs : SameBinding(c.def[d], x.def[d])
  /\ \A e \in Entries : c.entry[e] # NoEntry => x.entry[e] # NoEntry
  /\ \A f \in Forms : x.form[f] = c.form[f] \/ x.form[f].version = c.form[f].version + 1

LEMMA KeptRelies ==
  ASSUME NEW c \in Rows, NEW x, NEW t \in Txn \cup {NoTxn}, Relies(t, c), Kept(c, x),
         Alone(t.op) => \A i \in Instances : Later(c.inst[i], x.inst[i])
  PROVE  Relies(t, x)
<1>1. t.op # "none" => t \in Txn
  BY DEF NoTxn
<1>2. KeepsDefs(t.op) => \A d \in Defs : SameBinding(t.seen[d], x.def[d])
  BY DEF Relies, Kept, SameBinding
<1>3. KeepsInsts(t.op) => \A i \in Instances : Present(x, t.insts[i].entry)
  <2> SUFFICES ASSUME KeepsInsts(t.op), NEW i \in Instances, t.insts[i].entry # 0
               PROVE  x.entry[t.insts[i].entry] # NoEntry
    BY DEF Present
  <2>1. t \in Txn
    BY <1>1 DEF KeepsInsts
  <2>2. t.insts[i] \in Instance
    BY <2>1, TxnOf
  <2>3. t.insts[i].entry \in Entries
    BY <2>2 DEF Instance, Entries
  <2>4. c.entry[t.insts[i].entry] # NoEntry
    BY DEF Relies, Present
  <2> QED BY <2>3, <2>4 DEF Kept
<1>4. KeepsInsts(t.op) /\ Alone(t.op) => \A i \in Instances : Later(t.insts[i], x.inst[i])
  BY DEF Relies, Later
<1>5. t.op = "transition" =>
        /\ t.version <= x.form[t.form].version
        /\ t.version = x.form[t.form].version => Len(x.form[t.form].revs) = t.count
  <2> SUFFICES ASSUME t.op = "transition"
               PROVE  /\ t.version <= x.form[t.form].version
                      /\ t.version = x.form[t.form].version
                           => Len(x.form[t.form].revs) = t.count
    OBVIOUS
  <2>1. t.form \in Forms /\ t.version \in Nat
    BY <1>1, TxnOf
  <2>2. c.form[t.form].version \in Nat
    BY <2>1, RowTypes, FormFields
  <2>3. /\ t.version <= c.form[t.form].version
        /\ t.version = c.form[t.form].version => Len(c.form[t.form].revs) = t.count
    BY DEF Relies
  <2>4. x.form[t.form] = c.form[t.form] \/ x.form[t.form].version = c.form[t.form].version + 1
    BY <2>1 DEF Kept
  <2> QED BY <2>1, <2>2, <2>3, <2>4
<1>6. t.op = "start" \/ t.op = "restart" => x.entry[t.entry] # NoEntry
  BY <1>1, TxnOf DEF Relies, Kept
<1>7. t.op = "save" \/ t.op = "transition" => t.version < MaxVersion
  BY DEF Relies
<1> QED BY <1>2, <1>3, <1>4, <1>5, <1>6, <1>7 DEF Relies

LEMMA FormStepKept ==
  ASSUME NEW c, NEW f \in Forms, NEW x, FormStep(c, x, f)
  PROVE  Kept(c, x)
BY DEF FormStep, Kept, SameBinding

LEMMA DefStepKept ==
  ASSUME NEW c, NEW d \in Defs, NEW x, DefStep(c, x, d), SameBinding(c.def[d], x.def[d])
  PROVE  Kept(c, x)
BY DEF DefStep, PutsDef, Kept, SameBinding

\* The rows a step leaves: entries are made by submissions only.
Leaves(c, x) == x \in Rows /\ Sound(x) /\ (x.entry = c.entry \/ Submitted(c, x))

LEMMA FormStepLeaves ==
  ASSUME NEW c \in Rows, Sound(c), NEW f \in Forms, NEW x, FormStep(c, x, f)
  PROVE  Leaves(c, x) /\ Kept(c, x)
<1>1. x \in Rows /\ x.entry = c.entry
  BY DEF FormStep
<1> QED BY <1>1, FormStepSound, FormStepKept DEF Leaves

LEMMA DefStepLeaves ==
  ASSUME NEW c \in Rows, Sound(c), NEW d \in Defs, NEW x, DefStep(c, x, d)
  PROVE  Leaves(c, x)
<1>1. x \in Rows /\ x.entry = c.entry
  BY DEF DefStep, PutsDef
<1> QED BY <1>1, DefStepSound DEF Leaves

Finishes(w) ==
  \/ FinishSave(w) \/ FinishTransition(w) \/ FinishRemove(w) \/ FinishSubmit(w)
  \/ FinishCreate(w) \/ FinishStatus(w) \/ FinishDelete(w) \/ FinishBind(w)
  \/ FinishSettings(w) \/ FinishStart(w) \/ FinishManual(w)

\* Every call that ends.
LEMMA FinishLeaves ==
  ASSUME RoutingInv, NEW w \in Workers, Finishes(w)
  PROVE  Leaves(db, db') /\ (Alone(txn[w].op) \/ Kept(db, db'))
<1> DEFINE t == txn[w]
<1>1. db \in Rows /\ Sound(db) /\ (t \in Txn \/ t = NoTxn) /\ Relies(t, db)
  BY DEF RoutingInv, TypeOK
<1>2. t.op # "none" => t \in Txn
  BY <1>1 DEF NoTxn
<1>3. CASE FinishSave(w)
  <2>1. t.op = "save" /\ db' \in SaveForm(db, t.form, t.content, t.version)
    BY <1>3 DEF FinishSave, Commit
  <2>2. t.form \in Forms /\ t.content \in Contents /\ t.version < MaxVersion
    BY <1>1, <1>2, <2>1, TxnOf DEF Relies
  <2> HIDE DEF t
  <2> QED BY <1>1, <2>1, <2>2, SaveStep, FormStepLeaves
<1>4. CASE FinishTransition(w)
  <2>1. /\ t.op = "transition" /\ db' \in Transition(db, t.form, t.action, t.version, t.count)
        /\ Len(db.form[t.form].revs) < MaxRev \/ t.action # "publish"
    BY <1>4 DEF FinishTransition, Commit
  <2>2. /\ t.form \in Forms /\ t.action \in Actions /\ t.version < MaxVersion
        /\ t.version = db.form[t.form].version => Len(db.form[t.form].revs) = t.count
    BY <1>1, <1>2, <2>1, TxnOf DEF Relies
  <2> HIDE DEF t
  <2> QED BY <1>1, <2>1, <2>2, TransitionStep, FormStepLeaves
<1>5. CASE FinishRemove(w)
  <2>1. /\ t.op = "remove" /\ db' \in RemoveBuiltin(db, t.form)
        /\ db.form[t.form].version < MaxVersion
    BY <1>5 DEF FinishRemove, Commit
  <2>2. t.form \in Forms
    BY <1>2, <2>1, TxnOf
  <2> HIDE DEF t
  <2> QED BY <1>1, <2>1, <2>2, RemoveStep, FormStepLeaves
<1>6. CASE FinishSubmit(w)
  <2>1. /\ t.op = "submit"
        /\ db' \in Submit(db, t.seen, t.row, t.keys, t.form, t.rev, t.key, t.insts)
    BY <1>6 DEF FinishSubmit, Commit
  <2>2. t.form \in Forms /\ t.rev \in 0..MaxRev /\ t.key \in Keys
    BY <1>2, <2>1, TxnOf
  <2>3. /\ \A d \in Defs : SameBinding(t.seen[d], db.def[d])
        /\ \A i \in Instances : Present(db, t.insts[i].entry)
    BY <1>1, <2>1 DEF Relies, KeepsDefs, KeepsInsts
  <2> HIDE DEF t
  <2>4. Submitted(db, db')
    BY <1>1, <2>1, <2>2, <2>3, SubmitStep
  <2>5. Leaves(db, db') /\ Kept(db, db')
    BY <1>1, <2>4, SubmittedSound DEF Leaves, Kept, SameBinding
  <2> QED BY <2>5
<1>7. CASE FinishCreate(w)
  <2>1. t.op = "create" /\ db' \in CreateDefinition(db, t.def)
    BY <1>7 DEF FinishCreate, Commit
  <2>2. t.def \in Defs
    BY <1>2, <2>1, TxnOf
  <2> HIDE DEF t
  <2>3. DefStep(db, db', t.def) /\ SameBinding(db.def[t.def], db'.def[t.def])
    BY <1>1, <2>1, <2>2, CreateStep
  <2> QED BY <1>1, <2>2, <2>3, DefStepLeaves, DefStepKept
<1>8. CASE FinishStatus(w)
  <2>1. t.op = "status" /\ db' \in SetStatus(db, t.seen, t.def, t.status)
    BY <1>8 DEF FinishStatus, Commit
  <2>2. t.def \in Defs /\ t.status \in {"Inactive", "Active", "Archived"}
    BY <1>2, <2>1, TxnOf
  <2> HIDE DEF t
  <2>3. DefStep(db, db', t.def) /\ SameBinding(db.def[t.def], db'.def[t.def])
    BY <1>1, <2>1, <2>2, StatusStep
  <2> QED BY <1>1, <2>2, <2>3, DefStepLeaves, DefStepKept
<1>9. CASE FinishDelete(w)
  <2>1. t.op = "delete" /\ db' \in DeleteDefinition(db, t.seen, t.def)
    BY <1>9 DEF FinishDelete, Commit
  <2>2. Alone(t.op) /\ t.def \in Defs
    BY <1>2, <2>1, TxnOf DEF Alone
  <2>3. Leaves(db, db')
    BY <1>1, <2>1, <2>2, DeleteStep, DefStepLeaves
  <2> QED BY <2>2, <2>3
<1>10. CASE FinishBind(w)
  <2>1. t.op = "bind" /\ db' \in BindTask(db, t.seen, t.def, t.source[1], t.source[2])
    BY <1>10 DEF FinishBind, Commit
  <2>2. Alone(t.op) /\ t.def \in Defs /\ t.source \in (Forms \cup {NoForm}) \X (0..MaxRev)
    BY <1>2, <2>1, TxnOf DEF Alone
  <2>3. db' \in Rebind(db, t.seen, t.def, t.source[1], t.source[2])
    BY <2>1 DEF BindTask
  <2>4. Leaves(db, db')
    BY <1>1, <2>2, <2>3, RebindStep, DefStepLeaves
  <2> QED BY <2>2, <2>4
<1>11. CASE FinishSettings(w)
  <2>1. /\ t.op = "settings"
        /\ db' \in SaveStart(db, t.seen, t.running, t.def, t.mode, t.source[1], t.source[2])
    BY <1>11 DEF FinishSettings, Commit
  <2>2. /\ Alone(t.op) /\ t.def \in Defs /\ t.source \in (Forms \cup {NoForm}) \X (0..MaxRev)
        /\ t.mode \in {"event", "restart", "manual"}
    BY <1>2, <2>1, TxnOf DEF Alone
  <2>3. Leaves(db, db')
    BY <1>1, <2>1, <2>2, SaveStartStep, DefStepLeaves
  <2> QED BY <2>2, <2>3
<1>12. CASE FinishStart(w)
  <2>1. /\ t.op = "start" \/ t.op = "restart"
        /\ db' \in StartEntry(db, t.seen, t.def, t.entry, t.op = "restart", t.insts)
    BY <1>12 DEF FinishStart, Commit
  <2>2. Alone(t.op) /\ t.def \in Defs /\ t.entry \in Entries
    BY <1>2, <2>1, TxnOf DEF Alone
  <2>3. /\ SameBinding(t.seen[t.def], db.def[t.def])
        /\ \A i \in Instances : Later(t.insts[i], db.inst[i])
        /\ db.entry[t.entry] # NoEntry
    BY <1>1, <2>1, <2>2 DEF Relies, KeepsDefs, KeepsInsts
  <2>4. (t.op = "restart") \in BOOLEAN
    OBVIOUS
  <2>5. Sound(db') /\ (db' = db \/ Started(db, db', t.def, t.entry, NoKey))
    BY <1>1, <2>1, <2>2, <2>3, <2>4, StartEntryStep
  <2>6. Leaves(db, db')
    BY <1>1, <2>5 DEF Leaves, Started, PutsInst
  <2> QED BY <2>2, <2>6
<1>13. CASE FinishManual(w)
  <2>1. t.op = "manual" /\ db' \in StartManual(db, t.seen, t.def, t.key, t.insts)
    BY <1>13 DEF FinishManual, Commit
  <2>2. Alone(t.op) /\ t.def \in Defs /\ t.key \in Keys
    BY <1>2, <2>1, TxnOf DEF Alone
  <2>3. \A i \in Instances : Later(t.insts[i], db.inst[i])
    BY <1>1, <2>1, <2>2 DEF Relies, KeepsInsts
  <2>4. Started(db, db', t.def, 0, t.key) /\ Sound(db')
    BY <1>1, <2>1, <2>2, <2>3, StartManualStep
  <2>5. Leaves(db, db')
    BY <1>1, <2>4 DEF Leaves, Started, PutsInst
  <2> QED BY <2>2, <2>5
<1> QED
  BY <1>3, <1>4, <1>5, <1>6, <1>7, <1>8, <1>9, <1>10, <1>11, <1>12, <1>13 DEF Finishes

\* What a finished call leaves of the transactions.
LEMMA FinishEnds ==
  ASSUME NEW w \in Workers, Finishes(w)
  PROVE  txn[w] # NoTxn /\ txn' = [txn EXCEPT ![w] = NoTxn]
BY DEF Finishes, FinishSave, FinishTransition, FinishRemove, FinishSubmit, FinishCreate,
       FinishStatus, FinishDelete, FinishBind, FinishSettings, FinishStart, FinishManual,
       Commit, NoTxn

\* The engine ends an instance.
LEMMA EndLeaves ==
  ASSUME db \in Rows, Sound(db), InstanceEnds
  PROVE  /\ Leaves(db, db') /\ Kept(db, db')
         /\ \A i \in Instances : Later(db.inst[i], db'.inst[i])
<1>1. PICK i \in Running(db) : db' = [db EXCEPT !.inst[i].status = "Ended"]
  BY DEF InstanceEnds
<1> DEFINE row == [db.inst[i] EXCEPT !.status = "Ended"]
<1>2. i \in Instances /\ db.inst[i] \in Instance
  BY RowTypes DEF Running
<1>3. /\ row \in Instance /\ row.status = "Ended" /\ row.def = db.inst[i].def
      /\ row.entry = db.inst[i].entry /\ row.key = db.inst[i].key
  BY <1>2 DEF Instance
<1>4. db' = [db EXCEPT !.inst[i] = row]
  BY <1>1, <1>2 DEF Rows
<1> HIDE DEF row
<1>5. db' \in Rows /\ PutsInst(db, db', i, row)
  BY <1>2, <1>3, <1>4, InstPut
<1>6. /\ db'.inst[i] = row /\ \A j \in Instances : j # i => db'.inst[j] = db.inst[j]
      /\ db'.form = db.form /\ db'.def = db.def /\ db'.entry = db.entry
  BY <1>5 DEF PutsInst
<1>7. Later(db.inst[i], db'.inst[i])
  BY <1>3, <1>6 DEF Later
<1>8. ASSUME NEW j \in Instances PROVE Later(db.inst[j], db'.inst[j])
  BY <1>6, <1>7 DEF Later
<1>9. ASSUME NEW j \in Instances PROVE BoundTo(db', j) /\ Present(db', db'.inst[j].entry)
  <2>1. BoundTo(db, j) /\ Present(db, db.inst[j].entry) /\ Later(db.inst[j], db'.inst[j])
    BY <1>8 DEF Sound
  <2>2. db'.inst[j].status = "Running" => db.inst[j].status = "Running"
    BY <2>1 DEF Later
  <2>3. db'.inst[j].def = db.inst[j].def /\ db'.inst[j].entry = db.inst[j].entry
    BY <2>1 DEF Later
  <2> QED BY <1>6, <2>1, <2>2, <2>3 DEF BoundTo, Present
<1>10. ASSUME NEW j \in Instances, NEW l \in Instances, j # l
       PROVE  Apart(db'.inst[j], db'.inst[l])
  <2>1. Apart(db.inst[j], db.inst[l])
    BY <1>10 DEF Sound
  <2>2. Later(db.inst[j], db'.inst[j]) /\ Later(db.inst[l], db'.inst[l])
    BY <1>8
  <2> QED BY <2>1, <2>2 DEF Later, Apart
<1>11. Sound(db')
  BY <1>6, <1>9, <1>10 DEF Sound
<1>12. Kept(db, db')
  BY <1>6 DEF Kept, SameBinding
<1> QED BY <1>5, <1>6, <1>8, <1>11, <1>12 DEF Leaves

-----------------------------------------------------------------------------
(* The invariant.                                                          *)

\* A form as it is drafted or opened is one.
LEMMA FirstForms == Drafted \in Form /\ Opened \in Form /\ Numbered(Drafted) /\ Numbered(Opened)
<1>1. <<>> \in [1..0 -> Revision] /\ 0 \in 0..MaxRev /\ 1 \in 0..MaxRev /\ 1 \in 1..MaxRev
  OBVIOUS
<1>2. <<>> \in UNION {[1..n -> Revision] : n \in 0..MaxRev}
  BY <1>1
<1>3. /\ Drafted \in Form /\ Drafted.revs = <<>>
  BY <1>1, <1>2 DEF Drafted, Form
<1> DEFINE one == [version |-> 1, content |-> First]
           revs == <<one>>
<1>4. one \in Revision /\ one.version = 1
  BY <1>1 DEF Revision
<1> HIDE DEF one
<1>5. revs \in [1..1 -> Revision] /\ DOMAIN revs = 1..1 /\ revs[1] = one
  BY <1>4
<1>6. revs \in UNION {[1..n -> Revision] : n \in 0..MaxRev}
  BY <1>1, <1>5
<1>7. Opened = [Drafted EXCEPT !.revs = revs, !.active = 1]
  BY DEF Opened, one
<1> HIDE DEF revs
<1>8. Opened \in Form /\ Opened.revs = revs
  BY <1>1, <1>3, <1>6, <1>7 DEF Form
<1>9. Numbered(Drafted)
  BY <1>3 DEF Numbered
<1>10. Numbered(Opened)
  BY <1>4, <1>5, <1>8 DEF Numbered
<1> QED BY <1>3, <1>8, <1>9, <1>10

LEMMA InitInv == ASSUME Init PROVE RoutingInv
<1>1. /\ db.form \in [Forms -> {Drafted, Opened}] /\ db.def = [d \in Defs |-> NoDefinition]
      /\ db.entry = [e \in Entries |-> NoEntry] /\ db.inst = [i \in Instances |-> NoInstance]
      /\ txn = [w \in Workers |-> NoTxn]
  BY DEF Init
<1>2. NoDefinition \in Definition
  BY DEF NoDefinition, Definition
<1>3. NoEntry \in Entry
  BY DEF NoEntry, Entry
<1>4. /\ NoInstance \in Instance /\ NoInstance.status = "none" /\ NoInstance.def = NoDef
      /\ NoInstance.entry = 0
  BY DEF NoInstance, Instance
<1>5. db \in Rows
  <2>1. db.form \in [Forms -> Form]
    BY <1>1, FirstForms
  <2>2. db = [form |-> db.form, def |-> db.def, entry |-> db.entry, inst |-> db.inst]
    BY DEF Init
  <2> QED BY <1>1, <1>2, <1>3, <1>4, <2>1, <2>2 DEF Rows
<1>6. \A f \in Forms : Numbered(db.form[f])
  BY <1>1, FirstForms
<1>7. Sound(db)
  BY <1>1, <1>4, <1>6 DEF Sound, BoundTo, Present, Apart
<1>8. \A w \in Workers : txn[w].op = "none"
  BY <1>1 DEF NoTxn
<1>9. \A w \in Workers : Relies(txn[w], db) /\ ~Alone(txn[w].op)
  BY <1>8 DEF Relies, KeepsDefs, KeepsInsts, Alone
<1> QED BY <1>1, <1>5, <1>7, <1>9 DEF RoutingInv, TypeOK

LEMMA NextInv ==
  ASSUME RoutingInv, [Next]_vars, OnlyThoseMeet
  PROVE  RoutingInv' /\ (db' = db \/ Leaves(db, db'))
<1>1. /\ db \in Rows /\ Sound(db) /\ txn \in [Workers -> Txn \cup {NoTxn}]
      /\ \A w \in Workers : Relies(txn[w], db)
      /\ \A w \in Workers : Alone(txn[w].op) => \A v \in Workers : v # w => txn[v] = NoTxn
  BY DEF RoutingInv, TypeOK
<1>2. ~Alone(NoTxn.op) /\ \A c : Relies(NoTxn, c)
  BY DEF NoTxn, Alone, Relies, KeepsDefs, KeepsInsts
<1>3. CASE UNCHANGED vars
  BY <1>3 DEF vars, RoutingInv, TypeOK
<1>4. CASE InstanceEnds
  <2>1. txn' = txn /\ Leaves(db, db') /\ Kept(db, db')
        /\ \A i \in Instances : Later(db.inst[i], db'.inst[i])
    BY <1>1, <1>4, EndLeaves DEF InstanceEnds
  <2>2. \A w \in Workers : txn[w] \in Txn \cup {NoTxn}
    BY <1>1
  <2>3. \A w \in Workers : Relies(txn[w], db')
    BY <1>1, <2>1, <2>2, KeptRelies
  <2> QED BY <1>1, <2>1, <2>3 DEF RoutingInv, TypeOK, Leaves
<1>5. ASSUME NEW w \in Workers, Begin(w) PROVE RoutingInv' /\ db' = db
  <2>1. PICK call \in Calls :
          /\ \A v \in Workers : Idle(v) \/ \E calls \in Overlap : {call.op, txn[v].op} \subseteq calls
          /\ txn' = [txn EXCEPT ![w] = call]
    BY <1>5 DEF Begin
  <2>2. db' = db /\ txn[w] = NoTxn
    BY <1>5 DEF Begin, Idle
  <2>3. call \in Txn /\ Relies(call, db)
    BY <1>1, CallRelies
  <2>4. txn'[w] = call /\ \A v \in Workers : v # w => txn'[v] = txn[v]
    BY <1>1, <2>1
  <2>5. txn' \in [Workers -> Txn \cup {NoTxn}]
    BY <1>1, <2>1, <2>3
  <2>6. ASSUME NEW v \in Workers, v # w
        PROVE  txn[v] = NoTxn \/ (MayMeet(call.op) /\ MayMeet(txn[v].op))
    <3>1. CASE \E calls \in Overlap : {call.op, txn[v].op} \subseteq calls
      BY <3>1 DEF OnlyThoseMeet
    <3> QED BY <2>1, <3>1 DEF Idle
  <2>7. \A op : ~(MayMeet(op) /\ Alone(op))
    BY DEF MayMeet, Alone
  <2>8. ASSUME NEW u \in Workers, Alone(txn'[u].op), NEW v \in Workers, v # u
        PROVE  txn'[v] = NoTxn
    <3>1. CASE u = w
      BY <2>4, <2>6, <2>7, <2>8, <3>1
    <3>2. CASE u # w
      <4>1. txn'[u] = txn[u] /\ txn[u] # NoTxn
        BY <1>2, <2>4, <2>8, <3>2
      <4>2. MayMeet(txn[u].op)
        BY <2>6, <3>2, <4>1
      <4> QED BY <2>7, <2>8, <4>1, <4>2
    <3> QED BY <3>1, <3>2
  <2>9. \A v \in Workers : Relies(txn'[v], db)
    BY <1>1, <2>3, <2>4
  <2> QED BY <1>1, <2>2, <2>5, <2>8, <2>9 DEF RoutingInv, TypeOK
<1>6. ASSUME NEW w \in Workers, txn[w] # NoTxn, txn' = [txn EXCEPT ![w] = NoTxn],
             db' \in Rows, Sound(db'),
             \A v \in Workers : v # w => txn[v] = NoTxn \/ Relies(txn[v], db')
      PROVE  RoutingInv'
  <2>1. txn' \in [Workers -> Txn \cup {NoTxn}]
    BY <1>1, <1>6
  <2>2. txn'[w] = NoTxn /\ \A v \in Workers : v # w => txn'[v] = txn[v]
    BY <1>1, <1>6
  <2>3. \A v \in Workers : Relies(txn'[v], db')
    BY <1>2, <1>6, <2>2
  <2>4. \A u \in Workers : Alone(txn'[u].op) => \A v \in Workers : v # u => txn'[v] = NoTxn
    BY <1>1, <1>2, <2>2
  <2> QED BY <1>6, <2>1, <2>3, <2>4 DEF RoutingInv, TypeOK
<1>7. ASSUME NEW w \in Workers, Abort(w) PROVE RoutingInv' /\ db' = db
  <2>1. txn[w] # NoTxn /\ txn' = [txn EXCEPT ![w] = NoTxn] /\ db' = db
    BY <1>7 DEF Abort, Idle
  <2> QED BY <1>1, <1>6, <2>1
<1>8. ASSUME NEW w \in Workers, Finishes(w) PROVE RoutingInv' /\ Leaves(db, db')
  <2>1. Leaves(db, db') /\ (Alone(txn[w].op) \/ Kept(db, db'))
    BY <1>8, FinishLeaves
  <2>2. txn[w] # NoTxn /\ txn' = [txn EXCEPT ![w] = NoTxn]
    BY <1>8, FinishEnds
  <2>3. ASSUME NEW v \in Workers, v # w, txn[v] # NoTxn PROVE Relies(txn[v], db')
    <3>1. ~Alone(txn[w].op) /\ ~Alone(txn[v].op)
      BY <1>1, <2>2, <2>3
    <3>2. Kept(db, db') /\ txn[v] \in Txn \cup {NoTxn} /\ Relies(txn[v], db)
      BY <1>1, <2>1, <3>1
    <3> QED BY <1>1, <3>1, <3>2, KeptRelies
  <2> QED BY <1>6, <2>1, <2>2, <2>3 DEF Leaves
<1> QED BY <1>3, <1>4, <1>5, <1>7, <1>8 DEF Next, Finishes, vars

-----------------------------------------------------------------------------
(* Theorems.                                                               *)

\* The invariant gives what the properties say.
LEMMA InvTells == ASSUME RoutingInv PROVE RunsItsForm /\ StartedOnce
<1>1. TypeOK /\ Sound(db)
  BY DEF RoutingInv
<1>2. RevisionsNumbered
  BY <1>1 DEF Sound, Numbered, RevisionsNumbered
<1>3. BoundWhileRunning
  BY <1>1 DEF Sound, BoundTo, BoundWhileRunning, Running
<1>4. StartedOnce
  <2> SUFFICES ASSUME NEW i \in Instances, NEW j \in Instances, i # j,
                      db.inst[i].def = db.inst[j].def, db.inst[i].def # NoDef
               PROVE  /\ db.inst[i].key = NoKey \/ db.inst[i].key # db.inst[j].key
                      /\ \/ db.inst[i].entry = 0 \/ db.inst[i].entry # db.inst[j].entry
                         \/ ~({i, j} \subseteq Running(db))
    BY DEF StartedOnce
  <2>1. Apart(db.inst[i], db.inst[j])
    BY <1>1 DEF Sound
  <2> QED BY <2>1 DEF Apart, Running
<1> QED BY <1>1, <1>2, <1>3, <1>4 DEF RunsItsForm

\* The entry of a submission and its instance.
LEMMA SubmittedRouted ==
  ASSUME RoutingInv, Submitted(db, db'), NEW e \in Entries, e \notin Made(db), e \in Made(db')
  PROVE  LET entry == db'.entry[e]
             mine == {i \in Instances : db'.inst[i].entry = e}
         IN /\ Offers(db.form[entry.form], entry.rev)
            /\ IF mine = {} THEN \A d \in Defs : db.def[d].form # entry.form
               ELSE \A i \in mine : /\ ~entry.own
                                    /\ db.def[db'.inst[i].def] =
                                         [status |-> "Active", mode |-> db.def[db'.inst[i].def].mode,
                                          form |-> entry.form, rev |-> entry.rev]
<1>1. PICK g \in Entries, y \in Rows, row \in Entry : EntryMade(db, y, db', g, row)
  BY DEF Submitted
<1>2. /\ db.entry[g] = NoEntry /\ row.key # NoKey /\ PutsEntry(db, y, g, row)
      /\ Offers(db.form[row.form], row.rev)
  BY <1>1 DEF EntryMade
<1>3. /\ y.entry[g] = row /\ \A h \in Entries : h # g => y.entry[h] = db.entry[h]
      /\ y.def = db.def /\ y.inst = db.inst
  BY <1>2 DEF PutsEntry
<1>4. db \in Rows /\ Sound(db)
  BY DEF RoutingInv, TypeOK
<1>5. \A i \in Instances : y.inst[i].entry # g
  BY <1>2, <1>4, EntrySound
<1>6. db'.entry = y.entry
  BY <1>1 DEF EntryMade, Started, PutsInst
<1>7. e = g /\ db'.entry[e] = row
  BY <1>3, <1>6 DEF Made
<1>8. CASE db' = y /\ \A d \in Defs : db.def[d].form # row.form
  BY <1>2, <1>5, <1>7, <1>8
<1>9. ASSUME ~row.own, NEW d \in Defs, Started(y, db', d, g, NoKey), db.def[d].status = "Active",
             db.def[d].form = row.form, db.def[d].rev = row.rev,
             NEW i \in Instances
      PROVE  /\ db'.inst[i].entry = g =>
                  db.def[db'.inst[i].def] =
                    [status |-> "Active", mode |-> db.def[db'.inst[i].def].mode,
                     form |-> row.form, rev |-> row.rev]
             /\ \E j \in Instances : db'.inst[j].entry = g
  <2>1. PICK j \in Instances, new \in Instance :
          PutsInst(y, db', j, new) /\ new.def = d /\ new.entry = g
    BY <1>9 DEF Started
  <2>2. db'.inst[j] = new /\ \A l \in Instances : l # j => db'.inst[l] = y.inst[l]
    BY <2>1 DEF PutsInst
  <2>3. db.def[d] \in Definition
    BY <1>4, RowTypes
  <2>4. db.def[d] = [status |-> "Active", mode |-> db.def[d].mode,
                     form |-> row.form, rev |-> row.rev]
    BY <1>9, <2>3 DEF Definition
  <2>5. db'.inst[i].entry = g => i = j
    BY <1>5, <2>2
  <2> QED BY <2>1, <2>2, <2>4, <2>5
<1>10. CASE ~row.own /\ \E d \in Defs : /\ Started(y, db', d, g, NoKey)
                                        /\ db.def[d].status = "Active"
                                        /\ db.def[d].form = row.form /\ db.def[d].rev = row.rev
  <2>1. PICK d \in Defs : /\ Started(y, db', d, g, NoKey) /\ db.def[d].status = "Active"
                          /\ db.def[d].form = row.form /\ db.def[d].rev = row.rev
    BY <1>10
  <2>2. \A i \in Instances :
          /\ db'.inst[i].entry = g =>
               db.def[db'.inst[i].def] =
                 [status |-> "Active", mode |-> db.def[db'.inst[i].def].mode,
                  form |-> row.form, rev |-> row.rev]
          /\ \E j \in Instances : db'.inst[j].entry = g
    BY <1>9, <1>10, <2>1
  <2>3. \E j \in Instances : db'.inst[j].entry = g
    <3>1. Instances # {}
      BY <2>1 DEF Started
    <3> QED BY <2>2, <3>1
  <2> QED BY <1>2, <1>7, <1>10, <2>2, <2>3
<1> QED BY <1>1, <1>8, <1>10 DEF EntryMade

\* If the calls that change a binding or start what is there are served alone,
\* revisions are numbered in order and whatever runs is bound to what was
\* submitted, however the other calls overlap (transition, bind,
\* asoud_workflow_definition.validate).
THEOREM RunsItsFormHolds == ASSUME OnlyThoseMeet PROVE Spec => []RunsItsForm
<1>1. Init => RoutingInv
  BY InitInv
<1>2. RoutingInv /\ [Next]_vars => RoutingInv'
  BY NextInv
<1>3. RoutingInv => RunsItsForm
  BY InvTells
<1> QED BY <1>1, <1>2, <1>3, PTL DEF Spec

\* Under the same condition no entry runs twice under one definition and a
\* request_id starts one instance of it (start_workflow_instance).
THEOREM StartedOnceHolds == ASSUME OnlyThoseMeet PROVE Spec => []StartedOnce
<1>1. Init => RoutingInv
  BY InitInv
<1>2. RoutingInv /\ [Next]_vars => RoutingInv'
  BY NextInv
<1>3. RoutingInv => StartedOnce
  BY InvTells
<1> QED BY <1>1, <1>2, <1>3, PTL DEF Spec

\* Under the same condition an entry is taken by the form and revision offered
\* at that moment, together with the one instance of the workflow they are
\* bound to (submit_form, route).
THEOREM RoutedHolds == ASSUME OnlyThoseMeet PROVE Spec => Routed
<1>1. Init => RoutingInv
  BY InitInv
<1> DEFINE Step ==
      \A e \in Entries \ Made(db) :
        e \in Made(db') =>
          LET entry == db'.entry[e]
              mine == {i \in Instances : db'.inst[i].entry = e}
          IN /\ Offers(db.form[entry.form], entry.rev)
             /\ IF mine = {} THEN \A d \in Defs : db.def[d].form # entry.form
                ELSE \A i \in mine : /\ ~entry.own
                                     /\ db.def[db'.inst[i].def] =
                                          [status |-> "Active", mode |-> db.def[db'.inst[i].def].mode,
                                           form |-> entry.form, rev |-> entry.rev]
<1>2. ASSUME RoutingInv, [Next]_vars PROVE RoutingInv' /\ Step
  <2>1. RoutingInv' /\ (db' = db \/ Leaves(db, db'))
    BY <1>2, NextInv
  <2>2. CASE Submitted(db, db')
    BY <1>2, <2>1, <2>2, SubmittedRouted
  <2>3. CASE db'.entry = db.entry
    BY <2>1, <2>3 DEF Made
  <2> QED BY <2>1, <2>2, <2>3 DEF Leaves
<1>3. RoutingInv /\ [Next]_vars => RoutingInv' /\ [Step]_vars
  BY <1>2
<1> QED BY <1>1, <1>3, PTL DEF Spec, Routed

=============================================================================
