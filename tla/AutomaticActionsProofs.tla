------------------------ MODULE AutomaticActionsProofs ------------------------
(***************************************************************************)
(* Proofs about AutomaticActions, for every graph of stages, any number of *)
(* workers that are killed, lose jobs or come back late, and any budget of *)
(* attempts.                                                               *)
(*                                                                         *)
(* The receipts alone say what is still to be done.  The invariant ties    *)
(* each receipt's attempts and effects to its status, and the active       *)
(* receipts to the stage a running instance is at; a worker that comes     *)
(* back is harmless because it looks at the status under the lock again.   *)
(***************************************************************************)
EXTENDS AutomaticActions, FiniteSetTheorems, TLAPS

Statuses == {"Running", "Completed", "Failed", "Cancelled"}

\* The rows, with no more decisions than the bound allows.
Rows == [inst : [status : Statuses, stage : Stages, visit : Triggers],
         rec : [Receipts -> Receipt]]

\* What a receipt's status says of its attempts and its effects.
Accounted(r) ==
  /\ r.effects = IF r.status = "Succeeded" THEN 1 ELSE 0
  /\ r.attempts <= ExtraAttempts + 1
  /\ r.status \in {"None", "Pending"} => r.attempts = 0
  /\ r.status = "Retry Pending" => r.attempts <= ExtraAttempts

\* The rows, whatever the instance waits for.
Sound(d) == d \in Rows /\ \A id \in Receipts : Accounted(d.rec[id])

\* No receipt is active.
NoneActive(d) == \A id \in Receipts : d.rec[id].status \notin Active

\* The one active receipt is of the stage the instance is at.
OneActive(d) ==
  \E id \in Receipts :
    /\ id[1] = d.inst.stage
    /\ \A x \in Receipts : d.rec[x].status \in Active <=> x = id

\* A running instance has an active receipt if and only if it is at a queued
\* action, and then one.
Awaited(d) ==
  d.inst.status = "Running" =>
    IF Kind[d.inst.stage] = "Queued" THEN OneActive(d) ELSE NoneActive(d)

\* A receipt that ended in d is the same in e.
Keeps(d, e) == \A id \in Receipts : d.rec[id].status \in Terminal => e.rec[id] = d.rec[id]

\* The inductive invariant.
IInv ==
  /\ Sound(db)
  /\ Awaited(db)
  /\ jobs \subseteq Receipts
  /\ worker \in [Workers -> {Idle} \cup Job]
  /\ faults \in 0..MaxFaults

-----------------------------------------------------------------------------
(* Rows.                                                                   *)

\* A sound receipt is of its type, and active, ended or not there.
LEMMA SoundReceipt ==
  ASSUME NEW d, Sound(d), NEW id \in Receipts
  PROVE d.rec[id] \in Receipt /\ Accounted(d.rec[id])
BY DEF Sound, Rows

\* One receipt has become another.
Replaced(d, e, id, r) ==
  /\ e \in Rows
  /\ e.inst = d.inst
  /\ e.rec[id] = r
  /\ \A x \in Receipts : x # id => e.rec[x] = d.rec[x]

\* The active receipt of an action ends: a running instance awaits nothing.
LEMMA Ended ==
  ASSUME NEW d, Sound(d), Awaited(d), NEW id \in Receipts, d.rec[id].status \in Active,
         NEW r, Accounted(r), r.status \in Terminal, NEW e, Replaced(d, e, id, r)
  PROVE Sound(e) /\ Keeps(d, e) /\ (e.inst.status = "Running" => NoneActive(e))
<1>1. Sound(e)
  BY DEF Sound, Replaced
<1>2. Keeps(d, e)
  BY DEF Keeps, Replaced, Active, Terminal
<1>3. ASSUME e.inst.status = "Running" PROVE NoneActive(e)
  <2>1. \A x \in Receipts : x # id => d.rec[x].status \notin Active
    BY <1>3 DEF Awaited, OneActive, NoneActive, Replaced
  <2> QED
    BY <2>1 DEF NoneActive, Replaced, Active, Terminal
<1> QED
  BY <1>1, <1>2, <1>3

\* An active receipt stays active: what the instance awaits is the same.
LEMMA StillActive ==
  ASSUME NEW d, Sound(d), Awaited(d), NEW id \in Receipts, d.rec[id].status \in Active,
         NEW r, Accounted(r), r.status \in Active, NEW e, Replaced(d, e, id, r)
  PROVE Sound(e) /\ Awaited(e) /\ Keeps(d, e)
<1>1. Sound(e)
  BY DEF Sound, Replaced
<1>2. Keeps(d, e)
  BY DEF Keeps, Replaced, Active, Terminal
<1>3. \A x \in Receipts : e.rec[x].status \in Active <=> d.rec[x].status \in Active
  BY DEF Replaced
<1>4. Awaited(e)
  BY <1>3 DEF Awaited, OneActive, NoneActive, Replaced
<1> QED
  BY <1>1, <1>2, <1>4

-----------------------------------------------------------------------------
(* _activate_stage.                                                        *)

\* What one call reaches are stages.
LEMMA ReachedTyped ==
  ASSUME NEW s \in Stages, NEW p \in Reached[s]
  PROVE p \in Stages \X BOOLEAN /\ p[1] \in Stages
BY DEF Reached

\* What an activation may do to sound rows in which nothing is awaited: it adds
\* a receipt or none, never revives an instance, and leaves what has ended.
Activated(d, e) ==
  /\ Sound(e)
  /\ Awaited(e)
  /\ Keeps(d, e)
  /\ e.inst.visit = d.inst.visit

\* Scheduling an action where nothing else is awaited.
LEMMA Scheduled ==
  ASSUME NEW d, Sound(d), d.inst.status = "Running" => NoneActive(d),
         NEW s \in Stages, Kind[s] = "Queued", NEW t \in Triggers, NEW e \in Schedule(d, s, t)
  PROVE Activated(d, e)
<1> DEFINE id == <<s, t>>
           made == [NoReceipt EXCEPT !.status = "Pending", !.due = TRUE]
           failed == [made EXCEPT !.status = "Failed"]
<1>1. id \in Receipts /\ id[1] = s
  BY DEF Receipts
<1>2. /\ made \in Receipt /\ Accounted(made) /\ made.status = "Pending"
      /\ failed \in Receipt /\ Accounted(failed) /\ failed.status = "Failed"
  <2>1. made.status = "Pending" /\ made.attempts = 0 /\ made.effects = 0 /\ made \in Receipt
    BY DEF NoReceipt, Receipt, Active
  <2>2. failed.status = "Failed" /\ failed.attempts = 0 /\ failed.effects = 0 /\ failed \in Receipt
    BY <2>1 DEF Receipt, Terminal
  <2> HIDE DEF made, failed
  <2> QED
    BY <2>1, <2>2, BoundTypes DEF Accounted
<1>3. CASE d.rec[id].status \in Active
  <2>1. e = d /\ d.inst.status # "Running"
    BY <1>1, <1>3 DEF Schedule, NoneActive
  <2> QED
    BY <2>1 DEF Activated, Awaited, Keeps
<1>4. CASE d.rec[id].status \notin Active
  <2>1. d.rec[id].status \notin Terminal
    BY <1>4 DEF Schedule
  <2>2. \/ e = [d EXCEPT !.inst.stage = s, !.rec[id] = made]
        \/ e = [d EXCEPT !.inst.stage = s, !.rec[id] = failed, !.inst.status = "Failed"]
    BY <1>4, <2>1 DEF Schedule
  <2> HIDE DEF made, failed, id
  <2>3. [d.rec EXCEPT ![id] = made] \in [Receipts -> Receipt]
    BY <1>1, <1>2 DEF Sound, Rows
  <2>4. [d.rec EXCEPT ![id] = failed] \in [Receipts -> Receipt]
    BY <1>1, <1>2 DEF Sound, Rows
  <2>5. CASE e = [d EXCEPT !.inst.stage = s, !.rec[id] = made]
    <3>1. /\ e \in Rows /\ e.inst.stage = s /\ e.inst.status = d.inst.status
          /\ e.inst.visit = d.inst.visit /\ e.rec = [d.rec EXCEPT ![id] = made]
      BY <2>3, <2>5 DEF Sound, Rows
    <3>2. e.rec[id] = made /\ \A x \in Receipts : x # id => e.rec[x] = d.rec[x]
      BY <1>1, <3>1 DEF Sound, Rows
    <3>3. Sound(e)
      BY <1>2, <3>1, <3>2 DEF Sound
    <3>4. Keeps(d, e)
      BY <2>1, <3>2 DEF Keeps
    <3>5. ASSUME e.inst.status = "Running" PROVE OneActive(e)
      BY <1>1, <1>2, <3>1, <3>2, <3>5 DEF OneActive, NoneActive, Active
    <3> QED
      BY <3>1, <3>3, <3>4, <3>5 DEF Activated, Awaited
  <2>6. CASE e = [d EXCEPT !.inst.stage = s, !.rec[id] = failed, !.inst.status = "Failed"]
    <3>1. /\ e \in Rows /\ e.inst.status = "Failed"
          /\ e.inst.visit = d.inst.visit /\ e.rec = [d.rec EXCEPT ![id] = failed]
      BY <2>4, <2>6 DEF Sound, Rows, Statuses
    <3>2. e.rec[id] = failed /\ \A x \in Receipts : x # id => e.rec[x] = d.rec[x]
      BY <1>1, <3>1 DEF Sound, Rows
    <3>3. Sound(e)
      BY <1>2, <3>1, <3>2 DEF Sound
    <3>4. Keeps(d, e)
      BY <2>1, <3>2 DEF Keeps
    <3> QED
      BY <3>1, <3>3, <3>4 DEF Activated, Awaited
  <2> QED
    BY <2>2, <2>5, <2>6
<1> QED
  BY <1>3, <1>4

\* Every way an activation may go.
LEMMA Activates ==
  ASSUME NEW d, Sound(d), d.inst.status = "Running" => NoneActive(d),
         NEW s \in Stages, NEW t \in Triggers, NEW byTask \in BOOLEAN,
         NEW e \in Activate(d, s, t, byTask)
  PROVE Activated(d, e)
<1>1. PICK p \in Reached[s] :
        LET x == p[1] IN
        \/ Kind[x] = "Person" /\ e = [d EXCEPT !.inst.stage = x]
        \/ Kind[x] = "End" /\ e = [d EXCEPT !.inst.stage = x, !.inst.status = "Completed"]
        \/ Kind[x] = "Queued" /\ e \in Schedule(d, x, TriggerAt(p, t, byTask))
        \/ e = [d EXCEPT !.inst.stage = x, !.inst.status = "Failed"]
  BY DEF Activate
<1>2. p[1] \in Stages
  BY ReachedTyped
<1>3. TriggerAt(p, t, byTask) \in Triggers
  BY BoundTypes DEF TriggerAt, Triggers
<1>4. CASE Kind[p[1]] = "Person" /\ e = [d EXCEPT !.inst.stage = p[1]]
  <2>1. /\ e \in Rows /\ e.rec = d.rec /\ e.inst.stage = p[1]
        /\ e.inst.status = d.inst.status /\ e.inst.visit = d.inst.visit
    BY <1>2, <1>4 DEF Sound, Rows
  <2> QED
    BY <1>4, <2>1 DEF Activated, Sound, Awaited, NoneActive, Keeps
<1>5. ASSUME NEW status \in {"Completed", "Failed"},
             e = [d EXCEPT !.inst.stage = p[1], !.inst.status = status]
      PROVE Activated(d, e)
  <2>1. /\ Sound(e) /\ e.rec = d.rec
        /\ e.inst.status = status /\ e.inst.visit = d.inst.visit
    <3>1. status \in Statuses
      BY DEF Statuses
    <3>2. /\ e.rec = d.rec /\ e \in Rows
          /\ e.inst.status = status /\ e.inst.visit = d.inst.visit
      BY <1>2, <1>5, <3>1 DEF Sound, Rows
    <3> QED
      BY <3>2 DEF Sound
  <2> QED
    BY <2>1 DEF Activated, Awaited, Keeps
<1>6. CASE Kind[p[1]] = "Queued" /\ e \in Schedule(d, p[1], TriggerAt(p, t, byTask))
  BY <1>2, <1>3, <1>6, Scheduled
<1> QED
  BY <1>1, <1>4, <1>5, <1>6

-----------------------------------------------------------------------------
(* What a worker and the dispatcher commit.                                *)

\* Effects are committed with the result, by the attempt that still counts.
LEMMA AdvanceSound ==
  ASSUME NEW d, Sound(d), Awaited(d), NEW id \in Receipts, d.rec[id].status = "Running",
         NEW e \in Advance(d, id)
  PROVE Sound(e) /\ Awaited(e) /\ Keeps(d, e)
<1> DEFINE r == [d.rec[id] EXCEPT !.status = "Succeeded", !.effects = d.rec[id].effects + 1]
           x == [d EXCEPT !.rec[id].status = "Succeeded", !.rec[id].effects = @ + 1]
<1>1. d.rec[id] \in Receipt /\ Accounted(d.rec[id])
  BY SoundReceipt
<1>2. r \in Receipt /\ Accounted(r) /\ r.status = "Succeeded"
  <2>1. d.rec[id].effects = 0
    BY <1>1 DEF Accounted
  <2>2. r.status = "Succeeded" /\ r.effects = 1 /\ r.attempts = d.rec[id].attempts
    BY <1>1, <2>1 DEF Receipt
  <2>3. r \in Receipt
    <3>1. "Succeeded" \in {"None"} \cup Active \cup Terminal
      BY DEF Terminal
    <3>2. d.rec[id].effects + 1 \in Nat
      BY <2>1
    <3> QED
      BY <1>1, <3>1, <3>2 DEF Receipt
  <2> HIDE DEF r
  <2> QED
    BY <1>1, <2>2, <2>3 DEF Accounted
<1>3. x = [d EXCEPT !.rec = [d.rec EXCEPT ![id] = r]]
  BY <1>1 DEF Sound, Rows, Receipt
<1>4. PICK s \in Success[id[1]] : e \in Activate(x, s, id[2], FALSE)
  BY DEF Advance
<1>5. s \in Stages /\ id[2] \in Triggers
  BY GraphTypes, <1>4 DEF Receipts
<1> HIDE DEF r, x
<1>6. [d.rec EXCEPT ![id] = r] \in [Receipts -> Receipt]
  BY <1>2 DEF Sound, Rows
<1>7. Replaced(d, x, id, r)
  BY <1>3, <1>6 DEF Replaced, Sound, Rows
<1>8. Sound(x) /\ Keeps(d, x) /\ (x.inst.status = "Running" => NoneActive(x))
  BY <1>2, <1>7, Ended DEF Active, Terminal
<1>9. Activated(x, e)
  BY <1>4, <1>5, <1>8, Activates
<1> QED
  BY <1>8, <1>9 DEF Activated, Keeps

\* The receipt of an attempt has failed.
LEMMA FailingSound ==
  ASSUME NEW d, Sound(d), Awaited(d), NEW id \in Receipts, d.rec[id].status = "Running"
  PROVE LET x == Failing(d, id) IN
          /\ Sound(x) /\ Keeps(d, x) /\ x.inst = d.inst
          /\ x.inst.status = "Running" => NoneActive(x)
<1> DEFINE r == [d.rec[id] EXCEPT !.status = "Failed"]
           x == Failing(d, id)
<1>1. d.rec[id] \in Receipt /\ Accounted(d.rec[id])
  BY SoundReceipt
<1>2. r \in Receipt /\ Accounted(r) /\ r.status = "Failed"
  BY <1>1 DEF Receipt, Accounted, Terminal
<1>3. x = [d EXCEPT !.rec = [d.rec EXCEPT ![id] = r]]
  BY <1>1 DEF Failing, Sound, Rows, Receipt
<1> HIDE DEF r, x
<1>4. [d.rec EXCEPT ![id] = r] \in [Receipts -> Receipt]
  BY <1>2 DEF Sound, Rows
<1>5. Replaced(d, x, id, r)
  BY <1>3, <1>4 DEF Replaced, Sound, Rows
<1>6. Sound(x) /\ Keeps(d, x) /\ (x.inst.status = "Running" => NoneActive(x))
  BY <1>2, <1>5, Ended DEF Active, Terminal
<1> QED
  BY <1>5, <1>6 DEF x, Replaced

\* The last failure: the Error route, or a failed instance.
LEMMA FinalFailureSound ==
  ASSUME NEW d, Sound(d), Awaited(d), NEW id \in Receipts, d.rec[id].status = "Running",
         NEW e \in FinalFailure(Failing(d, id), id)
  PROVE Sound(e) /\ Awaited(e) /\ Keeps(d, e)
<1> DEFINE x == Failing(d, id)
<1>1. Sound(x) /\ Keeps(d, x) /\ (x.inst.status = "Running" => NoneActive(x))
  BY FailingSound
<1>2. \/ e = [x EXCEPT !.inst.status = "Failed"]
      \/ \E s \in Error[id[1]] : e \in Activate(x, s, id[2], FALSE)
  BY DEF FinalFailure
<1> HIDE DEF x
<1>3. CASE e = [x EXCEPT !.inst.status = "Failed"]
  <2>1. e \in Rows /\ e.rec = x.rec /\ e.inst.status = "Failed"
    BY <1>1, <1>3 DEF Sound, Rows, Statuses
  <2> QED
    BY <1>1, <2>1 DEF Sound, Awaited, Keeps
<1>4. CASE \E s \in Error[id[1]] : e \in Activate(x, s, id[2], FALSE)
  <2>1. PICK s \in Error[id[1]] : e \in Activate(x, s, id[2], FALSE)
    BY <1>4
  <2>2. s \in Stages /\ id[2] \in Triggers
    BY GraphTypes, <2>1 DEF Receipts
  <2>3. Activated(x, e)
    BY <1>1, <2>1, <2>2, Activates
  <2> QED
    BY <1>1, <2>3 DEF Activated, Keeps
<1> QED
  BY <1>2, <1>3, <1>4

\* A failure that leaves an attempt.
LEMMA RetryingSound ==
  ASSUME NEW d, Sound(d), Awaited(d), NEW id \in Receipts, d.rec[id].status = "Running",
         NEW transient \in BOOLEAN, MayRetry(d.rec[id].attempts, transient)
  PROVE LET e == Retrying(d, id) IN Sound(e) /\ Awaited(e) /\ Keeps(d, e)
<1> DEFINE r == [d.rec[id] EXCEPT !.status = "Retry Pending", !.due = FALSE]
           e == Retrying(d, id)
<1>1. d.rec[id] \in Receipt /\ Accounted(d.rec[id])
  BY SoundReceipt
<1>2. r \in Receipt /\ r.status = "Retry Pending"
  BY <1>1 DEF Receipt, Active
<1>3. Accounted(r)
  BY <1>1, BoundTypes DEF Receipt, Accounted, MayRetry
<1>4. e = [d EXCEPT !.rec = [d.rec EXCEPT ![id] = r]]
  BY <1>1 DEF Retrying, Sound, Rows, Receipt
<1> HIDE DEF r, e
<1>5. [d.rec EXCEPT ![id] = r] \in [Receipts -> Receipt]
  BY <1>2 DEF Sound, Rows
<1>6. Replaced(d, e, id, r)
  BY <1>4, <1>5 DEF Replaced, Sound, Rows
<1>7. Sound(e) /\ Awaited(e) /\ Keeps(d, e)
  BY <1>2, <1>3, <1>6, StillActive DEF Active
<1> QED
  BY <1>7 DEF e

\* An active receipt the instance does not wait for belongs to one that has ended.
LEMMA Pointless ==
  ASSUME NEW d, Awaited(d), NEW id \in Receipts, d.rec[id].status \in Active, ~Waits(d, id)
  PROVE d.inst.status # "Running"
BY DEF Awaited, OneActive, NoneActive, Waits

-----------------------------------------------------------------------------
(* The invariant, step by step.                                            *)

\* The rows after a step.
Kept == Sound(db') /\ Awaited(db') /\ Keeps(db, db')

\* Nothing but jobs, workers and faults.
LEMMA RowsUnchanged == ASSUME IInv, db' = db PROVE Kept
BY DEF IInv, Kept, Keeps, Sound, Awaited, OneActive, NoneActive

\* The attempt is counted before it is made.
LEMMA TakeSound ==
  ASSUME IInv, NEW w \in Workers, NEW id \in Receipts, Take(w, id)
  PROVE IInv' /\ Kept
<1>1. faults' = faults /\ jobs' \subseteq Receipts
  BY DEF Take, IInv
<1>2. CASE Claimable(db.rec[id])
  <2> DEFINE r == [db.rec[id] EXCEPT !.attempts = db.rec[id].attempts + 1, !.status = "Running"]
  <2>1. db.rec[id] \in Receipt /\ Accounted(db.rec[id])
    BY SoundReceipt DEF IInv
  <2>2. db.rec[id].status \in Active /\ db.rec[id].attempts <= ExtraAttempts
    <3>1. db.rec[id].status \in {"Pending", "Retry Pending"}
      BY <1>2 DEF Claimable
    <3>2. db.rec[id].status \in Active
      BY <3>1 DEF Active
    <3>3. CASE db.rec[id].status = "Pending"
      BY <2>1, <3>2, <3>3, BoundTypes DEF Accounted
    <3>4. CASE db.rec[id].status = "Retry Pending"
      BY <2>1, <3>2, <3>4 DEF Accounted
    <3> QED
      BY <3>1, <3>2, <3>3, <3>4
  <2>3. r.status = "Running" /\ r.effects = db.rec[id].effects /\ r.attempts = db.rec[id].attempts + 1
    BY <2>1 DEF Receipt
  <2>4. r \in Receipt
    <3>1. "Running" \in {"None"} \cup Active \cup Terminal
      BY DEF Active
    <3>2. db.rec[id].attempts + 1 \in Nat
      BY <2>1 DEF Receipt
    <3> QED
      BY <2>1, <3>1, <3>2 DEF Receipt
  <2>5. db' = [db EXCEPT !.rec = [db.rec EXCEPT ![id] = r]]
    BY <1>2, <2>1 DEF Take, IInv, Sound, Rows, Receipt
  <2> HIDE DEF r
  <2>6. Accounted(r)
    <3>1. db.rec[id].attempts \in Nat /\ db.rec[id].effects = 0
      BY <2>1, <2>2 DEF Accounted, Active, Receipt
    <3>2. r.attempts <= ExtraAttempts + 1
      BY <2>2, <2>3, <3>1, BoundTypes
    <3> QED
      BY <2>3, <3>1, <3>2 DEF Accounted
  <2>7. [db.rec EXCEPT ![id] = r] \in [Receipts -> Receipt]
    BY <2>4 DEF IInv, Sound, Rows
  <2>8. Replaced(db, db', id, r)
    BY <2>5, <2>7 DEF Replaced, IInv, Sound, Rows
  <2>9. Kept
    BY <2>2, <2>3, <2>6, <2>8, StillActive DEF Kept, IInv, Active
  <2>10. [pc |-> "claimed", id |-> id, transient |-> FALSE] \in Job
    BY DEF Job
  <2>11. worker' \in [Workers -> {Idle} \cup Job]
    BY <1>2, <2>10 DEF Take, IInv
  <2> QED
    BY <1>1, <2>9, <2>11 DEF IInv, Kept
<1>3. CASE ~Claimable(db.rec[id])
  <2>1. db' = db /\ worker' = worker
    BY <1>3 DEF Take
  <2> QED
    BY <1>1, <2>1, RowsUnchanged DEF IInv, Kept
<1> QED
  BY <1>2, <1>3

\* A worker that has a job is at one of its receipts.
LEMMA AtReceipt ==
  ASSUME IInv, NEW w \in Workers, worker[w].pc # "idle"
  PROVE worker[w] \in Job /\ worker[w].id \in Receipts /\ worker[w].transient \in BOOLEAN
BY DEF IInv, Job, Idle

\* A worker that is done holds nothing.
LEMMA Released ==
  ASSUME IInv, NEW w \in Workers, Release(w)
  PROVE worker' \in [Workers -> {Idle} \cup Job]
BY DEF IInv, Release

\* The second transaction.
LEMMA WorkSound == ASSUME IInv, NEW w \in Workers, Work(w) PROVE IInv' /\ Kept
<1> DEFINE id == worker[w].id
<1>1. id \in Receipts /\ jobs' = jobs /\ faults' = faults /\ Release(w)
  BY AtReceipt DEF Work
<1>2. Kept
  <2>1. CASE ~StillRunning(db, id)
    BY <2>1, RowsUnchanged DEF Work
  <2>2. CASE StillRunning(db, id) /\ ~Waits(db, id)
    <3> DEFINE r == [db.rec[id] EXCEPT !.status = "Cancelled"]
    <3>1. db.rec[id] \in Receipt /\ Accounted(db.rec[id])
      BY <1>1, SoundReceipt DEF IInv
    <3>2. r \in Receipt /\ Accounted(r) /\ r.status = "Cancelled"
      BY <2>2, <3>1 DEF Receipt, Accounted, Terminal, StillRunning
    <3>3. db' = [db EXCEPT !.rec = [db.rec EXCEPT ![id] = r]]
      BY <2>2, <3>1 DEF Work, IInv, Sound, Rows, Receipt
    <3>4. db.rec[id].status \in Active
      BY <2>2 DEF StillRunning, Active
    <3> HIDE DEF r, id
    <3>5. [db.rec EXCEPT ![id] = r] \in [Receipts -> Receipt]
      BY <3>2 DEF IInv, Sound, Rows
    <3>6. Replaced(db, db', id, r)
      BY <1>1, <3>3, <3>5 DEF Replaced, IInv, Sound, Rows
    <3>7. Sound(db') /\ Keeps(db, db') /\ (db'.inst.status = "Running" => NoneActive(db'))
      BY <1>1, <3>2, <3>4, <3>6, Ended DEF IInv, Terminal
    <3>8. db.inst.status # "Running"
      BY <1>1, <2>2, <3>4, Pointless DEF IInv
    <3> QED
      BY <3>6, <3>7, <3>8 DEF Kept, Awaited, Replaced
  <2>3. CASE StillRunning(db, id) /\ Waits(db, id)
    <3>1. db' \in Advance(db, id) /\ db.rec[id].status = "Running"
      BY <2>3 DEF Work, StillRunning
    <3> QED
      BY <1>1, <3>1, AdvanceSound DEF IInv, Kept
  <2> QED
    BY <2>1, <2>2, <2>3
<1> QED
  BY <1>1, <1>2, Released DEF IInv, Kept

\* The third transaction.
LEMMA RecoverSound == ASSUME IInv, NEW w \in Workers, Recover(w) PROVE IInv' /\ Kept
<1> DEFINE id == worker[w].id
           transient == worker[w].transient
<1>1. /\ id \in Receipts /\ transient \in BOOLEAN
      /\ jobs' = jobs /\ faults' = faults /\ Release(w)
  BY AtReceipt DEF Recover
<1>2. \/ db' = db
      \/ db.rec[id].status = "Running" /\ db' \in RecordFailure(db, id, transient)
  BY DEF Recover, StillRunning
<1> HIDE DEF id, transient
<1>3. Kept
  <2>1. CASE db' = db
    BY <2>1, RowsUnchanged
  <2>2. CASE db.rec[id].status = "Running" /\ db' \in RecordFailure(db, id, transient)
    <3>1. CASE MayRetry(db.rec[id].attempts, transient)
      <4>1. db' = Retrying(db, id)
        BY <2>2, <3>1 DEF RecordFailure
      <4> QED
        BY <1>1, <2>2, <3>1, <4>1, RetryingSound DEF IInv, Kept
    <3>2. CASE ~MayRetry(db.rec[id].attempts, transient)
      <4>1. db' \in FinalFailure(Failing(db, id), id)
        BY <2>2, <3>2 DEF RecordFailure
      <4> QED
        BY <1>1, <2>2, <4>1, FinalFailureSound DEF IInv, Kept
    <3> QED
      BY <3>1, <3>2
  <2> QED
    BY <1>2, <2>1, <2>2
<1> QED
  BY <1>1, <1>3, Released DEF IInv, Kept

\* The failure the dispatcher records.
LEMMA InterruptedSound ==
  ASSUME IInv, NEW id \in Receipts, RecoverInterrupted(id) PROVE IInv' /\ Kept
<1>1. /\ db.rec[id].status = "Running" /\ db' \in RecordInterrupted(db, id)
      /\ jobs' = jobs /\ faults' = faults /\ worker' = worker
  BY DEF RecoverInterrupted, Interrupted
<1>2. Kept
  <2>1. CASE MayRetry(db.rec[id].attempts, TRUE)
    <3>1. db' = Retrying(db, id)
      BY <1>1, <2>1 DEF RecordInterrupted
    <3> QED
      BY <1>1, <2>1, <3>1, RetryingSound DEF IInv, Kept
  <2>2. CASE ~MayRetry(db.rec[id].attempts, TRUE) /\ Waits(db, id)
    <3>1. db' \in FinalFailure(Failing(db, id), id)
      BY <1>1, <2>2 DEF RecordInterrupted
    <3> QED
      BY <1>1, <3>1, FinalFailureSound DEF IInv, Kept
  <2>3. CASE ~MayRetry(db.rec[id].attempts, TRUE) /\ ~Waits(db, id)
    <3>1. db' = Failing(db, id)
      BY <1>1, <2>3 DEF RecordInterrupted
    <3>2. db.inst.status # "Running"
      BY <1>1, <2>3, Pointless DEF IInv, Active
    <3> QED
      BY <1>1, <3>1, <3>2, FailingSound DEF IInv, Kept, Awaited
  <2> QED
    BY <2>1, <2>2, <2>3
<1> QED
  BY <1>1, <1>2 DEF IInv, Kept

\* The clock.
LEMMA ElapseSound == ASSUME IInv, NEW id \in Receipts, Elapse(id) PROVE IInv' /\ Kept
<1> DEFINE r == [db.rec[id] EXCEPT !.due = TRUE]
<1>1. db.rec[id] \in Receipt /\ Accounted(db.rec[id]) /\ db.rec[id].status = "Retry Pending"
  BY SoundReceipt DEF IInv, Elapse
<1>2. r \in Receipt /\ Accounted(r) /\ r.status = "Retry Pending"
  BY <1>1 DEF Receipt, Accounted
<1>3. db' = [db EXCEPT !.rec = [db.rec EXCEPT ![id] = r]]
  BY <1>1 DEF Elapse, IInv, Sound, Rows, Receipt
<1> HIDE DEF r
<1>4. [db.rec EXCEPT ![id] = r] \in [Receipts -> Receipt]
  BY <1>2 DEF IInv, Sound, Rows
<1>5. Replaced(db, db', id, r)
  BY <1>3, <1>4 DEF Replaced, IInv, Sound, Rows
<1>6. Kept
  BY <1>1, <1>2, <1>5, StillActive DEF Kept, IInv, Active
<1> QED
  BY <1>6 DEF Elapse, IInv, Kept

\* A person decides where nothing is awaited.
LEMMA DecideSound == ASSUME IInv, Decide PROVE IInv' /\ Kept
<1> DEFINE d == [db EXCEPT !.inst.visit = db.inst.visit + 1]
<1>1. PICK s \in Success[db.inst.stage] : db' \in Activate(d, s, d.inst.visit, TRUE)
  BY DEF Decide
<1>2. db \in Rows /\ db.inst.stage \in Stages /\ db.inst.visit \in Triggers
  BY DEF IInv, Sound, Rows
<1>3. db.inst.visit + 1 \in Triggers
  BY <1>2, BoundTypes DEF Decide, Triggers
<1>4. /\ d \in Rows /\ d.rec = db.rec /\ d.inst.visit = db.inst.visit + 1
  BY <1>2, <1>3 DEF Rows
<1>5. NoneActive(db)
  BY DEF Decide, IInv, Awaited
<1>6. s \in Stages
  BY <1>1, <1>2, GraphTypes
<1> HIDE DEF d
<1>7. Sound(d) /\ NoneActive(d) /\ Keeps(db, d)
  BY <1>4, <1>5 DEF IInv, Sound, NoneActive, Keeps
<1>8. Activated(d, db')
  BY <1>1, <1>3, <1>4, <1>6, <1>7, Activates
<1>9. Kept
  BY <1>7, <1>8 DEF Activated, Kept, Keeps
<1> QED
  BY <1>9 DEF Decide, IInv, Kept

\* The requester withdraws the request.
LEMMA CancelSound == ASSUME IInv, Cancel PROVE IInv' /\ Kept
<1>1. db' \in Rows /\ db'.rec = db.rec /\ db'.inst.status = "Cancelled"
  BY DEF Cancel, IInv, Sound, Rows, Statuses
<1>2. Kept
  BY <1>1 DEF IInv, Kept, Sound, Awaited, Keeps
<1> QED
  BY <1>2 DEF Cancel, IInv, Kept

\* Steps that leave the rows alone.
LEMMA OthersSound ==
  ASSUME IInv, \/ \E w \in Workers : Kill(w) \/ \E transient \in BOOLEAN : Raise(w, transient)
               \/ \E id \in Receipts : LoseJob(id) \/ Enqueue(id)
               \/ UNCHANGED vars
  PROVE IInv' /\ Kept
<1>1. db' = db
  BY DEF Kill, Raise, LoseJob, Enqueue, vars
<1>2. Kept
  BY <1>1, RowsUnchanged
<1>3. jobs' \subseteq Receipts
  BY DEF Kill, Raise, LoseJob, Enqueue, vars, IInv
<1>4. faults' \in 0..MaxFaults
  <2>1. faults' = faults \/ (faults < MaxFaults /\ faults' = faults + 1)
    BY DEF Kill, Raise, LoseJob, Enqueue, vars
  <2> QED
    BY <2>1, BoundTypes DEF IInv
<1>5. worker' \in [Workers -> {Idle} \cup Job]
  <2>1. CASE \E w \in Workers : Kill(w)
    BY <2>1, Released DEF Kill
  <2>2. CASE \E w \in Workers, transient \in BOOLEAN : Raise(w, transient)
    <3>1. PICK w \in Workers, transient \in BOOLEAN : Raise(w, transient)
      BY <2>2
    <3>2. worker[w] \in Job
      BY <3>1, AtReceipt DEF Raise
    <3>3. [worker[w] EXCEPT !.pc = "raised", !.transient = transient] \in Job
      BY <3>2 DEF Job
    <3> QED
      BY <3>1, <3>3 DEF Raise, IInv
  <2>3. CASE UNCHANGED worker
    BY <2>3 DEF IInv
  <2> QED
    BY <2>1, <2>2, <2>3 DEF LoseJob, Enqueue, vars
<1> QED
  BY <1>2, <1>3, <1>4, <1>5 DEF IInv, Kept

\* The first activation.
LEMMA InitSound == Init => IInv
<1> SUFFICES ASSUME Init PROVE IInv
  OBVIOUS
<1>1. NoReceipt \in Receipt /\ Accounted(NoReceipt) /\ NoReceipt.status = "None"
  BY BoundTypes DEF NoReceipt, Receipt, Accounted
<1>2. 0 \in Triggers
  BY BoundTypes DEF Triggers
<1>3. /\ Blank \in Rows /\ \A id \in Receipts : Blank.rec[id] = NoReceipt
  BY <1>1, <1>2, GraphTypes DEF Blank, Rows, Statuses
<1>4. Sound(Blank) /\ NoneActive(Blank)
  BY <1>1, <1>3 DEF Sound, NoneActive, Active
<1>5. db \in Activate(Blank, First, 0, FALSE)
  BY DEF Init
<1>6. Activated(Blank, db)
  BY <1>2, <1>4, <1>5, GraphTypes, Activates
<1>7. /\ jobs \subseteq Receipts /\ worker \in [Workers -> {Idle} \cup Job]
      /\ faults \in 0..MaxFaults
  BY BoundTypes DEF Init
<1> QED
  BY <1>6, <1>7 DEF Activated, IInv

\* Every step.
LEMMA StepSound == IInv /\ [Next]_vars => IInv' /\ Kept
<1> SUFFICES ASSUME IInv, [Next]_vars PROVE IInv' /\ Kept
  OBVIOUS
<1>1. ASSUME NEW w \in Workers, Perform(w) PROVE IInv' /\ Kept
  BY <1>1, WorkSound, RecoverSound, OthersSound DEF Perform
<1>2. ASSUME NEW w \in Workers, NEW id \in Receipts, Take(w, id) PROVE IInv' /\ Kept
  BY <1>2, TakeSound
<1>3. ASSUME NEW w \in Workers, Kill(w) PROVE IInv' /\ Kept
  BY <1>3, OthersSound
<1>4. ASSUME NEW id \in Receipts, LoseJob(id) \/ Enqueue(id) PROVE IInv' /\ Kept
  BY <1>4, OthersSound
<1>5. ASSUME NEW id \in Receipts, Elapse(id) PROVE IInv' /\ Kept
  BY <1>5, ElapseSound
<1>6. ASSUME NEW id \in Receipts, RecoverInterrupted(id) PROVE IInv' /\ Kept
  BY <1>6, InterruptedSound
<1>7. CASE Decide
  BY <1>7, DecideSound
<1>8. CASE Cancel
  BY <1>8, CancelSound
<1>9. CASE UNCHANGED vars
  BY <1>9, OthersSound
<1> QED
  BY <1>1, <1>2, <1>3, <1>4, <1>5, <1>6, <1>7, <1>8, <1>9 DEF Next

-----------------------------------------------------------------------------
(* Theorems.                                                               *)

\* The invariant is inductive.
THEOREM Invariance == Spec => []IInv
<1>1. Init => IInv
  BY InitSound
<1>2. IInv /\ [Next]_vars => IInv'
  BY StepSound
<1> QED
  BY <1>1, <1>2, PTL DEF Spec

\* The invariant is enough for rows of their type and effects within the budget.
LEMMA InBudget == IInv => EffectsInBudget
<1> SUFFICES ASSUME IInv PROVE EffectsInBudget
  OBVIOUS
<1>1. db \in Rows /\ \A id \in Receipts : Accounted(db.rec[id])
  BY DEF IInv, Sound
<1>2. Triggers \subseteq Nat
  BY BoundTypes DEF Triggers
<1>3. db \in [inst : Instance, rec : [Receipts -> Receipt]]
  BY <1>1, <1>2 DEF Rows, Instance, Statuses
<1>4. TypeOK
  BY <1>3 DEF TypeOK, IInv
<1> QED
  BY <1>1, <1>4 DEF EffectsInBudget, EffectsExactlyOnce, WithinBudget, Accounted

\* Rows keep their type, an action's effects are committed exactly when its
\* receipt succeeds and never twice, and no receipt has more attempts than its
\* budget: whatever workers are killed, given up or come back late (run,
\* dispatch).
THEOREM EffectsInBudgetHolds == Spec => []EffectsInBudget
<1>1. Spec => []IInv
  BY Invariance
<1> QED
  BY <1>1, InBudget, PTL

\* The invariant is enough for the instance to wait for a receipt.
LEMMA Waiting == IInv => WaitsForReceipt
<1> SUFFICES ASSUME IInv, db.inst.status = "Running", Kind[db.inst.stage] = "Queued"
             PROVE Cardinality({id \in Receipts : id[1] = db.inst.stage /\ db.rec[id].status \in Active}) = 1
  BY DEF WaitsForReceipt
<1>1. OneActive(db)
  BY DEF IInv, Awaited
<1>2. PICK id \in Receipts : /\ id[1] = db.inst.stage
                             /\ \A x \in Receipts : db.rec[x].status \in Active <=> x = id
  BY <1>1 DEF OneActive
<1>3. {x \in Receipts : x[1] = db.inst.stage /\ db.rec[x].status \in Active} = {id}
  BY <1>2
<1> QED
  BY <1>3, FS_Singleton

\* A running instance at a queued action has one active receipt that stands for
\* it: some worker will move it on (_activate_stage, schedule, _final_failure).
THEOREM WaitsForReceiptHolds == Spec => []WaitsForReceipt
<1>1. Spec => []IInv
  BY Invariance
<1> QED
  BY <1>1, Waiting, PTL

\* A receipt that has ended keeps its result, its attempts and its effects: no
\* worker that comes back, retry or recovery changes it (run, dispatch).
THEOREM ResultsStandHolds == Spec => ResultsStand
<1>1. Spec => []IInv
  BY Invariance
<1>2. IInv /\ [Next]_vars =>
        [\A id \in Receipts : db.rec[id].status \in Terminal => db'.rec[id] = db.rec[id]]_vars
  BY StepSound DEF Kept, Keeps
<1> QED
  BY <1>1, <1>2, PTL DEF Spec, ResultsStand
=============================================================================
