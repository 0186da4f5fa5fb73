--------------------------- MODULE SetupResetProofs ---------------------------
(***************************************************************************)
(* The reset of a site does what was confirmed and says what it did, for   *)
(* any number of writes, previews, jobs and clients that ask.              *)
(*                                                                         *)
(* The argument: from the moment the barrier is up no writer passes its    *)
(* last look, so what is deleted differs from what was shown by the writes *)
(* that were past theirs (AtWork).  A job that failed, unless its request  *)
(* said so when a worker had it, is not waiting and never will be again,   *)
(* so it cannot be committed (FailedEnds).                                 *)
(***************************************************************************)
EXTENDS SetupReset, FiniteSetTheorems, TLAPS

-----------------------------------------------------------------------------
(* The invariant.                                                          *)

AJob == [job : Jobs, step : {"taken", "read", "delete", "settle"}, digest : Nat, passed : Nat]

Typed ==
  /\ data \in Nat /\ blocked \in BOOLEAN /\ writing \in Nat /\ busy \in 0..MaxJobs /\ latest \in 0..MaxJobs
  /\ durable \subseteq Jobs /\ told \subseteq Jobs /\ overtaken \subseteq Jobs
  /\ receiptOf \in [Jobs -> Receipt] /\ queue \in [Jobs -> {"none", "queued", "started", "over"}]
  /\ run = NotRunning \/ run \in AJob
  /\ confirming = NotConfirming \/ confirming \in [job : Jobs, step : {"queued", "failed"}]

\* Every change of the data is a write within the bound, or a reset.
Counted == data + writing <= MaxWrites + Cardinality(durable)

Tokens ==
  /\ previews \in Seq(Nat) /\ accepted \in Seq(0..MaxJobs)
  /\ Len(accepted) = Len(previews)

\* Jobs are numbered as they are confirmed, and one that is committed was taken.
Numbered ==
  /\ \A j \in Jobs : j > latest =>
       queue[j] = "none" /\ receiptOf[j].state = "none" /\ j \notin durable /\ j \notin told
  /\ \A j \in durable : Taken(j)
  /\ confirming # NotConfirming => confirming.job <= latest
  /\ confirming.step = "queued" => queue[confirming.job] = "none"

\* A token was exchanged for the job, and showed that digest.
Shown(j, digest) == \E t \in 1..Len(previews) : accepted[t] = j /\ previews[t] = digest

\* A job in progress has the digest of the preview it was confirmed on.
Confirmed == \A j \in Jobs : InProgress(j) => Shown(j, receiptOf[j].digest)

\* What the worker at a job can rely on.
AtWork ==
  run # NotRunning =>
    /\ queue[run.job] = "started" /\ receiptOf[run.job].digest = run.digest /\ Shown(run.job, run.digest)
    /\ run.step # "taken" => busy = run.job
    /\ run.step \in {"read", "delete"} => writing <= run.passed
    /\ run.step = "delete" => run.digest <= data /\ data + writing <= run.digest + run.passed
    /\ run.step = "settle" <=> run.job \in durable

\* Not committed, and nobody will take it any more.
Doomed(j) ==
  /\ j \notin durable /\ j <= latest
  /\ queue[j] = "over" \/ (queue[j] \in {"none", "queued"} /\ receiptOf[j].state # "queued")

FailedEnds ==
  \A j \in Jobs \ overtaken : receiptOf[j].state = "failed" \/ j \in told => Doomed(j)

\* Who asks, asks for a job that was confirmed.
Asks ==
  /\ DOMAIN asking = Askers
  /\ \A c \in Askers :
       asking[c] # NotAsking =>
         /\ asking[c] \in [job : Jobs, state : {"reading", "waiting"}]
         /\ asking[c].job <= latest

\* The inductive invariant.
ResetInv ==
  /\ Typed /\ Counted /\ Tokens /\ Numbered /\ Confirmed /\ AtWork /\ FailedEnds /\ Asks

-----------------------------------------------------------------------------
(* Counting.                                                               *)

\* The durable receipts are of jobs, so there are no more of them than jobs.
LEMMA DurableCount ==
  ASSUME Typed
  PROVE  IsFiniteSet(durable) /\ Cardinality(durable) \in Nat /\ Cardinality(durable) <= MaxJobs
<1>1. IsFiniteSet(Jobs) /\ Cardinality(Jobs) = MaxJobs
  <2>1. MaxJobs \in Nat
    BY ResetBounds
  <2>2. Jobs = 1..MaxJobs
    BY DEF Jobs
  <2>3. IsFiniteSet(1..MaxJobs) /\ Cardinality(1..MaxJobs) = IF 1 > MaxJobs THEN 0 ELSE MaxJobs - 1 + 1
    BY <2>1, FS_Interval
  <2> QED
    BY <2>1, <2>2, <2>3
<1>2. durable \subseteq Jobs
  BY DEF Typed
<1> QED
  BY <1>1, <1>2, FS_Subset, FS_CardinalityType

\* The data are one of the versions a receipt may name.
LEMMA DataBounded ==
  ASSUME Typed, Counted
  PROVE  data \in 0..MaxWrites + MaxJobs
<1>1. Cardinality(durable) \in Nat /\ Cardinality(durable) <= MaxJobs
  BY DurableCount
<1>2. data \in Nat /\ writing \in Nat /\ data + writing <= MaxWrites + Cardinality(durable)
  BY DEF Typed, Counted
<1> QED
  BY <1>1, <1>2, ResetBounds

-----------------------------------------------------------------------------
(* What a step that touches one job leaves of the invariant.               *)

\* A job that is being run was confirmed.
LEMMA StartedConfirmed ==
  ASSUME Typed, Numbered, NEW j \in Jobs, queue[j] = "started"
  PROVE  j <= latest
<1>1. j \in Nat /\ latest \in Nat
  BY ResetBounds DEF Jobs, Typed
<1>2. ~(j > latest)
  BY DEF Numbered
<1> QED
  BY <1>1, <1>2

\* Setting a receipt keeps its digest and the other receipts.
LEMMA SavedIs ==
  ASSUME Typed, NEW j \in Jobs,
         NEW state \in {"queued", "running", "completed", "failed"}
  PROVE  /\ Saved(j, state) \in [Jobs -> Receipt]
         /\ Saved(j, state)[j] = [state |-> state, digest |-> receiptOf[j].digest]
         /\ \A i \in Jobs \ {j} : Saved(j, state)[i] = receiptOf[i]
<1>1. receiptOf \in [Jobs -> Receipt]
  BY DEF Typed
<1>2. [state |-> state, digest |-> receiptOf[j].digest] \in Receipt
  BY <1>1 DEF Receipt
<1> QED
  BY <1>1, <1>2 DEF Saved

\* The same, of a step that sets it.
LEMMA SavedNow ==
  ASSUME Typed, NEW j \in Jobs, NEW state \in {"queued", "running", "completed", "failed"},
         receiptOf' = Saved(j, state)
  PROVE  /\ receiptOf' \in [Jobs -> Receipt] /\ receiptOf'[j].state = state
         /\ \A i \in Jobs \ {j} : receiptOf'[i] = receiptOf[i]
         /\ \A i \in Jobs : receiptOf'[i].digest = receiptOf[i].digest
         /\ state \in {"completed", "failed"} =>
              \A i \in Jobs : InProgress(i)' => InProgress(i)
<1>0. /\ Saved(j, state) \in [Jobs -> Receipt] /\ \A i \in Jobs \ {j} : Saved(j, state)[i] = receiptOf[i]
      /\ Saved(j, state)[j] = [state |-> state, digest |-> receiptOf[j].digest]
  BY ONLY Typed, j \in Jobs, state \in {"queued", "running", "completed", "failed"}, SavedIs
<1>1. receiptOf' \in [Jobs -> Receipt] /\ \A i \in Jobs \ {j} : receiptOf'[i] = receiptOf[i]
  BY <1>0
<1>2. receiptOf'[j] = [state |-> state, digest |-> receiptOf[j].digest]
  BY <1>0
<1>3. \A i \in Jobs : receiptOf'[i].digest = receiptOf[i].digest
  BY <1>1, <1>2
<1> QED
  BY <1>1, <1>2, <1>3 DEF InProgress

\* What a token showed it shows for ever.
LEMMA ShownStays ==
  ASSUME Len(previews) \in Nat, Len(previews') = Len(previews) + 1,
         \A t \in 1..Len(previews) : previews'[t] = previews[t] /\ accepted'[t] = accepted[t],
         NEW j, NEW digest, Shown(j, digest)
  PROVE  \E t \in 1..Len(previews') : accepted'[t] = j /\ previews'[t] = digest
<1>1. PICK t \in 1..Len(previews) : accepted[t] = j /\ previews[t] = digest
  BY DEF Shown
<1> QED
  BY <1>1

\* A job stays confirmed while tokens stay exchanged and its digest as it is.
LEMMA ConfirmedStays ==
  ASSUME Confirmed, UNCHANGED <<previews, accepted>>,
         \A j \in Jobs : receiptOf'[j].state \in {"queued", "running"} =>
                           InProgress(j) /\ receiptOf'[j].digest = receiptOf[j].digest
  PROVE  Confirmed'
BY DEF Confirmed, InProgress, Shown, Jobs

\* Nothing that a worker relies on has changed.
LEMMA WorkStays ==
  ASSUME Typed, AtWork, UNCHANGED <<previews, accepted, durable, run, data, writing>>,
         run # NotRunning => /\ busy' = busy /\ queue'[run.job] = queue[run.job]
                             /\ receiptOf'[run.job].digest = receiptOf[run.job].digest
  PROVE  AtWork'
BY DEF AtWork, Shown

-----------------------------------------------------------------------------
(* The invariant holds at the start.                                       *)

LEMMA ResetStarts ==
  ResetInit => ResetInv
<1> SUFFICES ASSUME ResetInit PROVE ResetInv
  OBVIOUS
<1> USE ResetBounds DEF ResetInit
<1>1. Typed
  <2>1. NoReceipt \in Receipt
    BY DEF NoReceipt, Receipt
  <2>2. 0 \in 0..MaxJobs
    OBVIOUS
  <2> QED
    BY <2>1, <2>2 DEF Typed
<1>2. Counted
  BY FS_EmptySet DEF Counted
<1>3. Tokens
  BY DEF Tokens
<1>4. Numbered /\ Confirmed /\ AtWork /\ FailedEnds
  BY DEF Numbered, Confirmed, AtWork, FailedEnds, InProgress, NoReceipt, NotRunning, NotConfirming
<1>5. Asks
  BY DEF Asks
<1> QED
  BY <1>1, <1>2, <1>3, <1>4, <1>5 DEF ResetInv

-----------------------------------------------------------------------------
(* Every step keeps it.                                                    *)

LEMMA LookAgainKeeps ==
  ASSUME ResetInv, LookAgain
  PROVE  ResetInv'
<1> USE ResetBounds DEF LookAgain, MayCommit, requestVars, ResetInv
<1>1. Typed'
  BY DEF Typed, Jobs, Receipt, AJob, NotRunning, NotConfirming
<1>2. Counted'
  <2>1. Cardinality(durable) \in Nat
    BY DurableCount
  <2> QED
    BY <2>1 DEF Counted, Typed
<1>3. Tokens'
  BY DEF Tokens
<1>4. Numbered'
  BY DEF Typed, Numbered, Taken, Jobs, NotConfirming
<1>5. Confirmed'
  BY DEF Confirmed, InProgress, Shown, Jobs
<1>6. AtWork'
  BY DEF Typed, AtWork, Shown, AJob, NotRunning, Jobs
<1>7. FailedEnds'
  BY DEF Typed, FailedEnds, Doomed, Jobs
<1>8. Asks'
  BY DEF Typed, Asks, NotAsking, Jobs
<1> QED
  BY <1>1, <1>2, <1>3, <1>4, <1>5, <1>6, <1>7, <1>8 DEF ResetInv

LEMMA CommitWriteKeeps ==
  ASSUME ResetInv, CommitWrite
  PROVE  ResetInv'
<1> USE ResetBounds DEF CommitWrite, requestVars, ResetInv
<1>1. Typed'
  BY DEF Typed, Jobs, Receipt, AJob, NotRunning, NotConfirming
<1>2. Counted'
  BY DEF Counted, Typed
<1>3. Tokens'
  BY DEF Tokens
<1>4. Numbered'
  BY DEF Typed, Numbered, Taken, Jobs, NotConfirming
<1>5. Confirmed'
  BY DEF Confirmed, InProgress, Shown, Jobs
<1>6. AtWork'
  BY DEF Typed, AtWork, Shown, AJob, NotRunning, Jobs
<1>7. FailedEnds'
  BY DEF Typed, FailedEnds, Doomed, Jobs
<1>8. Asks'
  BY DEF Typed, Asks, NotAsking, Jobs
<1> QED
  BY <1>1, <1>2, <1>3, <1>4, <1>5, <1>6, <1>7, <1>8 DEF ResetInv

LEMMA PreviewKeeps ==
  ASSUME ResetInv, Preview
  PROVE  ResetInv'
<1> USE ResetBounds DEF Preview, requestVars, ResetInv
<1>1. Typed'
  BY DEF Typed, Jobs, Receipt, AJob, NotRunning, NotConfirming
<1>2. Counted'
  BY DEF Counted, Typed
<1>3. Tokens'
  BY DEF Tokens, Typed
<1>4. Numbered'
  BY DEF Typed, Numbered, Taken, Jobs, NotConfirming
<1>5. Confirmed'
  <2>1. \A t \in 1..Len(previews) : previews'[t] = previews[t] /\ accepted'[t] = accepted[t]
    BY DEF Tokens
  <2>2. Len(previews') = Len(previews) + 1 /\ Len(previews) \in Nat
    BY DEF Tokens
  <2>3. \A j \in Jobs : InProgress(j) => \E t \in 1..Len(previews') : accepted'[t] = j /\ previews'[t] = receiptOf[j].digest
    <3>1. Confirmed
      OBVIOUS
    <3> QED
      BY ONLY <2>1, <2>2, <3>1, ShownStays DEF Confirmed
  <2> QED
    BY <2>3 DEF Confirmed, InProgress, Shown, Jobs
<1>6. AtWork'
  <2>1. \A t \in 1..Len(previews) : previews'[t] = previews[t] /\ accepted'[t] = accepted[t]
    BY DEF Tokens
  <2>2. Len(previews') = Len(previews) + 1 /\ Len(previews) \in Nat
    BY DEF Tokens
  <2>3. run # NotRunning => \E t \in 1..Len(previews') : accepted'[t] = run.job /\ previews'[t] = run.digest
    <3>1. AtWork
      OBVIOUS
    <3> QED
      BY ONLY <2>1, <2>2, <3>1, ShownStays DEF AtWork
  <2> QED
    BY <2>3 DEF AtWork, Shown
<1>7. FailedEnds'
  BY DEF Typed, FailedEnds, Doomed, Jobs
<1>8. Asks'
  BY DEF Typed, Asks, NotAsking, Jobs
<1> QED
  BY <1>1, <1>2, <1>3, <1>4, <1>5, <1>6, <1>7, <1>8 DEF ResetInv

LEMMA PerformKeeps ==
  ASSUME ResetInv, NEW t \in DOMAIN previews, Perform(t)
  PROVE  ResetInv'
<1> USE ResetBounds DEF Perform, requestVars, ResetInv
<1>1. Typed'
  <2>1. data \in 0..MaxWrites + MaxJobs /\ latest + 1 \in Jobs
    BY DataBounded DEF Typed, Jobs
  <2>2. [state |-> "queued", digest |-> data] \in Receipt
    BY <2>1 DEF Receipt
  <2>3. receiptOf' \in [Jobs -> Receipt]
    BY <2>2 DEF Typed
  <2>4. confirming' \in [job : Jobs, step : {"queued", "failed"}] /\ latest' \in 0..MaxJobs
    BY <2>1 DEF Jobs
  <2> QED
    BY <2>3, <2>4 DEF Typed, Jobs, Receipt
<1>2. Counted'
  BY DEF Counted, Typed
<1>3. Tokens'
  <2>1. latest + 1 \in 0..MaxJobs
    BY DEF Typed
  <2> QED
    BY <2>1 DEF Tokens
<1>4. Numbered'
  BY DEF Typed, Numbered, Taken, Jobs, NotConfirming
<1>5. Confirmed'
  <2> DEFINE n == latest + 1
  <2>1. n \in Jobs
    BY DEF Typed, Jobs
  <2>2. receiptOf'[n].digest = data /\ \A j \in Jobs \ {n} : receiptOf'[j] = receiptOf[j]
    BY <2>1 DEF Typed
  <2>3. t \in 1..Len(previews) /\ previews' = previews /\ previews[t] = data
    BY DEF Tokens
  <2>4. accepted'[t] = n /\ \A s \in 1..Len(previews) \ {t} : accepted'[s] = accepted[s]
    BY <2>3 DEF Tokens
  <2>5. ASSUME NEW j \in Jobs, InProgress(j)'
        PROVE  Shown(j, receiptOf[j].digest)'
    <3>1. CASE j = n
      BY <3>1, <2>2, <2>3, <2>4 DEF Shown
    <3>2. CASE j # n
      <4>1. InProgress(j) /\ receiptOf'[j] = receiptOf[j]
        BY <2>2, <2>5, <3>2 DEF InProgress
      <4>2. PICK s \in 1..Len(previews) : accepted[s] = j /\ previews[s] = receiptOf[j].digest
        BY <4>1 DEF Confirmed, Shown
      <4>3. s # t
        BY <4>2 DEF Jobs
      <4> QED
        BY <4>1, <4>2, <4>3, <2>3, <2>4 DEF Shown
    <3> QED
      BY <3>1, <3>2
  <2> QED
    BY <2>5 DEF Confirmed, Jobs
<1>6. AtWork'
  <2> DEFINE n == latest + 1
  <2>1. n \in Jobs /\ queue[n] = "none"
    BY DEF Typed, Jobs, Numbered
  <2>2. ASSUME run # NotRunning
        PROVE  receiptOf'[run.job] = receiptOf[run.job] /\ Shown(run.job, run.digest)'
    <3>1. run.job \in Jobs /\ queue[run.job] = "started"
      BY <2>2 DEF Typed, AJob, AtWork
    <3>2. receiptOf'[run.job] = receiptOf[run.job]
      BY <2>1, <3>1 DEF Typed
    <3>3. PICK s \in 1..Len(previews) : accepted[s] = run.job /\ previews[s] = run.digest
      BY <2>2 DEF AtWork, Shown
    <3>4. s # t
      BY <3>1, <3>3 DEF Jobs
    <3>5. accepted'[s] = accepted[s]
      BY <3>3, <3>4 DEF Tokens
    <3> QED
      BY <3>2, <3>3, <3>5 DEF Shown
  <2> QED
    BY <2>2 DEF AtWork
<1>7. FailedEnds'
  <2> DEFINE n == latest + 1
  <2>1. n \in Jobs /\ n \notin told
    BY DEF Typed, Jobs, Numbered
  <2>2. receiptOf'[n].state = "queued" /\ \A j \in Jobs \ {n} : receiptOf'[j] = receiptOf[j]
    BY <2>1 DEF Typed
  <2> QED
    BY <2>1, <2>2 DEF FailedEnds, Doomed, Jobs, Typed
<1>8. Asks'
  BY DEF Typed, Asks, NotAsking, Jobs
<1> QED
  BY <1>1, <1>2, <1>3, <1>4, <1>5, <1>6, <1>7, <1>8 DEF ResetInv

LEMMA EnqueueKeeps ==
  ASSUME ResetInv, Enqueue
  PROVE  ResetInv'
<1> USE ResetBounds DEF Enqueue, requestVars, ResetInv
<1>1. Typed'
  <2>1. confirming \in [job : Jobs, step : {"queued", "failed"}]
    BY DEF Typed, NotConfirming
  <2>2. confirming' = NotConfirming \/ confirming' \in [job : Jobs, step : {"queued", "failed"}]
    BY <2>1
  <2>3. queue' \in [Jobs -> {"none", "queued", "started", "over"}]
    BY DEF Typed
  <2> QED
    BY <2>2, <2>3 DEF Typed, Jobs, Receipt
<1>2. Counted'
  BY DEF Counted, Typed
<1>3. Tokens'
  BY DEF Tokens
<1>4. Numbered'
  <2>1. confirming \in [job : Jobs, step : {"queued", "failed"}] /\ queue[confirming.job] = "none" /\ confirming.job <= latest
    BY DEF Typed, Numbered, NotConfirming
  <2>2. \A j \in Jobs \ {confirming.job} : queue'[j] = queue[j]
    BY DEF Typed
  <2>3. confirming' = NotConfirming \/ (confirming'.job = confirming.job /\ confirming'.step = "failed")
    BY <2>1
  <2> QED
    BY <2>1, <2>2, <2>3 DEF Typed, Numbered, Taken, Jobs, NotConfirming
<1>5. Confirmed'
  BY DEF Confirmed, InProgress, Shown, Jobs
<1>6. AtWork'
  <2>1. confirming \in [job : Jobs, step : {"queued", "failed"}] /\ queue[confirming.job] = "none"
    BY DEF Typed, Numbered, NotConfirming
  <2>2. run # NotRunning => queue'[run.job] = queue[run.job]
    BY <2>1 DEF Typed, AtWork, AJob
  <2> QED
    BY <2>2, WorkStays
<1>7. FailedEnds'
  <2>1. confirming \in [job : Jobs, step : {"queued", "failed"}] /\ queue[confirming.job] = "none"
    BY DEF Typed, Numbered, NotConfirming
  <2>2. \A j \in Jobs : queue'[j] = queue[j] \/ (queue[j] = "none" /\ queue'[j] = "queued")
    BY <2>1 DEF Typed
  <2> QED
    BY <2>2 DEF FailedEnds, Doomed, Jobs
<1>8. Asks'
  BY DEF Typed, Asks, NotAsking, Jobs
<1> QED
  BY <1>1, <1>2, <1>3, <1>4, <1>5, <1>6, <1>7, <1>8 DEF ResetInv

LEMMA SayFailedKeeps ==
  ASSUME ResetInv, SayFailed
  PROVE  ResetInv'
<1> USE ResetBounds DEF SayFailed, requestVars, ResetInv
<1>1. Typed'
  <2>1. confirming.job \in Jobs
    BY DEF Typed, AJob, Asks, NotRunning, NotConfirming, NotAsking
  <2>2. Typed /\ receiptOf' = Saved(confirming.job, "failed")
    OBVIOUS
  <2>3. /\ receiptOf' \in [Jobs -> Receipt] /\ receiptOf'[confirming.job].state = "failed"
        /\ \A j \in Jobs \ {confirming.job} : receiptOf'[j] = receiptOf[j]
        /\ \A j \in Jobs : receiptOf'[j].digest = receiptOf[j].digest
        /\ \A j \in Jobs : InProgress(j)' => InProgress(j)
    BY ONLY <2>1, <2>2, SavedNow
  <2> QED
    BY <2>1, <2>3 DEF Typed, Jobs, Receipt
<1>2. Counted'
  BY DEF Counted, Typed
<1>3. Tokens'
  BY DEF Tokens
<1>4. Numbered'
  <2>1. confirming.job \in Jobs
    BY DEF Typed, AJob, Asks, NotRunning, NotConfirming, NotAsking
  <2>2. Typed /\ receiptOf' = Saved(confirming.job, "failed")
    OBVIOUS
  <2>3. /\ receiptOf' \in [Jobs -> Receipt] /\ receiptOf'[confirming.job].state = "failed"
        /\ \A j \in Jobs \ {confirming.job} : receiptOf'[j] = receiptOf[j]
        /\ \A j \in Jobs : receiptOf'[j].digest = receiptOf[j].digest
        /\ \A j \in Jobs : InProgress(j)' => InProgress(j)
    BY ONLY <2>1, <2>2, SavedNow
  <2> QED
    BY <2>1, <2>3 DEF Typed, Numbered, Taken, Jobs, NotConfirming
<1>5. Confirmed'
  <2>1. confirming.job \in Jobs
    BY DEF Typed, AJob, Asks, NotRunning, NotConfirming, NotAsking
  <2>2. Typed /\ receiptOf' = Saved(confirming.job, "failed")
    OBVIOUS
  <2>3. /\ receiptOf' \in [Jobs -> Receipt] /\ receiptOf'[confirming.job].state = "failed"
        /\ \A j \in Jobs \ {confirming.job} : receiptOf'[j] = receiptOf[j]
        /\ \A j \in Jobs : receiptOf'[j].digest = receiptOf[j].digest
        /\ \A j \in Jobs : InProgress(j)' => InProgress(j)
    BY ONLY <2>1, <2>2, SavedNow
  <2> QED
    BY <2>3, ConfirmedStays DEF InProgress
<1>6. AtWork'
  <2>1. confirming.job \in Jobs
    BY DEF Typed, AJob, Asks, NotRunning, NotConfirming, NotAsking
  <2>2. Typed /\ receiptOf' = Saved(confirming.job, "failed")
    OBVIOUS
  <2>3. /\ receiptOf' \in [Jobs -> Receipt] /\ receiptOf'[confirming.job].state = "failed"
        /\ \A j \in Jobs \ {confirming.job} : receiptOf'[j] = receiptOf[j]
        /\ \A j \in Jobs : receiptOf'[j].digest = receiptOf[j].digest
        /\ \A j \in Jobs : InProgress(j)' => InProgress(j)
    BY ONLY <2>1, <2>2, SavedNow
  <2> QED
    BY <2>3, WorkStays DEF Typed, AJob
<1>7. FailedEnds'
  <2>1. confirming.job \in Jobs
    BY DEF Typed, AJob, Asks, NotRunning, NotConfirming, NotAsking
  <2>2. Typed /\ receiptOf' = Saved(confirming.job, "failed")
    OBVIOUS
  <2>3. /\ receiptOf' \in [Jobs -> Receipt] /\ receiptOf'[confirming.job].state = "failed"
        /\ \A j \in Jobs \ {confirming.job} : receiptOf'[j] = receiptOf[j]
        /\ \A j \in Jobs : receiptOf'[j].digest = receiptOf[j].digest
        /\ \A j \in Jobs : InProgress(j)' => InProgress(j)
    BY ONLY <2>1, <2>2, SavedNow
  <2>4. confirming.job <= latest /\ (confirming.job \notin overtaken' => ~Taken(confirming.job))
    BY DEF Numbered, NotConfirming
  <2>5. queue[confirming.job] \in {"none", "queued", "started", "over"}
    BY <2>1 DEF Typed
  <2>6. ASSUME NEW j \in Jobs, j = confirming.job, j \notin overtaken'
        PROVE  Doomed(j)'
    <3>1. confirming.job \in durable => Taken(confirming.job)
      BY DEF Numbered
    <3>2. UNCHANGED <<durable, latest, queue>>
      OBVIOUS
    <3> QED
      BY ONLY <2>3, <2>4, <2>5, <2>6, <3>1, <3>2 DEF Doomed, Taken
  <2>7. \A j \in Jobs \ {confirming.job} : Doomed(j) => Doomed(j)'
    BY <2>3 DEF Doomed
  <2> QED
    <3>1. told' = told /\ overtaken \subseteq overtaken' /\ FailedEnds
      OBVIOUS
    <3> QED
      BY ONLY <2>1, <2>3, <2>6, <2>7, <3>1 DEF FailedEnds, Jobs
<1>8. Asks'
  BY DEF Typed, Asks, NotAsking, Jobs
<1> QED
  BY <1>1, <1>2, <1>3, <1>4, <1>5, <1>6, <1>7, <1>8 DEF ResetInv

LEMMA AbandonKeeps ==
  ASSUME ResetInv, Abandon
  PROVE  ResetInv'
<1> USE ResetBounds DEF Abandon, requestVars, ResetInv
<1>1. Typed'
  BY DEF Typed, Jobs, Receipt, AJob, NotRunning, NotConfirming
<1>2. Counted'
  BY DEF Counted, Typed
<1>3. Tokens'
  BY DEF Tokens
<1>4. Numbered'
  BY DEF Typed, Numbered, Taken, Jobs, NotConfirming
<1>5. Confirmed'
  BY DEF Confirmed, InProgress, Shown, Jobs
<1>6. AtWork'
  BY DEF Typed, AtWork, Shown, AJob, NotRunning, Jobs
<1>7. FailedEnds'
  BY DEF Typed, FailedEnds, Doomed, Jobs
<1>8. Asks'
  BY DEF Typed, Asks, NotAsking, Jobs
<1> QED
  BY <1>1, <1>2, <1>3, <1>4, <1>5, <1>6, <1>7, <1>8 DEF ResetInv

LEMMA TakeJobKeeps ==
  ASSUME ResetInv, NEW j \in Jobs, TakeJob(j)
  PROVE  ResetInv'
<1> USE ResetBounds DEF TakeJob, requestVars, ResetInv
<1>1. Typed'
  <2>1. Typed /\ (receiptOf' = receiptOf \/ (MayRun(j) /\ receiptOf' = Saved(j, "failed")))
    OBVIOUS
  <2>2. /\ receiptOf' \in [Jobs -> Receipt] /\ \A i \in Jobs \ {j} : receiptOf'[i] = receiptOf[i]
        /\ \A i \in Jobs : receiptOf'[i].digest = receiptOf[i].digest
        /\ \A i \in Jobs : InProgress(i)' => InProgress(i)
    <3>1. CASE receiptOf' = receiptOf
      BY <2>1, <3>1 DEF Typed, InProgress
    <3>2. CASE receiptOf' = Saved(j, "failed")
      BY ONLY <2>1, <3>2, j \in Jobs, SavedNow
    <3> QED
      BY <2>1, <3>1, <3>2
  <2>3. queue' \in [Jobs -> {"none", "queued", "started", "over"}]
    BY DEF Typed
  <2>4. receiptOf[j].digest \in Nat
    BY DEF Typed, Receipt
  <2>5. run' = NotRunning \/ run' \in AJob
    BY <2>4 DEF AJob
  <2> QED
    BY <2>2, <2>3, <2>5 DEF Typed, Jobs, Receipt, AJob
<1>2. Counted'
  BY DEF Counted, Typed
<1>3. Tokens'
  BY DEF Tokens
<1>4. Numbered'
  <2>1. Typed /\ (receiptOf' = receiptOf \/ (MayRun(j) /\ receiptOf' = Saved(j, "failed")))
    OBVIOUS
  <2>2. /\ receiptOf' \in [Jobs -> Receipt] /\ \A i \in Jobs \ {j} : receiptOf'[i] = receiptOf[i]
        /\ \A i \in Jobs : receiptOf'[i].digest = receiptOf[i].digest
        /\ \A i \in Jobs : InProgress(i)' => InProgress(i)
    <3>1. CASE receiptOf' = receiptOf
      BY <2>1, <3>1 DEF Typed, InProgress
    <3>2. CASE receiptOf' = Saved(j, "failed")
      BY ONLY <2>1, <3>2, j \in Jobs, SavedNow
    <3> QED
      BY <2>1, <3>1, <3>2
  <2>3. queue'[j] \in {"started", "over"} /\ j <= latest /\ \A i \in Jobs \ {j} : queue'[i] = queue[i]
    BY DEF Typed, Numbered, Jobs
  <2>4. confirming.step = "queued" => confirming.job \in Jobs \ {j}
    BY DEF Typed, Numbered, NotConfirming
  <2> QED
    BY <2>2, <2>3, <2>4 DEF Numbered, Taken, Typed, Jobs, NotConfirming
<1>5. Confirmed'
  <2>1. Typed /\ (receiptOf' = receiptOf \/ (MayRun(j) /\ receiptOf' = Saved(j, "failed")))
    OBVIOUS
  <2>2. /\ receiptOf' \in [Jobs -> Receipt] /\ \A i \in Jobs \ {j} : receiptOf'[i] = receiptOf[i]
        /\ \A i \in Jobs : receiptOf'[i].digest = receiptOf[i].digest
        /\ \A i \in Jobs : InProgress(i)' => InProgress(i)
    <3>1. CASE receiptOf' = receiptOf
      BY <2>1, <3>1 DEF Typed, InProgress
    <3>2. CASE receiptOf' = Saved(j, "failed")
      BY ONLY <2>1, <3>2, j \in Jobs, SavedNow
    <3> QED
      BY <2>1, <3>1, <3>2
  <2> QED
    BY <2>2, ConfirmedStays DEF InProgress
<1>6. AtWork'
  <2>1. CASE run' = NotRunning
    BY <2>1 DEF AtWork
  <2>2. CASE run' # NotRunning
    <3>1. /\ run' = [job |-> j, step |-> "taken", digest |-> receiptOf[j].digest, passed |-> 0]
          /\ receiptOf' = receiptOf /\ queue'[j] = "started" /\ MayRun(j)
      BY <2>2 DEF Typed
    <3>2. j \notin durable
      BY DEF Numbered, Taken
    <3>3. Shown(j, receiptOf[j].digest)
      BY <3>1 DEF Confirmed, InProgress, MayRun
    <3> QED
      BY <3>1, <3>2, <3>3 DEF AtWork, Shown
  <2> QED
    BY <2>1, <2>2
<1>7. FailedEnds'
  <2>1. Typed /\ (receiptOf' = receiptOf \/ (MayRun(j) /\ receiptOf' = Saved(j, "failed")))
    OBVIOUS
  <2>2. /\ receiptOf' \in [Jobs -> Receipt] /\ \A i \in Jobs \ {j} : receiptOf'[i] = receiptOf[i]
        /\ \A i \in Jobs : receiptOf'[i].digest = receiptOf[i].digest
        /\ \A i \in Jobs : InProgress(i)' => InProgress(i)
    <3>1. CASE receiptOf' = receiptOf
      BY <2>1, <3>1 DEF Typed, InProgress
    <3>2. CASE receiptOf' = Saved(j, "failed")
      BY ONLY <2>1, <3>2, j \in Jobs, SavedNow
    <3> QED
      BY <2>1, <3>1, <3>2
  <2>3. \A i \in Jobs \ {j} : queue'[i] = queue[i]
    BY DEF Typed
  <2>4. j \notin durable /\ j <= latest
    BY DEF Numbered, Taken, Jobs, Typed
  <2>5. CASE queue'[j] = "over"
    BY <2>2, <2>3, <2>4, <2>5 DEF FailedEnds, Doomed, Jobs
  <2>6. CASE queue'[j] # "over"
    <3>1. MayRun(j) /\ receiptOf' = receiptOf
      BY <2>6 DEF Typed
    <3>2. j \notin told \/ j \in overtaken
      BY <3>1 DEF FailedEnds, Doomed, MayRun, Typed
    <3> QED
      BY <2>3, <3>1, <3>2 DEF FailedEnds, Doomed, Jobs, MayRun
  <2> QED
    BY <2>5, <2>6
<1>8. Asks'
  BY DEF Typed, Asks, NotAsking, Jobs
<1> QED
  BY <1>1, <1>2, <1>3, <1>4, <1>5, <1>6, <1>7, <1>8 DEF ResetInv

LEMMA RaiseBarrierKeeps ==
  ASSUME ResetInv, RaiseBarrier
  PROVE  ResetInv'
<1> USE ResetBounds DEF RaiseBarrier, requestVars, ResetInv
<1>1. Typed'
  <2>1. run \in AJob /\ run.job \in Jobs /\ queue[run.job] = "started" /\ receiptOf[run.job].digest = run.digest
    BY DEF Typed, AJob, AtWork, NotRunning
  <2>2. receiptOf' \in [Jobs -> Receipt]
    BY <2>1, SavedIs
  <2>3. run' \in AJob
    BY <2>1 DEF Typed, AJob
  <2>4. busy' \in 0..MaxJobs
    BY <2>1 DEF Jobs
  <2> QED
    BY <2>2, <2>3, <2>4 DEF Typed, Jobs, Receipt, AJob
<1>2. Counted'
  BY DEF Counted, Typed
<1>3. Tokens'
  BY DEF Tokens
<1>4. Numbered'
  <2>1. run \in AJob /\ run.job \in Jobs /\ queue[run.job] = "started" /\ receiptOf[run.job].digest = run.digest
    BY DEF Typed, AJob, AtWork, NotRunning
  <2>2. receiptOf'[run.job] = [state |-> "running", digest |-> run.digest] /\ \A j \in Jobs \ {run.job} : receiptOf'[j] = receiptOf[j]
    BY <2>1, SavedIs
  <2>3. run.job <= latest
    <3>1. Typed /\ Numbered
      OBVIOUS
    <3> QED
      BY ONLY <2>1, <3>1, StartedConfirmed
  <2>4. \A j \in Jobs : queue'[j] = queue[j] \/ (j = run.job /\ queue'[j] = "over")
    BY <2>1 DEF Typed
  <2> QED
    BY <2>1, <2>2, <2>3, <2>4 DEF Numbered, Taken, Typed, Jobs, NotConfirming
<1>5. Confirmed'
  <2>1. run \in AJob /\ run.job \in Jobs /\ queue[run.job] = "started" /\ receiptOf[run.job].digest = run.digest
    BY DEF Typed, AJob, AtWork, NotRunning
  <2>2. receiptOf'[run.job] = [state |-> "running", digest |-> run.digest] /\ \A j \in Jobs \ {run.job} : receiptOf'[j] = receiptOf[j]
    BY <2>1, SavedIs
  <2>3. ASSUME NEW j \in Jobs, InProgress(j)'
        PROVE  Shown(j, receiptOf[j].digest)'
    <3>1. CASE j = run.job
      BY <2>2, <3>1 DEF AtWork, Shown, NotRunning
    <3>2. CASE j # run.job
      BY <2>2, <2>3, <3>2 DEF Confirmed, InProgress, Shown
    <3> QED
      BY <3>1, <3>2
  <2> QED
    BY <2>3 DEF Confirmed, Jobs
<1>6. AtWork'
  <2>1. run \in AJob /\ run.job \in Jobs /\ queue[run.job] = "started" /\ receiptOf[run.job].digest = run.digest
    BY DEF Typed, AJob, AtWork, NotRunning
  <2>2. receiptOf'[run.job] = [state |-> "running", digest |-> run.digest] /\ \A j \in Jobs \ {run.job} : receiptOf'[j] = receiptOf[j]
    BY <2>1, SavedIs
  <2>3. run' = [run EXCEPT !.step = "read", !.passed = writing] /\ run # NotRunning /\ run.step = "taken" /\ run.job \notin durable
    BY DEF NotRunning, AtWork
  <2>4. /\ run'.job = run.job /\ run'.digest = run.digest /\ run'.step = "read" /\ run'.passed = writing
    BY <2>1, <2>3 DEF AJob
  <2> QED
    BY <2>1, <2>2, <2>3, <2>4 DEF AtWork, Shown, Typed
<1>7. FailedEnds'
  <2>1. run \in AJob /\ run.job \in Jobs /\ queue[run.job] = "started" /\ receiptOf[run.job].digest = run.digest
    BY DEF Typed, AJob, AtWork, NotRunning
  <2>2. receiptOf'[run.job] = [state |-> "running", digest |-> run.digest] /\ \A j \in Jobs \ {run.job} : receiptOf'[j] = receiptOf[j]
    BY <2>1, SavedIs
  <2>3. \A j \in Jobs : queue'[j] = queue[j] \/ (j = run.job /\ queue'[j] = "over")
    BY <2>1 DEF Typed
  <2>4. run.job <= latest
    <3>1. Typed /\ Numbered
      OBVIOUS
    <3> QED
      BY ONLY <2>1, <3>1, StartedConfirmed
  <2>5. run.job \in told => run.job \in overtaken
    BY <2>1 DEF FailedEnds, Doomed
  <2> QED
    BY <2>1, <2>2, <2>3, <2>4, <2>5 DEF FailedEnds, Doomed, Jobs, AtWork, NotRunning
<1>8. Asks'
  BY DEF Typed, Asks, NotAsking, Jobs
<1> QED
  BY <1>1, <1>2, <1>3, <1>4, <1>5, <1>6, <1>7, <1>8 DEF ResetInv

LEMMA ExecuteKeeps ==
  ASSUME ResetInv, Execute
  PROVE  ResetInv'
<1> USE ResetBounds DEF Execute, requestVars, ResetInv
<1>1. Typed'
  <2>1. run \in AJob
    BY DEF Typed, NotRunning
  <2>2. run' \in AJob
    BY <2>1 DEF AJob
  <2> QED
    BY <2>2 DEF Typed, Jobs, Receipt, AJob
<1>2. Counted'
  BY DEF Counted, Typed
<1>3. Tokens'
  BY DEF Tokens
<1>4. Numbered'
  BY DEF Typed, Numbered, Taken, Jobs, NotConfirming
<1>5. Confirmed'
  BY DEF Confirmed, InProgress, Shown, Jobs
<1>6. AtWork'
  <2>1. run \in AJob
    BY DEF Typed, NotRunning
  <2>2. run'.job = run.job /\ run'.digest = run.digest /\ run'.passed = run.passed /\ run'.step = "delete"
    BY <2>1 DEF AJob
  <2>3. run.digest = data /\ run # NotRunning
    BY DEF AsReviewed, NotRunning
  <2> QED
    BY <2>1, <2>2, <2>3 DEF AtWork, Shown, Typed, AJob
<1>7. FailedEnds'
  BY DEF Typed, FailedEnds, Doomed, Jobs
<1>8. Asks'
  BY DEF Typed, Asks, NotAsking, Jobs
<1> QED
  BY <1>1, <1>2, <1>3, <1>4, <1>5, <1>6, <1>7, <1>8 DEF ResetInv

LEMMA CommitKeeps ==
  ASSUME ResetInv, Commit
  PROVE  ResetInv'
<1> USE ResetBounds DEF Commit, requestVars, ResetInv
<1>1. Typed'
  <2>1. run \in AJob
    BY DEF Typed, NotRunning
  <2>2. run' \in AJob /\ run.job \in Jobs
    BY <2>1 DEF AJob
  <2>3. data' \in Nat /\ durable' \subseteq Jobs
    BY <2>2 DEF Typed
  <2> QED
    BY <2>2, <2>3 DEF Typed, Jobs, Receipt, AJob
<1>2. Counted'
  <2>1. run.job \notin durable
    BY DEF AtWork, NotRunning
  <2>2. IsFiniteSet(durable) /\ Cardinality(durable) \in Nat
    BY DurableCount
  <2>3. Cardinality(durable') = Cardinality(durable) + 1
    BY <2>1, <2>2, FS_AddElement
  <2> QED
    BY <2>2, <2>3 DEF Counted, Typed
<1>3. Tokens'
  BY DEF Tokens
<1>4. Numbered'
  <2>1. run \in AJob /\ run.job \in Jobs /\ queue[run.job] = "started" /\ receiptOf[run.job].digest = run.digest
    BY DEF Typed, AJob, AtWork, NotRunning
  <2>2. run.job <= latest
    <3>1. Typed /\ Numbered
      OBVIOUS
    <3> QED
      BY ONLY <2>1, <3>1, StartedConfirmed
  <2> QED
    BY <2>1, <2>2 DEF Numbered, Taken, Typed, Jobs, NotConfirming
<1>5. Confirmed'
  BY DEF Confirmed, InProgress, Shown, Jobs
<1>6. AtWork'
  <2>1. run \in AJob /\ run.job \in Jobs /\ queue[run.job] = "started" /\ receiptOf[run.job].digest = run.digest
    BY DEF Typed, AJob, AtWork, NotRunning
  <2>2. run'.job = run.job /\ run'.digest = run.digest /\ run'.step = "settle" /\ run # NotRunning
    BY <2>1 DEF AJob, NotRunning
  <2> QED
    BY <2>1, <2>2 DEF AtWork, Shown
<1>7. FailedEnds'
  <2>1. run \in AJob /\ run.job \in Jobs /\ queue[run.job] = "started" /\ receiptOf[run.job].digest = run.digest
    BY DEF Typed, AJob, AtWork, NotRunning
  <2> QED
    BY <2>1 DEF FailedEnds, Doomed, Jobs
<1>8. Asks'
  BY DEF Typed, Asks, NotAsking, Jobs
<1> QED
  BY <1>1, <1>2, <1>3, <1>4, <1>5, <1>6, <1>7, <1>8 DEF ResetInv

LEMMA SettleKeeps ==
  ASSUME ResetInv, Settle
  PROVE  ResetInv'
<1> USE ResetBounds DEF Settle, requestVars, ResetInv
<1>1. Typed'
  <2>1. run \in AJob /\ run.job \in Jobs /\ queue[run.job] = "started" /\ receiptOf[run.job].digest = run.digest
    BY DEF Typed, AJob, AtWork, NotRunning
  <2>2. receiptOf' \in [Jobs -> Receipt]
    BY <2>1, SavedIs
  <2>3. queue' \in [Jobs -> {"none", "queued", "started", "over"}]
    BY DEF Typed
  <2>4. busy' \in 0..MaxJobs
    BY DEF Typed
  <2> QED
    BY <2>2, <2>3, <2>4 DEF Typed, Jobs, Receipt, AJob
<1>2. Counted'
  BY DEF Counted, Typed
<1>3. Tokens'
  BY DEF Tokens
<1>4. Numbered'
  <2>1. run \in AJob /\ run.job \in Jobs /\ queue[run.job] = "started" /\ receiptOf[run.job].digest = run.digest
    BY DEF Typed, AJob, AtWork, NotRunning
  <2>2. receiptOf'[run.job] = [state |-> "completed", digest |-> run.digest] /\ \A j \in Jobs \ {run.job} : receiptOf'[j] = receiptOf[j]
    BY <2>1, SavedIs
  <2>3. run.job <= latest
    <3>1. Typed /\ Numbered
      OBVIOUS
    <3> QED
      BY ONLY <2>1, <3>1, StartedConfirmed
  <2>4. \A j \in Jobs : queue'[j] = queue[j] \/ (j = run.job /\ queue'[j] = "over")
    BY <2>1 DEF Typed
  <2> QED
    BY <2>1, <2>2, <2>3, <2>4 DEF Numbered, Taken, Typed, Jobs, NotConfirming
<1>5. Confirmed'
  <2>1. run \in AJob /\ run.job \in Jobs /\ queue[run.job] = "started" /\ receiptOf[run.job].digest = run.digest
    BY DEF Typed, AJob, AtWork, NotRunning
  <2>2. receiptOf'[run.job] = [state |-> "completed", digest |-> run.digest] /\ \A j \in Jobs \ {run.job} : receiptOf'[j] = receiptOf[j]
    BY <2>1, SavedIs
  <2> QED
    BY <2>1, <2>2, ConfirmedStays DEF InProgress
<1>6. AtWork'
  BY DEF AtWork
<1>7. FailedEnds'
  <2>1. run \in AJob /\ run.job \in Jobs /\ queue[run.job] = "started" /\ receiptOf[run.job].digest = run.digest
    BY DEF Typed, AJob, AtWork, NotRunning
  <2>2. receiptOf'[run.job] = [state |-> "completed", digest |-> run.digest] /\ \A j \in Jobs \ {run.job} : receiptOf'[j] = receiptOf[j]
    BY <2>1, SavedIs
  <2>3. \A j \in Jobs : queue'[j] = queue[j] \/ (j = run.job /\ queue'[j] = "over")
    BY <2>1 DEF Typed
  <2>4. run.job <= latest
    <3>1. Typed /\ Numbered
      OBVIOUS
    <3> QED
      BY ONLY <2>1, <3>1, StartedConfirmed
  <2>5. run.job \in told => run.job \in overtaken
    BY <2>1 DEF FailedEnds, Doomed
  <2> QED
    BY <2>1, <2>2, <2>3, <2>4, <2>5 DEF FailedEnds, Doomed, Jobs, AtWork, NotRunning
<1>8. Asks'
  BY DEF Typed, Asks, NotAsking, Jobs
<1> QED
  BY <1>1, <1>2, <1>3, <1>4, <1>5, <1>6, <1>7, <1>8 DEF ResetInv

LEMMA RefuseKeeps ==
  ASSUME ResetInv, Refuse
  PROVE  ResetInv'
<1> USE ResetBounds DEF Refuse, requestVars, ResetInv
<1>1. Typed'
  <2>1. run \in AJob /\ run.job \in Jobs /\ queue[run.job] = "started" /\ receiptOf[run.job].digest = run.digest
    BY DEF Typed, AJob, AtWork, NotRunning
  <2>2. receiptOf' \in [Jobs -> Receipt]
    BY <2>1, SavedIs
  <2>3. queue' \in [Jobs -> {"none", "queued", "started", "over"}]
    BY DEF Typed
  <2>4. busy' \in 0..MaxJobs
    BY DEF Typed
  <2> QED
    BY <2>2, <2>3, <2>4 DEF Typed, Jobs, Receipt, AJob
<1>2. Counted'
  BY DEF Counted, Typed
<1>3. Tokens'
  BY DEF Tokens
<1>4. Numbered'
  <2>1. run \in AJob /\ run.job \in Jobs /\ queue[run.job] = "started" /\ receiptOf[run.job].digest = run.digest
    BY DEF Typed, AJob, AtWork, NotRunning
  <2>2. receiptOf'[run.job] = [state |-> "failed", digest |-> run.digest] /\ \A j \in Jobs \ {run.job} : receiptOf'[j] = receiptOf[j]
    BY <2>1, SavedIs
  <2>3. run.job <= latest
    <3>1. Typed /\ Numbered
      OBVIOUS
    <3> QED
      BY ONLY <2>1, <3>1, StartedConfirmed
  <2>4. \A j \in Jobs : queue'[j] = queue[j] \/ (j = run.job /\ queue'[j] = "over")
    BY <2>1 DEF Typed
  <2> QED
    BY <2>1, <2>2, <2>3, <2>4 DEF Numbered, Taken, Typed, Jobs, NotConfirming
<1>5. Confirmed'
  <2>1. run \in AJob /\ run.job \in Jobs /\ queue[run.job] = "started" /\ receiptOf[run.job].digest = run.digest
    BY DEF Typed, AJob, AtWork, NotRunning
  <2>2. receiptOf'[run.job] = [state |-> "failed", digest |-> run.digest] /\ \A j \in Jobs \ {run.job} : receiptOf'[j] = receiptOf[j]
    BY <2>1, SavedIs
  <2> QED
    BY <2>1, <2>2, ConfirmedStays DEF InProgress
<1>6. AtWork'
  BY DEF AtWork
<1>7. FailedEnds'
  <2>1. run \in AJob /\ run.job \in Jobs /\ queue[run.job] = "started" /\ receiptOf[run.job].digest = run.digest
    BY DEF Typed, AJob, AtWork, NotRunning
  <2>2. receiptOf'[run.job] = [state |-> "failed", digest |-> run.digest] /\ \A j \in Jobs \ {run.job} : receiptOf'[j] = receiptOf[j]
    BY <2>1, SavedIs
  <2>3. queue'[run.job] = "over" /\ \A j \in Jobs \ {run.job} : queue'[j] = queue[j]
    BY <2>1 DEF Typed
  <2>4. run.job <= latest /\ run.job \notin durable
    <3>1. Typed /\ Numbered
      OBVIOUS
    <3>2. run.job <= latest
      BY ONLY <2>1, <3>1, StartedConfirmed
    <3>3. run.job \notin durable
      BY <2>1 DEF AtWork, NotRunning, AJob
    <3> QED
      BY <3>2, <3>3
  <2> QED
    BY <2>1, <2>2, <2>3, <2>4 DEF FailedEnds, Doomed, Jobs
<1>8. Asks'
  BY DEF Typed, Asks, NotAsking, Jobs
<1> QED
  BY <1>1, <1>2, <1>3, <1>4, <1>5, <1>6, <1>7, <1>8 DEF ResetInv

LEMMA DieKeeps ==
  ASSUME ResetInv, Die
  PROVE  ResetInv'
<1> USE ResetBounds DEF Die, requestVars, ResetInv
<1>1. Typed'
  BY DEF Typed, Jobs, Receipt, AJob, NotRunning, NotConfirming
<1>2. Counted'
  BY DEF Counted, Typed
<1>3. Tokens'
  BY DEF Tokens
<1>4. Numbered'
  BY DEF Typed, Numbered, Taken, Jobs, NotConfirming
<1>5. Confirmed'
  BY DEF Confirmed, InProgress, Shown, Jobs
<1>6. AtWork'
  BY DEF AtWork
<1>7. FailedEnds'
  BY DEF Typed, FailedEnds, Doomed, Jobs
<1>8. Asks'
  BY DEF Typed, Asks, NotAsking, Jobs
<1> QED
  BY <1>1, <1>2, <1>3, <1>4, <1>5, <1>6, <1>7, <1>8 DEF ResetInv

LEMMA NoticeKeeps ==
  ASSUME ResetInv, Notice
  PROVE  ResetInv'
<1> USE ResetBounds DEF Notice, requestVars, ResetInv
<1>1. Typed'
  <2>1. queue' \in [Jobs -> {"none", "queued", "started", "over"}]
    BY DEF Typed
  <2> QED
    BY <2>1 DEF Typed, Jobs, Receipt, AJob
<1>2. Counted'
  BY DEF Counted, Typed
<1>3. Tokens'
  BY DEF Tokens
<1>4. Numbered'
  <2>1. PICK j \in Jobs : queue[j] = "started" /\ run.job # j /\ queue' = [queue EXCEPT ![j] = "over"]
    OBVIOUS
  <2>2. queue'[j] = "over" /\ \A i \in Jobs \ {j} : queue'[i] = queue[i]
    BY <2>1 DEF Typed
  <2> QED
    BY <2>1, <2>2 DEF Numbered, Taken, Typed, Jobs, NotConfirming
<1>5. Confirmed'
  BY DEF Confirmed, InProgress, Shown, Jobs
<1>6. AtWork'
  <2>1. PICK j \in Jobs : queue[j] = "started" /\ run.job # j /\ queue' = [queue EXCEPT ![j] = "over"]
    OBVIOUS
  <2>2. queue'[j] = "over" /\ \A i \in Jobs \ {j} : queue'[i] = queue[i]
    BY <2>1 DEF Typed
  <2> QED
    BY <2>1, <2>2, WorkStays DEF Typed, AJob
<1>7. FailedEnds'
  <2>1. PICK j \in Jobs : queue[j] = "started" /\ run.job # j /\ queue' = [queue EXCEPT ![j] = "over"]
    OBVIOUS
  <2>2. queue'[j] = "over" /\ \A i \in Jobs \ {j} : queue'[i] = queue[i]
    BY <2>1 DEF Typed
  <2> QED
    BY <2>1, <2>2 DEF FailedEnds, Doomed, Jobs
<1>8. Asks'
  BY DEF Typed, Asks, NotAsking, Jobs
<1> QED
  BY <1>1, <1>2, <1>3, <1>4, <1>5, <1>6, <1>7, <1>8 DEF ResetInv

LEMMA AskKeeps ==
  ASSUME ResetInv, NEW c \in Askers, NEW j \in Jobs, Ask(c, j)
  PROVE  ResetInv'
<1> USE ResetBounds DEF Ask, requestVars, ResetInv
<1>1. Typed'
  BY DEF Typed, Jobs, Receipt, AJob, NotRunning, NotConfirming
<1>2. Counted'
  BY DEF Counted, Typed
<1>3. Tokens'
  BY DEF Tokens
<1>4. Numbered'
  BY DEF Typed, Numbered, Taken, Jobs, NotConfirming
<1>5. Confirmed'
  BY DEF Confirmed, InProgress, Shown, Jobs
<1>6. AtWork'
  BY DEF Typed, AtWork, Shown, AJob, NotRunning, Jobs
<1>7. FailedEnds'
  BY DEF Typed, FailedEnds, Doomed, Jobs
<1>8. Asks'
  BY DEF Typed, Asks, NotAsking, Jobs
<1> QED
  BY <1>1, <1>2, <1>3, <1>4, <1>5, <1>6, <1>7, <1>8 DEF ResetInv

LEMMA ReadKeeps ==
  ASSUME ResetInv, NEW c \in Askers, Read(c)
  PROVE  ResetInv'
<1> USE ResetBounds DEF Read, TellFailed, requestVars, ResetInv
<1>1. Typed'
  <2>1. asking[c].job \in Jobs
    BY DEF Typed, AJob, Asks, NotRunning, NotConfirming, NotAsking
  <2>2. told' \subseteq Jobs
    BY <2>1 DEF Typed
  <2>3. /\ UNCHANGED <<data, blocked, durable, latest, confirming, overtaken>>
        /\ UNCHANGED <<receiptOf, queue, busy, run, writing>>
    OBVIOUS
  <2> QED
    BY ONLY ResetInv, <2>2, <2>3 DEF ResetInv, Typed
<1>2. Counted'
  BY DEF Counted, Typed
<1>3. Tokens'
  BY DEF Tokens
<1>4. Numbered'
  <2>1. asking[c].job \in Jobs
    BY DEF Typed, AJob, Asks, NotRunning, NotConfirming, NotAsking
  <2>2. asking[c].job <= latest
    BY DEF Asks, NotAsking
  <2> QED
    BY <2>1, <2>2 DEF Numbered, Taken, Typed, Jobs, NotConfirming
<1>5. Confirmed'
  BY DEF Confirmed, InProgress, Shown, Jobs
<1>6. AtWork'
  BY DEF Typed, AtWork, Shown, AJob, NotRunning, Jobs
<1>7. FailedEnds'
  <2>1. asking[c].job \in Jobs
    BY DEF Typed, AJob, Asks, NotRunning, NotConfirming, NotAsking
  <2>2. told' = told \/ (receiptOf[asking[c].job].state = "failed" /\ told' = told \cup {asking[c].job})
    OBVIOUS
  <2> QED
    BY <2>1, <2>2 DEF FailedEnds, Doomed, Jobs
<1>8. Asks'
  <2>1. asking[c] \in [job : Jobs, state : {"reading", "waiting"}] /\ asking[c].job <= latest
    BY DEF Asks, NotAsking
  <2>2. asking'[c] = NotAsking \/ (asking'[c] \in [job : Jobs, state : {"reading", "waiting"}] /\ asking'[c].job <= latest)
    BY <2>1 DEF Asks
  <2> QED
    BY <2>1, <2>2 DEF Asks
<1> QED
  BY <1>1, <1>2, <1>3, <1>4, <1>5, <1>6, <1>7, <1>8 DEF ResetInv

LEMMA AnswerKeeps ==
  ASSUME ResetInv, NEW c \in Askers, Answer(c)
  PROVE  ResetInv'
<1> USE ResetBounds DEF Answer, TellFailed, CommittedNow, requestVars, ResetInv
<1>1. Typed'
  <2> DEFINE j == asking[c].job
  <2>1. j \in Jobs /\ j <= latest
    BY DEF Asks, NotAsking
  <2>2. \/ UNCHANGED <<receiptOf, busy, told>>
        \/ /\ queue[j] = "over" /\ j \notin durable /\ receiptOf' = Saved(j, "failed") /\ told' = told \cup {j}
           /\ busy' = IF busy = j THEN 0 ELSE busy
    OBVIOUS
  <2> HIDE DEF j
  <2>3. /\ receiptOf' \in [Jobs -> Receipt] /\ \A i \in Jobs \ {j} : receiptOf'[i] = receiptOf[i]
        /\ \A i \in Jobs : receiptOf'[i].digest = receiptOf[i].digest
        /\ \A i \in Jobs : InProgress(i)' => InProgress(i)
    <3>1. Typed
      OBVIOUS
    <3>2. CASE receiptOf' = receiptOf
      BY <3>1, <3>2 DEF Typed, InProgress
    <3>3. CASE receiptOf' = Saved(j, "failed")
      BY ONLY <2>1, <3>1, <3>3, SavedNow
    <3> QED
      BY ONLY <2>2, <3>2, <3>3
  <2>4. told' \subseteq Jobs /\ busy' \in 0..MaxJobs
    BY <2>1, <2>2 DEF Typed
  <2> QED
    BY <2>1, <2>3, <2>4 DEF Typed, Jobs, Receipt, AJob
<1>2. Counted'
  BY DEF Counted, Typed
<1>3. Tokens'
  BY DEF Tokens
<1>4. Numbered'
  <2> DEFINE j == asking[c].job
  <2>1. j \in Jobs /\ j <= latest
    BY DEF Asks, NotAsking
  <2>2. \/ UNCHANGED <<receiptOf, busy, told>>
        \/ /\ queue[j] = "over" /\ j \notin durable /\ receiptOf' = Saved(j, "failed") /\ told' = told \cup {j}
           /\ busy' = IF busy = j THEN 0 ELSE busy
    OBVIOUS
  <2> HIDE DEF j
  <2>3. /\ receiptOf' \in [Jobs -> Receipt] /\ \A i \in Jobs \ {j} : receiptOf'[i] = receiptOf[i]
        /\ \A i \in Jobs : receiptOf'[i].digest = receiptOf[i].digest
        /\ \A i \in Jobs : InProgress(i)' => InProgress(i)
    <3>1. Typed
      OBVIOUS
    <3>2. CASE receiptOf' = receiptOf
      BY <3>1, <3>2 DEF Typed, InProgress
    <3>3. CASE receiptOf' = Saved(j, "failed")
      BY ONLY <2>1, <3>1, <3>3, SavedNow
    <3> QED
      BY ONLY <2>2, <3>2, <3>3
  <2> QED
    BY <2>1, <2>2, <2>3 DEF Numbered, Taken, Typed, Jobs, NotConfirming
<1>5. Confirmed'
  <2> DEFINE j == asking[c].job
  <2>1. j \in Jobs /\ j <= latest
    BY DEF Asks, NotAsking
  <2>2. \/ UNCHANGED <<receiptOf, busy, told>>
        \/ /\ queue[j] = "over" /\ j \notin durable /\ receiptOf' = Saved(j, "failed") /\ told' = told \cup {j}
           /\ busy' = IF busy = j THEN 0 ELSE busy
    OBVIOUS
  <2> HIDE DEF j
  <2>3. /\ receiptOf' \in [Jobs -> Receipt] /\ \A i \in Jobs \ {j} : receiptOf'[i] = receiptOf[i]
        /\ \A i \in Jobs : receiptOf'[i].digest = receiptOf[i].digest
        /\ \A i \in Jobs : InProgress(i)' => InProgress(i)
    <3>1. Typed
      OBVIOUS
    <3>2. CASE receiptOf' = receiptOf
      BY <3>1, <3>2 DEF Typed, InProgress
    <3>3. CASE receiptOf' = Saved(j, "failed")
      BY ONLY <2>1, <3>1, <3>3, SavedNow
    <3> QED
      BY ONLY <2>2, <3>2, <3>3
  <2> QED
    BY <2>3, ConfirmedStays DEF InProgress
<1>6. AtWork'
  <2> DEFINE j == asking[c].job
  <2>1. j \in Jobs /\ j <= latest
    BY DEF Asks, NotAsking
  <2>2. \/ UNCHANGED <<receiptOf, busy, told>>
        \/ /\ queue[j] = "over" /\ j \notin durable /\ receiptOf' = Saved(j, "failed") /\ told' = told \cup {j}
           /\ busy' = IF busy = j THEN 0 ELSE busy
    OBVIOUS
  <2> HIDE DEF j
  <2>3. /\ receiptOf' \in [Jobs -> Receipt] /\ \A i \in Jobs \ {j} : receiptOf'[i] = receiptOf[i]
        /\ \A i \in Jobs : receiptOf'[i].digest = receiptOf[i].digest
        /\ \A i \in Jobs : InProgress(i)' => InProgress(i)
    <3>1. Typed
      OBVIOUS
    <3>2. CASE receiptOf' = receiptOf
      BY <3>1, <3>2 DEF Typed, InProgress
    <3>3. CASE receiptOf' = Saved(j, "failed")
      BY ONLY <2>1, <3>1, <3>3, SavedNow
    <3> QED
      BY ONLY <2>2, <3>2, <3>3
  <2>4. run # NotRunning => run.job \in Jobs /\ queue[run.job] = "started" /\ (run.step # "taken" => busy = run.job)
    BY DEF Typed, AJob, AtWork
  <2> QED
    BY <2>1, <2>2, <2>3, <2>4 DEF AtWork, Shown
<1>7. FailedEnds'
  <2> DEFINE j == asking[c].job
  <2>1. j \in Jobs /\ j <= latest
    BY DEF Asks, NotAsking
  <2>2. \/ UNCHANGED <<receiptOf, busy, told>>
        \/ /\ queue[j] = "over" /\ j \notin durable /\ receiptOf' = Saved(j, "failed") /\ told' = told \cup {j}
           /\ busy' = IF busy = j THEN 0 ELSE busy
    OBVIOUS
  <2> HIDE DEF j
  <2>3. /\ receiptOf' \in [Jobs -> Receipt] /\ \A i \in Jobs \ {j} : receiptOf'[i] = receiptOf[i]
        /\ \A i \in Jobs : receiptOf'[i].digest = receiptOf[i].digest
        /\ \A i \in Jobs : InProgress(i)' => InProgress(i)
    <3>1. Typed
      OBVIOUS
    <3>2. CASE receiptOf' = receiptOf
      BY <3>1, <3>2 DEF Typed, InProgress
    <3>3. CASE receiptOf' = Saved(j, "failed")
      BY ONLY <2>1, <3>1, <3>3, SavedNow
    <3> QED
      BY ONLY <2>2, <3>2, <3>3
  <2> QED
    BY <2>1, <2>2, <2>3 DEF FailedEnds, Doomed, Jobs
<1>8. Asks'
  BY DEF Typed, Asks, NotAsking, Jobs
<1> QED
  BY <1>1, <1>2, <1>3, <1>4, <1>5, <1>6, <1>7, <1>8 DEF ResetInv

\* What Redis forgets: a receipt, or the barrier.
LEMMA ExpireKeeps ==
  ASSUME ResetInv, Expire
  PROVE  ResetInv'
<1> USE ResetBounds DEF ResetInv
<1>1. UNCHANGED <<data, blocked, durable, previews, accepted, latest, confirming, overtaken, queue, run, writing, asking, told>>
  BY DEF Expire, requestVars
<1>2. ASSUME NEW j \in Jobs, busy' = busy, queue[j] # "started", receiptOf' = [receiptOf EXCEPT ![j] = NoReceipt]
      PROVE  ResetInv'
  <2>1. receiptOf' \in [Jobs -> Receipt] /\ receiptOf'[j].state = "none" /\ \A i \in Jobs \ {j} : receiptOf'[i] = receiptOf[i]
    <3>1. NoReceipt \in Receipt /\ NoReceipt.state = "none"
      BY DEF Receipt, NoReceipt
    <3> QED
      BY <1>2, <3>1 DEF Typed
  <2>2. Typed' /\ Counted' /\ Tokens' /\ Asks'
    BY <1>1, <1>2, <2>1 DEF Typed, Counted, Tokens, Asks, Jobs, Receipt, AJob
  <2>3. Numbered'
    BY <1>1, <1>2, <2>1 DEF Numbered, Taken, Jobs
  <2>4. Confirmed'
    BY <1>1, <2>1, ConfirmedStays DEF InProgress
  <2>5. AtWork'
    <3>1. run # NotRunning => run.job \in Jobs \ {j}
      BY <1>2 DEF Typed, AJob, AtWork
    <3> QED
      BY <1>1, <1>2, <2>1, <3>1, WorkStays
  <2>6. FailedEnds'
    BY <1>1, <1>2, <2>1 DEF FailedEnds, Doomed, Jobs
  <2> QED
    BY <2>2, <2>3, <2>4, <2>5, <2>6
<1>3. CASE run = NotRunning /\ busy' = 0 /\ receiptOf' = receiptOf
  <2>1. (Typed /\ Counted /\ Tokens /\ Asks)'
    BY <1>1, <1>3 DEF Typed, Counted, Tokens, Asks, Jobs, Receipt, AJob
  <2>2. (Numbered /\ Confirmed /\ FailedEnds)'
    BY <1>1, <1>3 DEF Numbered, Taken, Confirmed, Shown, InProgress, FailedEnds, Doomed, Jobs
  <2>3. AtWork'
    BY <1>1, <1>3 DEF AtWork
  <2> QED
    BY <2>1, <2>2, <2>3
<1> QED
  BY <1>2, <1>3 DEF Expire

-----------------------------------------------------------------------------
(* The theorem.                                                            *)

LEMMA ResetStepKeeps ==
  ASSUME ResetInv, [ResetNext]_resetVars
  PROVE  ResetInv'
<1>1. CASE UNCHANGED resetVars
  <2>1. UNCHANGED <<data, blocked, durable, previews, accepted, latest, confirming, overtaken, receiptOf, queue, busy>>
    BY <1>1 DEF resetVars, requestVars
  <2>2. UNCHANGED <<run, writing, asking, told>>
    BY <1>1 DEF resetVars
  <2>3. (Typed /\ Counted /\ Tokens /\ Asks)'
    BY <2>1, <2>2 DEF ResetInv, Typed, Counted, Tokens, Asks, Jobs, Receipt, AJob
  <2>4. (Numbered /\ Confirmed /\ AtWork /\ FailedEnds)'
    BY <2>1, <2>2 DEF ResetInv, Numbered, Taken, Confirmed, Shown, AtWork, FailedEnds, Doomed, InProgress, Jobs
  <2> QED
    BY <2>3, <2>4 DEF ResetInv
<1>2. CASE ResetNext
  BY <1>2, LookAgainKeeps, CommitWriteKeeps, PreviewKeeps, PerformKeeps, EnqueueKeeps, SayFailedKeeps, AbandonKeeps,
     TakeJobKeeps, RaiseBarrierKeeps, ExecuteKeeps, CommitKeeps, SettleKeeps, RefuseKeeps, DieKeeps, NoticeKeeps,
     AskKeeps, ReadKeeps, AnswerKeeps, ExpireKeeps DEF ResetNext
<1> QED
  BY <1>1, <1>2

\* What the invariant says of a state that clients can see.
LEMMA ResetInvTells ==
  ResetInv => ResetTypeOK /\ ToldTruly
<1> SUFFICES ASSUME ResetInv PROVE ResetTypeOK /\ ToldTruly
  OBVIOUS
<1>1. data \in 0..MaxWrites + MaxJobs
  BY DataBounded DEF ResetInv
<1>2. ResetTypeOK
  BY <1>1 DEF ResetInv, Typed, Tokens, ResetTypeOK
<1>3. ToldTruly
  BY DEF ResetInv, Typed, FailedEnds, Doomed, ToldTruly
<1> QED
  BY <1>2, <1>3

\* Only Commit adds a durable receipt: of the job at work, whose digest its
\* preview showed, and from which the data differ by the writes that had passed.
LEMMA CommitsAsShown ==
  ASSUME ResetInv, [ResetNext]_resetVars
  PROVE  DeletesWhatWasShown
<1>1. CASE Commit
  <2>1. run \in AJob /\ run # NotRunning
    BY <1>1 DEF Commit, ResetInv, Typed, NotRunning
  <2>2. data \in run.digest..run.digest + run.passed
    BY <1>1, <2>1 DEF Commit, ResetInv, Typed, AtWork, AJob
  <2>3. PICK t \in 1..Len(previews) : accepted[t] = run.job /\ previews[t] = run.digest
    BY <2>1 DEF ResetInv, AtWork, Shown
  <2>4. t \in DOMAIN previews
    BY <2>3 DEF ResetInv, Tokens
  <2>5. durable' \ durable \subseteq {run.job}
    BY <1>1 DEF Commit
  <2> QED
    BY <2>2, <2>3, <2>4, <2>5 DEF DeletesWhatWasShown
<1>2. CASE durable' = durable
  BY <1>2 DEF DeletesWhatWasShown
<1>3. Commit \/ durable' = durable
  BY DEF ResetNext, resetVars, LookAgain, CommitWrite, Preview, Perform, Enqueue, SayFailed, Abandon, TakeJob,
         RaiseBarrier, Execute, Settle, Refuse, Die, Notice, Ask, Read, Answer, Expire
<1> QED
  BY <1>1, <1>2, <1>3

\* A reset deletes the data as the preview that was confirmed for it showed
\* them, but for writes that were past their last look when the barrier rose; and
\* one of which a client was told that it failed is never committed, unless its
\* request said so when a worker had it already, although request, worker, writers
\* and status share no lock and Redis may forget (perform, run, _execute,
\* _guard_commit, status).
THEOREM ResetShown ==
  ResetSpec => ResetAsShown
<1>1. ResetInit => ResetInv
  BY ResetStarts
<1>2. ResetInv /\ [ResetNext]_resetVars => ResetInv'
  BY ResetStepKeeps
<1>3. ResetInv' => (ResetTypeOK /\ ToldTruly)'
  BY ResetInvTells, PTL
<1>4. ResetInv /\ [ResetNext]_resetVars => DeletesWhatWasShown
  BY CommitsAsShown
<1>5. ResetInv /\ ResetInv' /\ [ResetNext]_resetVars => [(ResetTypeOK /\ ToldTruly)' /\ DeletesWhatWasShown]_resetVars
  BY <1>3, <1>4
<1> QED
  BY <1>1, <1>2, <1>5, PTL DEF ResetSpec, ResetAsShown

===============================================================================
