------------------------------- MODULE SetupReset -------------------------------
(***************************************************************************)
(* The reset of the setup data an administrator owns: a preview is shown,  *)
(* confirmed with its token, queued, and run by a worker that raises a     *)
(* barrier against other writes.  The database keeps the data and one      *)
(* durable receipt; tokens, receipts, the barrier and the state of the     *)
(* queue live in Redis, which may lose them, and each is written on its    *)
(* own: a worker can take a job before its request has heard of it, and a  *)
(* writer can commit after the barrier it looked for has risen.            *)
(*                                                                         *)
(* The data in the scope of the reset are one version, which their digest  *)
(* tells, and whether anything blocks the reset.                           *)
(***************************************************************************)
EXTENDS Naturals, FiniteSets, Sequences

CONSTANTS
  MaxWrites,   \* bound: changes of the data
  MaxPreviews, \* bound: previews
  MaxJobs,     \* bound: confirmed resets
  Askers       \* clients that ask for the status

ASSUME ResetBounds == MaxWrites \in Nat /\ MaxPreviews \in Nat /\ MaxJobs \in Nat

VARIABLES
  data,     \* the version of the data
  blocked,  \* something in use forbids the reset
  durable,  \* jobs whose receipt was committed with the deletion
  previews, \* tokens: the digest they showed
  accepted, \* tokens: the job they were exchanged for, 0 for none
  latest,    \* the last job confirmed, 0 for none
  confirming, \* the request that confirms: its job and how far it is
  overtaken, \* jobs whose request wrote "failed" when a worker had taken them
  receiptOf, \* jobs: the receipt, NoReceipt when lost
  queue,    \* jobs: what the queue says of them, "over" when they finished or failed
  busy,     \* the job that holds the barrier, 0 for none
  run,      \* what the worker does
  writing,  \* the transactions of others that are past their last look
  asking,   \* what each asker has read so far
  told      \* jobs of which the status has told that they failed

requestVars == <<previews, accepted, latest, confirming, overtaken>>

resetVars == <<data, blocked, durable, requestVars, receiptOf, queue, busy, run, writing, asking, told>>

Jobs == 1..MaxJobs

NoReceipt == [state |-> "none", digest |-> 0]

Receipt == [state : {"none", "queued", "running", "completed", "failed"}, digest : 0..MaxWrites + MaxJobs]

\* A worker keeps the digest of the receipt it took; passed is how many writers
\* had had their last look when the barrier rose.
NotRunning == [job |-> 0, step |-> "none", digest |-> 0, passed |-> 0]

NotConfirming == [job |-> 0, step |-> "none"]

NotAsking == [job |-> 0, state |-> "none"]

\* Set a receipt, with the digest of the one before it.
Saved(j, state) == [receiptOf EXCEPT ![j] = [state |-> state, digest |-> @.digest]]

-----------------------------------------------------------------------------
(* Everybody else's writes.                                                *)

\* Mutation of MayCommit: the barrier is looked at no more when the request ends.
MayCommitAlways == TRUE

\* _guard_commit
MayCommit == busy = 0

\* The last look of a request, before its transaction commits.  The looks before
\* it (guard_request, guard_write, guard_job) only refuse it earlier.
LookAgain ==
  /\ MayCommit /\ data + writing < MaxWrites + Cardinality(durable)
  /\ writing' = writing + 1
  /\ UNCHANGED <<data, blocked, durable, requestVars, receiptOf, queue, busy, run, asking, told>>

CommitWrite ==
  /\ writing > 0 /\ writing' = writing - 1
  /\ data' = data + 1 /\ blocked' \in BOOLEAN
  /\ UNCHANGED <<durable, requestVars, receiptOf, queue, busy, run, asking, told>>

-----------------------------------------------------------------------------
(* preview and perform.                                                    *)

\* A receipt that is lost counts as long as the name of the last job is kept,
\* which may be lost as well.
InProgress(j) == receiptOf[j].state \in {"queued", "running"}

Preview ==
  /\ latest # 0 => ~InProgress(latest)
  /\ busy = 0 /\ Len(previews) < MaxPreviews
  /\ previews' = Append(previews, data)
  /\ accepted' = Append(accepted, 0)
  /\ UNCHANGED <<data, blocked, durable, latest, confirming, overtaken, receiptOf, queue, busy, run, writing, asking,
                 told>>

\* A confirmation with a token that is still valid becomes a job, unless one
\* is in progress or what it showed has changed.  Confirmations are served one
\* after the other.
Perform(t) ==
  /\ confirming = NotConfirming
  /\ latest # 0 => ~InProgress(latest)
  /\ busy = 0 /\ accepted[t] = 0 /\ ~blocked /\ previews[t] = data
  /\ latest < MaxJobs /\ latest' = latest + 1
  /\ accepted' = [accepted EXCEPT ![t] = latest']
  /\ receiptOf' = [receiptOf EXCEPT ![latest'] = [state |-> "queued", digest |-> data]]
  /\ confirming' = [job |-> latest', step |-> "queued"]
  /\ UNCHANGED <<data, blocked, durable, previews, overtaken, queue, busy, run, writing, asking, told>>

\* The queue takes the job, or fails, and may have taken it all the same.
Enqueue ==
  /\ confirming.step = "queued"
  /\ \E answer \in {NotConfirming, [confirming EXCEPT !.step = "failed"]}, taken \in BOOLEAN :
       /\ answer = NotConfirming => taken
       /\ confirming' = answer
       /\ queue' = IF taken THEN [queue EXCEPT ![confirming.job] = "queued"] ELSE queue
  /\ UNCHANGED <<data, blocked, durable, previews, accepted, latest, overtaken, receiptOf, busy, run, writing, asking,
                 told>>

\* A worker has seen the job.
Taken(j) == queue[j] \in {"started", "over"}

\* The request writes that its job has failed, whatever became of it.
SayFailed ==
  /\ confirming.step = "failed" /\ confirming' = NotConfirming
  /\ receiptOf' = Saved(confirming.job, "failed")
  /\ overtaken' = overtaken \cup {j \in {confirming.job} : Taken(j)}
  /\ UNCHANGED <<data, blocked, durable, previews, accepted, latest, queue, busy, run, writing, asking, told>>

\* The process that serves the request dies.
Abandon ==
  /\ confirming # NotConfirming /\ confirming' = NotConfirming
  /\ UNCHANGED <<data, blocked, durable, previews, accepted, latest, overtaken, receiptOf, queue, busy, run, writing,
                 asking, told>>

-----------------------------------------------------------------------------
(* run.                                                                    *)

\* Mutation of MayRun: a receipt of any state will do.
MayRunAny(j) == receiptOf[j].state # "none"

MayRun(j) == receiptOf[j].state = "queued"

\* The worker takes the job and reads its receipt, which may be too old.
TakeJob(j) ==
  /\ queue[j] = "queued" /\ run = NotRunning
  /\ \/ /\ MayRun(j)
        /\ run' = [job |-> j, step |-> "taken", digest |-> receiptOf[j].digest, passed |-> 0]
        /\ queue' = [queue EXCEPT ![j] = "started"]
        /\ UNCHANGED receiptOf
     \/ /\ receiptOf' = IF MayRun(j) THEN Saved(j, "failed") ELSE receiptOf
        /\ queue' = [queue EXCEPT ![j] = "over"]
        /\ UNCHANGED run
  /\ UNCHANGED <<data, blocked, durable, requestVars, busy, writing, asking, told>>

\* It raises the barrier and writes that it runs, without looking again.
RaiseBarrier ==
  /\ run.step = "taken"
  /\ busy' = run.job /\ receiptOf' = Saved(run.job, "running")
  /\ run' = [run EXCEPT !.step = "read", !.passed = writing]
  /\ UNCHANGED <<data, blocked, durable, requestVars, queue, writing, asking, told>>

\* Mutation of AsReviewed: the digest of the data is not compared again.
AsReviewedOnce(j) == receiptOf[j].state = "running" /\ receiptOf[j].digest = run.digest /\ ~blocked

\* _execute on the snapshot taken behind the barrier.
AsReviewed(j) ==
  receiptOf[j].state = "running" /\ receiptOf[j].digest = run.digest /\ run.digest = data /\ ~blocked

Execute ==
  /\ run.step = "read" /\ AsReviewed(run.job)
  /\ run' = [run EXCEPT !.step = "delete"]
  /\ UNCHANGED <<data, blocked, durable, requestVars, receiptOf, queue, busy, writing, asking, told>>

\* The deletion and its durable receipt commit together.
Commit ==
  /\ run.step = "delete"
  /\ data' = data + 1 /\ durable' = durable \cup {run.job}
  /\ run' = [run EXCEPT !.step = "settle"]
  /\ UNCHANGED <<blocked, requestVars, receiptOf, queue, busy, writing, asking, told>>

Settle ==
  /\ run.step = "settle"
  /\ receiptOf' = Saved(run.job, "completed") /\ busy' = 0
  /\ queue' = [queue EXCEPT ![run.job] = "over"] /\ run' = NotRunning
  /\ UNCHANGED <<data, blocked, durable, requestVars, writing, asking, told>>

\* Anything refused before the commit, or before the barrier: the transaction is
\* rolled back.
Refuse ==
  /\ run.step \in {"taken", "read", "delete"}
  /\ receiptOf' = Saved(run.job, "failed") /\ busy' = IF run.step = "taken" THEN busy ELSE 0
  /\ queue' = [queue EXCEPT ![run.job] = "over"] /\ run' = NotRunning
  /\ UNCHANGED <<data, blocked, durable, requestVars, writing, asking, told>>

\* The worker dies, and the queue notices.
Die ==
  /\ run # NotRunning /\ run' = NotRunning
  /\ UNCHANGED <<data, blocked, durable, requestVars, receiptOf, queue, busy, writing, asking, told>>

Notice ==
  /\ \E j \in Jobs : queue[j] = "started" /\ run.job # j /\ queue' = [queue EXCEPT ![j] = "over"]
  /\ UNCHANGED <<data, blocked, durable, requestVars, receiptOf, busy, run, writing, asking, told>>

-----------------------------------------------------------------------------
(* status, by the token that was exchanged for the job.                    *)

TellFailed(j) == told' = told \cup {j}

\* The durable receipt first, which tells of a success, then the one in Redis.
Ask(c, j) ==
  /\ asking[c] = NotAsking /\ j <= latest /\ j \notin durable
  /\ asking' = [asking EXCEPT ![c] = [job |-> j, state |-> "reading"]]
  /\ UNCHANGED <<data, blocked, durable, requestVars, receiptOf, queue, busy, run, writing, told>>

\* A receipt in progress is checked against the queue; one that is lost, or
\* says completed, is no answer.
Read(c) ==
  /\ asking[c].state = "reading"
  /\ LET j == asking[c].job
     IN IF receiptOf[j].state \in {"queued", "running"}
        THEN asking' = [asking EXCEPT ![c].state = "waiting"] /\ UNCHANGED told
        ELSE /\ asking' = [asking EXCEPT ![c] = NotAsking]
             /\ IF receiptOf[j].state = "failed" THEN TellFailed(j) ELSE UNCHANGED told
  /\ UNCHANGED <<data, blocked, durable, requestVars, receiptOf, queue, busy, run, writing>>

\* Mutation of CommittedNow: the durable receipt is not looked for again.
CommittedNowBefore(j) == FALSE

\* A locking read, which sees what has been committed meanwhile.
CommittedNow(j) == j \in durable

Answer(c) ==
  /\ asking[c].state = "waiting"
  /\ asking' = [asking EXCEPT ![c] = NotAsking]
  /\ LET j == asking[c].job
     IN IF queue[j] = "over" /\ ~CommittedNow(j)
        THEN /\ receiptOf' = Saved(j, "failed") /\ TellFailed(j)
             /\ busy' = IF busy = j THEN 0 ELSE busy
        ELSE UNCHANGED <<receiptOf, busy, told>>
  /\ UNCHANGED <<data, blocked, durable, requestVars, queue, run, writing>>

-----------------------------------------------------------------------------
(* Redis forgets; a token it forgets is one that nobody confirms any more. *)

Expire ==
  /\ \/ \E j \in Jobs : /\ receiptOf[j] # NoReceipt /\ queue[j] # "started"
                        /\ receiptOf' = [receiptOf EXCEPT ![j] = NoReceipt] /\ UNCHANGED busy
     \/ busy # 0 /\ run = NotRunning /\ busy' = 0 /\ UNCHANGED receiptOf
  /\ UNCHANGED <<data, blocked, durable, requestVars, queue, run, writing, asking, told>>

ResetInit ==
  /\ data = 0 /\ blocked = FALSE /\ durable = {}
  /\ previews = << >> /\ accepted = << >>
  /\ latest = 0 /\ confirming = NotConfirming /\ overtaken = {}
  /\ receiptOf = [j \in Jobs |-> NoReceipt] /\ queue = [j \in Jobs |-> "none"] /\ busy = 0
  /\ run = NotRunning /\ writing = 0
  /\ asking = [c \in Askers |-> NotAsking] /\ told = {}

ResetNext ==
  \/ LookAgain \/ CommitWrite \/ Preview \/ Enqueue \/ SayFailed \/ Abandon
  \/ RaiseBarrier \/ Execute \/ Commit \/ Settle \/ Refuse \/ Die \/ Notice \/ Expire
  \/ \E t \in DOMAIN previews : Perform(t)
  \/ \E j \in Jobs : TakeJob(j) \/ \E c \in Askers : Ask(c, j)
  \/ \E c \in Askers : Read(c) \/ Answer(c)

ResetSpec == ResetInit /\ [][ResetNext]_resetVars

-----------------------------------------------------------------------------
(* Properties.                                                             *)

\* Tokens, receipts and the worker are as the code keeps them.
ResetTypeOK ==
  /\ data \in 0..MaxWrites + MaxJobs /\ durable \subseteq Jobs /\ receiptOf \in [Jobs -> Receipt]
  /\ busy \in 0..MaxJobs /\ Len(accepted) = Len(previews)

\* A reset of which a client was told that it failed was not and never will be
\* committed, although the worker may die, finish or be refused between any two
\* reads of status.  The exception is a job whose request heard of a failure of
\* the queue when a worker had the job already.
ToldTruly == told \cap durable \subseteq overtaken

\* A reset deletes the data as they were shown in the preview that was
\* confirmed for it, once, whatever is written between preview and deletion,
\* but for the writes that had had their last look when the barrier rose.
DeletesWhatWasShown ==
  \A j \in durable' \ durable :
    \E t \in DOMAIN previews : accepted[t] = j /\ data \in previews[t]..previews[t] + run.passed

\* A reset does what was confirmed and says what it did, although requests,
\* worker and status calls share no lock (perform, run, _execute, _guard_commit,
\* status).
ResetAsShown == [][(ResetTypeOK /\ ToldTruly)' /\ DeletesWhatWasShown]_resetVars
=============================================================================
