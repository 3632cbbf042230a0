--------------------------- MODULE EjarSubmission ---------------------------
(***************************************************************************)
(* One ejar.contract record of l10n_sa_ejar, its submission to the Ejar    *)
(* ECRS service and the polling of its registration.                       *)
(*                                                                         *)
(* The record is shared by the users' requests, by the workers that run    *)
(* queue.job records and by the scheduled actions.  Each of them works in  *)
(* a REPEATABLE READ transaction; the submission pipeline commits after    *)
(* every stage, so it is several transactions, and a process may die       *)
(* between any two of them.  Ejar itself is external: it is the variable   *)
(* remote, moved only by the calls the code makes and by its own registrar.*)
(***************************************************************************)
EXTENDS Naturals, FiniteSets

CONSTANTS
    Users,       \* people with the contract form open
    Workers,     \* Odoo HTTP workers that serve /queue_job/runjob
    Cron,        \* the thread of the scheduled actions
    Jobs,        \* identities of queue.job records
    NoJob,       \* "no job"
    MaxTries,    \* max_retries of a job (MAX_SUBMISSION_RETRIES, MAX_POLL_RETRIES)
    Mortal,      \* the processes whose death a run considers
    MaxCrashes,  \* bound: deaths in one behaviour
    LateRunner,    \* may the runner send a job before it learns of its cancellation?
    OldForms,      \* may a status be asked for from a form that is out of date?
    SlowPipeline,  \* may a pipeline outlast the 10 seconds the runner grants it?
    Deployments    \* the installations a run considers

Procs == Users \cup Workers \cup {Cron}

(* "jobs": queue_job imports, its job decorator too; "inline": neither     *)
(* does; "shipped": the addon imports and has no decorator.                *)
ASSUME DeploymentAssumption ==
    /\ LateRunner \in BOOLEAN
    /\ OldForms \in BOOLEAN
    /\ SlowPipeline \in BOOLEAN
    /\ Deployments \subseteq {"jobs", "inline", "shipped"}

ASSUME ProcessAssumption ==
    /\ Users \cap Workers = {}
    /\ Cron \notin Users \cup Workers
    /\ Mortal \subseteq Procs
    /\ NoJob \notin Jobs
    /\ MaxTries \in Nat \ {0}
    /\ MaxCrashes \in Nat

Statuses == {"draft", "building", "ready", "submitting", "submitted",
             "approved", "rejected", "expired", "cancelled"}
Terminal == {"expired", "cancelled"}

(* What Ejar holds for the contract.  Filed: it has been submitted there.  *)
Filed      == {"submitted", "registered", "rejected", "expired", "terminated"}
Registered == {"registered", "expired", "terminated"}
Remotes    == {"none", "draft"} \cup Filed

Kinds     == {"submit", "poll"}
(* "withdrawn": cancelled, while the runner still holds it for pending.    *)
JobStates == {"none", "pending", "enqueued", "started", "done", "failed",
              "withdrawn", "cancelled"}
Live      == {"pending", "enqueued", "started"}
JobRecord == [state : JobStates, kind : Kinds, tries : 0 .. MaxTries + 1]

Errors == {"none", "transient", "permanent", "conflict", "database"}
Stages == {"idle", "enqueue", "job", "create", "submit", "finalize", "fail",
           "polling", "polled", "report"}

VARIABLES
    status,     \* ejar_status
    ejarId,     \* is ejar_contract_id stored?
    activeJob,  \* active_job_uuid
    activity,   \* has a "review the Ejar error" activity been scheduled?
    remote,     \* Ejar's own record of the contract
    job,        \* the queue.job records
    wizard,     \* users with a submission wizard open
    pc,         \* the stage each process is at
    task,       \* the job a worker runs
    tries,      \* the retry count a worker loaded with its job
    err,        \* the error a process is handling
    seen,       \* the contract state a poll was answered with
    stale,      \* has another transaction written the contract row since the
                \* process last committed?
    crashes,    \* deaths so far
    deployment  \* the installation: it stays as it is

contractVars == <<status, ejarId, activeJob, activity>>
procVars     == <<pc, task, tries, err, seen>>
moving == <<contractVars, remote, job, wizard, procVars, stale, crashes>>
vars   == <<moving, deployment>>

(* What the wizard tests, and what _QUEUE_JOB_AVAILABLE says.              *)
QueueJobImportable == deployment # "inline"
QueueJobUsable     == deployment = "jobs"

TypeOK ==
    /\ status \in Statuses
    /\ ejarId \in BOOLEAN
    /\ activeJob \in Jobs \cup {NoJob}
    /\ activity \in BOOLEAN
    /\ remote \in Remotes
    /\ job \in [Jobs -> JobRecord]
    /\ wizard \subseteq Users
    /\ pc \in [Procs -> Stages]
    /\ task \in [Procs -> Jobs \cup {NoJob}]
    /\ tries \in [Procs -> 0 .. MaxTries + 1]
    /\ err \in [Procs -> Errors]
    /\ seen \in [Procs -> Remotes]
    /\ stale \in [Procs -> BOOLEAN]
    /\ crashes \in 0 .. MaxCrashes
    /\ \A w \in Workers : pc[w] # "idle" => task[w] \in Jobs

Init ==
    /\ status = "draft"
    /\ ejarId = FALSE
    /\ activeJob = NoJob
    /\ activity = FALSE
    /\ remote = "none"
    /\ job = [j \in Jobs |-> [state |-> "none", kind |-> "submit", tries |-> 0]]
    /\ wizard = {}
    /\ pc = [p \in Procs |-> "idle"]
    /\ task = [p \in Procs |-> NoJob]
    /\ tries = [p \in Procs |-> 0]
    /\ err = [p \in Procs |-> "none"]
    /\ seen = [p \in Procs |-> "none"]
    /\ stale = [p \in Procs |-> FALSE]
    /\ crashes = 0
    /\ deployment \in Deployments

-----------------------------------------------------------------------------
(* Transactions on the contract row                                        *)

(* A request that is one transaction writes the row: every open            *)
(* transaction now works on an old version of it.                          *)
RowWritten == stale' = [p \in Procs |-> stale[p] \/ pc[p] # "idle"]

(* Process q writes the row and commits: its next read is of the present.  *)
RowCommitted(q) ==
    stale' = [p \in Procs |-> p # q /\ (stale[p] \/ pc[p] # "idle")]

(* Process q commits, or begins, without having written the row.           *)
Refreshed(q) == stale' = [stale EXCEPT ![q] = FALSE]

Goto(p, stage) == pc' = [pc EXCEPT ![p] = stage]

(* Process p has nothing left to do.                                       *)
Rest(p) ==
    /\ pc' = [pc EXCEPT ![p] = "idle"]
    /\ task' = [task EXCEPT ![p] = NoJob]
    /\ tries' = [tries EXCEPT ![p] = 0]
    /\ err' = [err EXCEPT ![p] = "none"]
    /\ seen' = [seen EXCEPT ![p] = "none"]

-----------------------------------------------------------------------------
(* What users do on the form.  Whether the data is complete is part of the *)
(* form's content, which is not modelled: a check on it may go either way. *)

SetStatus(from, to) ==
    /\ status \in from
    /\ status' = to
    /\ RowWritten
    /\ UNCHANGED <<ejarId, activeJob, activity, remote, job, wizard, procVars, crashes>>

StartBuilding == SetStatus({"draft"}, "building")
MarkReady     == SetStatus({"building"}, "ready")
UploadSignedDoc == SetStatus({"building"}, "ready")
EditForm      == SetStatus({status}, status)
ResetToDraft  == SetStatus({"rejected"}, "draft")
CancelContract == SetStatus(Statuses \ Terminal, "cancelled")

(* Opens the wizard; a complete contract still being built becomes ready.  *)
SubmitToEjar(u) ==
    /\ status \in {"ready", "building"}
    /\ wizard' = wizard \cup {u}
    /\ status' \in {status, "ready"}
    /\ IF status' = status THEN UNCHANGED stale ELSE RowWritten
    /\ UNCHANGED <<ejarId, activeJob, activity, remote, job, procVars, crashes>>

HasActiveJob == activeJob # NoJob /\ job[activeJob].state \in Live

(* The wizard reads the contract's data again and never its status: the    *)
(* contract may have moved on since the wizard was opened.                 *)
ConfirmAsync(u) ==
    /\ pc[u] = "idle" /\ u \in wizard
    /\ QueueJobImportable /\ QueueJobUsable
    /\ ~HasActiveJob
    /\ status' = "submitting"
    /\ RowCommitted(u)
    /\ Goto(u, "enqueue")
    /\ wizard' = wizard \ {u}
    /\ UNCHANGED <<ejarId, activeJob, activity, remote, job, task, tries, err, seen, crashes>>

(* Without queue_job the pipeline runs inside the user's own request.      *)
ConfirmSync(u) ==
    /\ pc[u] = "idle" /\ u \in wizard
    /\ ~QueueJobImportable
    /\ status' = "submitting"
    /\ RowCommitted(u)
    /\ Goto(u, "create")
    /\ wizard' = wizard \ {u}
    /\ UNCHANGED <<ejarId, activeJob, activity, remote, job, task, tries, err, seen, crashes>>

(* with_delay(identity_key): a job of the same identity that has not been  *)
(* started yet is returned in place of a new one.                          *)
SameIdentity(kind) == {j \in Jobs : job[j].kind = kind /\ job[j].state \in {"pending", "enqueued"}}

(* A record that has ended stands for any older one: enqueueing replaces   *)
(* active_job_uuid, so that nothing refers to it any more.                 *)
Unused == {j \in Jobs : /\ job[j].state \notin Live \cup {"withdrawn"}
                        /\ \A p \in Procs : task[p] # j}

WithDelay(kind) ==
    \E j \in IF SameIdentity(kind) # {} THEN SameIdentity(kind) ELSE Unused :
        /\ activeJob' = j
        /\ job' = IF SameIdentity(kind) # {} THEN job
                  ELSE [job EXCEPT ![j] = [state |-> "pending", kind |-> kind, tries |-> 0]]

(* The second transaction of the request: the job, and its uuid.           *)
Enqueue(u) ==
    /\ pc[u] = "enqueue"
    /\ WithDelay("submit")
    /\ RowCommitted(u)
    /\ Rest(u)
    /\ UNCHANGED <<status, ejarId, activity, remote, wizard, crashes>>

(* That transaction was refused: Odoo runs the whole request once more.    *)
RequestRetried(u) ==
    /\ pc[u] = "enqueue"
    /\ stale[u]
    /\ IF HasActiveJob
         THEN Rest(u) /\ Refreshed(u) /\ UNCHANGED status
         ELSE status' = "submitting" /\ RowCommitted(u) /\ UNCHANGED procVars
    /\ UNCHANGED <<ejarId, activeJob, activity, remote, job, wizard, crashes>>

CancelPendingJob ==
    /\ activeJob # NoJob
    /\ job[activeJob].state \in {"pending", "enqueued"}
    /\ job' = [job EXCEPT ![activeJob].state = IF @ = "pending" THEN "withdrawn" ELSE "cancelled",
                          ![activeJob].tries = 0]
    /\ status' = "ready"
    /\ activeJob' = NoJob
    /\ RowWritten
    /\ UNCHANGED <<ejarId, activity, remote, wizard, procVars, crashes>>

EnqueuePoll ==
    /\ QueueJobUsable
    /\ WithDelay("poll")
    /\ RowWritten
    /\ UNCHANGED <<status, ejarId, activity, remote, wizard, procVars, crashes>>

PollInline(p) ==
    /\ ~QueueJobUsable
    /\ pc[p] = "idle"
    /\ Goto(p, "polling")
    /\ Refreshed(p)
    /\ UNCHANGED <<contractVars, remote, job, wizard, task, tries, err, seen, crashes>>

(* The form offers the button on submitted and approved contracts; the     *)
(* method asks for the identifier only, and a form may be out of date.     *)
CheckStatus(u) ==
    /\ OldForms \/ status \in {"submitted", "approved"}
    /\ ejarId
    /\ EnqueuePoll \/ PollInline(u)

-----------------------------------------------------------------------------
(* Scheduled actions                                                       *)

CronPoll ==
    /\ status = "submitted"
    /\ EnqueuePoll \/ PollInline(Cron)

MarkDeadLetter ==
    /\ status' = "ready"
    /\ activeJob' = NoJob
    /\ activity' = TRUE

CronCleanup ==
    /\ status = "submitting"
    /\ activeJob # NoJob
    /\ job[activeJob].state \in {"failed", "withdrawn", "cancelled"}
    /\ MarkDeadLetter
    /\ RowWritten
    /\ UNCHANGED <<ejarId, remote, job, wizard, procVars, crashes>>

-----------------------------------------------------------------------------
(* The job runner                                                          *)

(* set_job_enqueued updates the row the runner holds for pending, whatever *)
(* its state is by now.                                                    *)
Dispatch(j) ==
    /\ job[j].state = "pending" \/ (LateRunner /\ job[j].state = "withdrawn")
    /\ job' = [job EXCEPT ![j].state = "enqueued"]
    /\ UNCHANGED <<contractVars, remote, wizard, procVars, stale, crashes>>

(* The notification of the cancellation reaches it in time.                *)
NoteCancelled(j) ==
    /\ job[j].state = "withdrawn"
    /\ job' = [job EXCEPT ![j].state = "cancelled"]
    /\ UNCHANGED <<contractVars, remote, wizard, procVars, stale, crashes>>

\* Faulty variant: the lock of a dead worker stays.
LockedForGood(j) == job[j].state = "started"

(* The row of queue_job_lock is locked until the worker's transaction ends:*)
(* a poll is one transaction, a submission commits when it begins.         *)
Locked(j) == \E w \in Workers : /\ task[w] = j
                                /\ pc[w] = "job" \/ (pc[w] # "idle" /\ job[j].kind = "poll")

RequeueDead(j) ==
    /\ job[j].state \in {"enqueued", "started"}
    /\ ~Locked(j)
    /\ SlowPipeline \/ \A w \in Workers : task[w] # j
    /\ job' = [job EXCEPT
                 ![j].state = IF job[j].tries > MaxTries THEN "failed" ELSE "pending",
                 ![j].tries = IF @ > MaxTries THEN 0 ELSE IF job[j].state = "started" THEN @ + 1 ELSE @]
    /\ UNCHANGED <<contractVars, remote, wizard, procVars, stale, crashes>>

-----------------------------------------------------------------------------
(* A worker's request on /queue_job/runjob                                 *)

StartJob(w, j) ==
    /\ pc[w] = "idle"
    /\ job[j].state = "enqueued"
    /\ job' = [job EXCEPT ![j].state = "started"]
    /\ Goto(w, "job")
    /\ task' = [task EXCEPT ![w] = j]
    /\ tries' = [tries EXCEPT ![w] = job[j].tries]
    /\ Refreshed(w)
    /\ UNCHANGED <<contractVars, remote, wizard, err, seen, crashes>>

\* Faulty variants: retried for ever; a refused write is taken for success.
OutcomeUnbounded(w, e) ==
    IF e = "none" THEN "done" ELSE IF e = "permanent" THEN "failed" ELSE "pending"
OutcomeSwallowed(w, e) ==
    IF e \in {"none", "database"} THEN "done"
    ELSE IF e = "permanent" \/ tries[w] + 1 >= MaxTries THEN "failed" ELSE "pending"

(* The retry count of a job that has ended is of no further use: it is 0.  *)
(* What the controller stores for a job whose method raised e, or returned *)
(* (e = "none").  Permanent errors become FailedJobError, all others       *)
(* RetryableJobError until the tries are used up.                          *)
Outcome(w, e) ==
    IF e = "none" THEN "done"
    ELSE IF e = "permanent" \/ tries[w] + 1 >= MaxTries THEN "failed" ELSE "pending"

JobEnds(w, e) ==
    /\ job' = [job EXCEPT ![task[w]].state = Outcome(w, e),
                          ![task[w]].tries = IF Outcome(w, e) = "pending" THEN tries[w] + 1 ELSE 0]
    /\ Rest(w)

JobIs(w, kind) == pc[w] = "job" /\ job[task[w]].kind = kind

(* job_execute_full_submission does nothing for a contract already filed.  *)
SubmissionNoop(w) ==
    /\ JobIs(w, "submit")
    /\ status \in {"submitted", "approved"}
    /\ JobEnds(w, "none")
    /\ Refreshed(w)
    /\ UNCHANGED <<contractVars, remote, wizard, crashes>>

BeginSubmission(w) ==
    /\ JobIs(w, "submit")
    /\ status \notin {"submitted", "approved"}
    /\ status' = "submitting"
    /\ RowCommitted(w)
    /\ Goto(w, "create")
    /\ UNCHANGED <<ejarId, activeJob, activity, remote, job, wizard, task, tries, err, seen, crashes>>

(* The contract was read before another transaction wrote it: the write of *)
(* 'submitting' is refused by the database and the job is retried.         *)
BeginConflict(w) ==
    /\ JobIs(w, "submit")
    /\ stale[w]
    /\ JobEnds(w, "database")
    /\ Refreshed(w)
    /\ UNCHANGED <<contractVars, remote, wizard, crashes>>

BeginPoll(w) ==
    /\ JobIs(w, "poll")
    /\ Refreshed(w)
    /\ IF status = "submitted" /\ ejarId
         THEN Goto(w, "polling") /\ UNCHANGED <<job, task, tries, err, seen>>
         ELSE JobEnds(w, "none")
    /\ UNCHANGED <<contractVars, remote, wizard, crashes>>

-----------------------------------------------------------------------------
(* The pipeline, run by a worker for a job or by a user's own request      *)

\* Faulty variant: a lost answer to the submit call is taken for success.
RaiseUnlessSubmitted(p, e) ==
    /\ Goto(p, IF pc[p] = "submit" /\ e = "transient" THEN "finalize" ELSE "fail")
    /\ err' = [err EXCEPT ![p] = IF pc[p] = "submit" /\ e = "transient" THEN "none" ELSE e]

Raise(p, e) == Goto(p, "fail") /\ err' = [err EXCEPT ![p] = e]

(* Steps 1-5: skipped when the identifier is stored, otherwise POST        *)
(* /contracts, whose 409 carries the identifier of the existing contract.  *)
CreateContract(p) ==
    /\ pc[p] = "create"
    /\ Goto(p, "submit")
    /\ ejarId' = TRUE
    /\ IF ejarId THEN Refreshed(p) /\ UNCHANGED remote
       ELSE /\ RowCommitted(p)
            /\ remote' = IF remote = "none" THEN "draft" ELSE remote
    /\ UNCHANGED <<status, activeJob, activity, job, wizard, task, tries, err, seen, crashes>>

(* Any of steps 1-5 fails; the contract may have been created at Ejar when *)
(* it is only the answer that was lost.                                    *)
CreateFails(p) ==
    /\ pc[p] = "create"
    /\ \E e \in {"transient", "permanent"} :
         /\ Raise(p, e)
         /\ \/ UNCHANGED remote
            \/ e = "transient" /\ ~ejarId /\ remote = "none" /\ remote' = "draft"
    /\ UNCHANGED <<contractVars, job, wizard, task, tries, seen, stale, crashes>>

(* Steps 6-13 leave nothing here but the possibility to fail, step 14 is   *)
(* POST /contracts/{id}/submit: Ejar files the contract, or answers a      *)
(* repeated request as it answered the first one.                          *)
SubmitContract(p) ==
    /\ pc[p] = "submit"
    /\ \/ remote \in {"draft", "rejected"} /\ remote' = "submitted"
       \/ remote \in Filed /\ UNCHANGED remote
    /\ Goto(p, "finalize")
    /\ Refreshed(p)
    /\ UNCHANGED <<contractVars, job, wizard, task, tries, err, seen, crashes>>

SubmitFails(p) ==
    /\ pc[p] = "submit"
    /\ \/ \E e \in {"transient", "permanent"} : Raise(p, e) /\ UNCHANGED remote
       \/ /\ remote \in {"draft", "rejected"}   \* filed, the answer is lost
          /\ remote' = "submitted"
          /\ Raise(p, "transient")
       \/ /\ remote \in Filed                   \* 409, which step 14 does not expect
          /\ Raise(p, "conflict")
          /\ UNCHANGED remote
    /\ UNCHANGED <<contractVars, job, wizard, task, tries, seen, stale, crashes>>

(* The process is through: a worker still has its job's state to store.    *)
LeavePipeline(p, e) ==
    IF p \in Workers
      THEN Goto(p, "report") /\ err' = [err EXCEPT ![p] = e] /\ UNCHANGED <<task, tries, seen>>
      ELSE Rest(p)

Finalize(p) ==
    /\ pc[p] = "finalize"
    /\ status' = "submitted"
    /\ RowCommitted(p)
    /\ LeavePipeline(p, "none")
    /\ UNCHANGED <<ejarId, activeJob, activity, remote, job, wizard, crashes>>

(* The except clause puts the contract back to 'ready', whatever it is now.*)
FailPipeline(p) ==
    /\ pc[p] = "fail"
    /\ status' = "ready"
    /\ RowCommitted(p)
    /\ LeavePipeline(p, err[p])
    /\ UNCHANGED <<ejarId, activeJob, activity, remote, job, wizard, crashes>>

(* A write of the contract row by a transaction that began before another  *)
(* one wrote it is refused; the transaction is dead, and so is the write   *)
(* of 'ready' the except clause attempts in it.                            *)
WriteRefused(p) ==
    /\ pc[p] \in {"create", "finalize", "fail"}
    /\ stale[p]
    /\ IF pc[p] = "create" /\ ~ejarId /\ remote = "none"
         THEN remote' = "draft" ELSE UNCHANGED remote
    /\ LeavePipeline(p, "database")
    /\ Refreshed(p)
    /\ UNCHANGED <<contractVars, job, wizard, crashes>>

(* _mark_dead_letter has run for a permanent error, and the controller's   *)
(* rollback takes what it wrote with it.                                   *)
Report(w) ==
    /\ w \in Workers
    /\ pc[w] = "report"
    /\ JobEnds(w, err[w])
    /\ Refreshed(w)
    /\ UNCHANGED <<contractVars, remote, wizard, crashes>>

-----------------------------------------------------------------------------
(* GET /contracts/{id} and what is made of the answer                      *)

PollAnswered(p) ==
    /\ pc[p] = "polling"
    /\ seen' = [seen EXCEPT ![p] = remote]
    /\ Goto(p, "polled")
    /\ UNCHANGED <<contractVars, remote, job, wizard, task, tries, err, stale, crashes>>

PollFails(p) ==
    /\ pc[p] = "polling"
    /\ IF p \in Workers
         THEN \E e \in {"transient", "permanent"} : JobEnds(p, e)
         ELSE Rest(p) /\ UNCHANGED job
    /\ Refreshed(p)
    /\ UNCHANGED <<contractVars, remote, wizard, crashes>>

\* Faulty variants: a filed contract counts as approved; rejection is unknown.
StateMapOptimistic(answer, current) ==
    CASE answer \in {"submitted", "registered"} -> "approved"
      [] answer = "rejected" -> "rejected"
      [] OTHER -> current
StateMapWithoutRejection(answer, current) ==
    IF answer = "registered" THEN "approved" ELSE current

(* Ejar's "active" is "registered" here: the map treats them alike.        *)
StateMap(answer, current) ==
    CASE answer = "registered" -> "approved"
      [] answer = "expired"    -> "expired"
      [] answer = "terminated" -> "cancelled"
      [] answer = "rejected"   -> "rejected"
      [] OTHER                 -> current

ApplyPoll(p) ==
    /\ pc[p] = "polled"
    /\ ~stale[p]
    /\ status' = StateMap(seen[p], status)
    /\ RowCommitted(p)
    /\ IF p \in Workers THEN JobEnds(p, "none") ELSE Rest(p) /\ UNCHANGED job
    /\ UNCHANGED <<ejarId, activeJob, activity, remote, wizard, crashes>>

(* The controller postpones a job whose last writes the database refuses,  *)
(* however often it has been tried.                                        *)
Postponed(w) ==
    /\ job' = [job EXCEPT ![task[w]].state = "pending",
                          ![task[w]].tries = IF tries[w] > MaxTries THEN tries[w] ELSE tries[w] + 1]
    /\ Rest(w)

(* The poll is one transaction: the row must not have been written since.  *)
(* The refusal comes while the method runs, or when the controller commits.*)
PollRefused(p) ==
    /\ pc[p] = "polled"
    /\ stale[p]
    /\ Refreshed(p)
    /\ IF p \in Workers THEN JobEnds(p, "database") \/ Postponed(p) ELSE Rest(p) /\ UNCHANGED job
    /\ UNCHANGED <<contractVars, remote, wizard, crashes>>

-----------------------------------------------------------------------------
(* Ejar, and death                                                         *)

RegistrarDecides ==
    /\ \/ remote = "submitted" /\ remote' \in {"registered", "rejected"}
       \/ remote = "registered" /\ remote' \in {"expired", "terminated"}
    /\ UNCHANGED <<contractVars, job, wizard, procVars, stale, crashes>>

(* The process is killed: its transaction is rolled back, its job is left  *)
(* 'started' and unlocked.                                                 *)
Crash(p) ==
    /\ p \in Mortal
    /\ pc[p] # "idle"
    /\ crashes < MaxCrashes
    /\ crashes' = crashes + 1
    /\ Rest(p)
    /\ Refreshed(p)
    /\ UNCHANGED <<contractVars, remote, job, wizard>>

-----------------------------------------------------------------------------
UserAction ==
    \/ StartBuilding \/ MarkReady \/ UploadSignedDoc \/ EditForm \/ ResetToDraft
    \/ CancelContract \/ CancelPendingJob
    \/ \E u \in Users : SubmitToEjar(u) \/ ConfirmAsync(u) \/ ConfirmSync(u) \/ CheckStatus(u)

Pipeline(p) ==
    \/ CreateContract(p) \/ CreateFails(p) \/ SubmitContract(p) \/ SubmitFails(p)
    \/ Finalize(p) \/ FailPipeline(p) \/ WriteRefused(p)

Polling(p) == PollAnswered(p) \/ PollFails(p) \/ ApplyPoll(p) \/ PollRefused(p)

WorkerStep(w) ==
    \/ SubmissionNoop(w) \/ BeginSubmission(w) \/ BeginConflict(w) \/ BeginPoll(w) \/ Report(w)

Runner(j) == Dispatch(j) \/ NoteCancelled(j) \/ RequeueDead(j)

Step ==
    \/ UserAction
    \/ CronPoll \/ CronCleanup
    \/ \E u \in Users : Enqueue(u) \/ RequestRetried(u)
    \/ \E j \in Jobs : Runner(j) \/ \E w \in Workers : StartJob(w, j)
    \/ \E w \in Workers : WorkerStep(w)
    \/ \E p \in Procs : Pipeline(p) \/ Polling(p) \/ Crash(p)
    \/ RegistrarDecides

Next == Step /\ UNCHANGED deployment

Spec == Init /\ [][Next]_vars

(* A living process goes on; the runner and the scheduler keep turning;    *)
(* Ejar does not refuse every poll for ever.  Users owe nothing.           *)
Fairness ==
    /\ \A u \in Users : SF_moving(Enqueue(u)) /\ WF_moving(RequestRetried(u))
    /\ \A p \in Procs : /\ WF_moving(Pipeline(p) \/ Polling(p))
                        /\ SF_moving(~stale[p] /\ PollAnswered(p))
                        /\ SF_moving(ApplyPoll(p))
    /\ \A w \in Workers : WF_moving(WorkerStep(w))
    /\ \A j \in Jobs : WF_moving(Runner(j)) /\ SF_moving(\E w \in Workers : StartJob(w, j))
    /\ WF_moving(CronPoll) /\ WF_moving(CronCleanup)

FairSpec == Spec /\ Fairness

-----------------------------------------------------------------------------
(* Odoo never claims more than Ejar has done: a contract shown as          *)
(* submitted or rejected has been filed, one shown as approved has been    *)
(* registered, one shown as expired has expired there, whatever pipelines, *)
(* polls, retries, cancellations and deaths interleave                     *)
(* (lifecycle_service.py:222-232, ejar_contract.py:532-572).               *)
NeverAheadOfEjar ==
    /\ status \in {"submitted", "rejected"} => remote \in Filed
    /\ status = "approved" => remote \in Registered
    /\ status = "expired" => remote = "expired"
    /\ ejarId => remote # "none"

(* What a process has learnt from Ejar and carries to its next write is    *)
(* still so when it writes, however long it took: nothing is locked at     *)
(* Ejar meanwhile (lifecycle_service.py:222-232, ejar_contract.py:532-572).*)
CarriedIsTrue ==
    \A p \in Procs :
        /\ pc[p] = "finalize" => remote \in Filed
        /\ seen[p] \in Registered => remote \in Registered
        /\ seen[p] = "expired" => remote = "expired"
        /\ seen[p] = "rejected" => remote \in Filed

(* The states in which a contract says something of Ejar.                  *)
Claimed == IF status \in {"submitted", "approved", "rejected", "expired"} THEN status ELSE "none"

Registration == INSTANCE EjarRegistration WITH claim <- Claimed, record <- remote

(* Every step of every process is a step of EjarRegistration or none at    *)
(* all: a claim is taken up when Ejar's record backs it and in no other    *)
(* step than the record's own, and Ejar's record never goes back           *)
(* (lifecycle_service.py:94-107, 222-232, ejar_contract.py:532-575).       *)
KeepsItsPromise == Registration!Spec

InPipeline(p) == pc[p] \in {"create", "submit", "finalize", "fail"}

(* Where jobs are used (an inline pipeline may leave it behind), a         *)
(* contract shown as being submitted has somebody to move it on: the       *)
(* request that is about to enqueue its job, a running pipeline, a live    *)
(* submission job, or a dead one the clean-up will find.  It is so as long *)
(* as no job of another submission or of a poll takes the place of a live  *)
(* one in active_job_uuid (the docstring of execute_full_submission,       *)
(* lifecycle_service.py:76-77, and ejar_contract_jobs.py:546-586).         *)
SubmittingIsOwned ==
    QueueJobUsable /\ status = "submitting" =>
        \/ \E p \in Procs : pc[p] = "enqueue" \/ InPipeline(p)
        \/ \E j \in Jobs : job[j].kind = "submit" /\ job[j].state \in Live
        \/ activeJob # NoJob /\ job[activeJob].state \in {"failed", "withdrawn", "cancelled"}

(* A contract does not stay 'submitting' for ever: its pipeline is retried *)
(* until it succeeds or the contract is handed back to the user            *)
(* (ejar_contract_jobs.py:303-349, 546-586, runner.py:327-424).            *)
SubmittingSettles == status = "submitting" ~> status # "submitting"

(* Ejar's decision on a submitted contract is learnt, whatever polls are   *)
(* lost, refused or given up on (ejar_contract_jobs.py:355-388, 491-540).  *)
DecisionLearnt ==
    status = "submitted" /\ remote \in {"registered", "rejected"} ~> status # "submitted"

-----------------------------------------------------------------------------
(* What the documentation says and the code does not do                    *)

(* "Move to submitting (blocks concurrent submissions)",                   *)
(* lifecycle_service.py:88.                                                *)
OnePipeline == \A p, q \in Procs : InPipeline(p) /\ InPipeline(q) => p = q

(* The wizard announces background processing when queue_job imports, and  *)
(* a confirmed submission is enqueued (ejar_submit_wizard.py:113-144): a   *)
(* user who keeps confirming is served.                                    *)
ConfirmationServed == \A u \in Users : u \in wizard ~> u \notin wizard

ConfirmingSpec == FairSpec /\ \A u \in Users : SF_moving(ConfirmAsync(u) \/ ConfirmSync(u))
=============================================================================
