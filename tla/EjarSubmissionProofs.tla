----------------------- MODULE EjarSubmissionProofs -----------------------
(***************************************************************************)
(* For any number of users, workers and jobs, any number of retries and    *)
(* deaths, and whichever way queue_job is deployed: the types of           *)
(* EjarSubmission, that Odoo never claims more than Ejar has done, and on  *)
(* what conditions a submitting contract has somebody to move it on.       *)
(***************************************************************************)
EXTENDS EjarSubmission, TLAPS

-----------------------------------------------------------------------------
(* Type correctness                                                        *)

(* A process at rest is typed as one at work.                              *)
LEMMA RestTyped ==
    ASSUME TypeOK, NEW p \in Procs, Rest(p)
    PROVE  /\ pc' \in [Procs -> Stages]
           /\ task' \in [Procs -> Jobs \cup {NoJob}]
           /\ tries' \in [Procs -> 0 .. MaxTries + 1]
           /\ err' \in [Procs -> Errors]
           /\ seen' \in [Procs -> Remotes]
           /\ \A w \in Workers : pc'[w] # "idle" => task'[w] \in Jobs
  BY ProcessAssumption DEF TypeOK, Rest, Stages, Errors, Remotes, Procs

(* Storing a state and a retry count leaves a job record.                  *)
LEMMA JobUpdateTyped ==
    ASSUME job \in [Jobs -> JobRecord],
           NEW j \in Jobs, NEW s \in JobStates, NEW n \in 0 .. MaxTries + 1
    PROVE  [job EXCEPT ![j].state = s, ![j].tries = n] \in [Jobs -> JobRecord]
  BY DEF JobRecord

(* What the controller stores at the end of a job is one.                  *)
LEMMA JobEndsTyped ==
    ASSUME TypeOK, NEW w \in Workers, pc[w] # "idle", NEW e \in Errors, JobEnds(w, e)
    PROVE  job' \in [Jobs -> JobRecord]
<1> DEFINE n == IF Outcome(w, e) = "pending" THEN tries[w] + 1 ELSE 0
<1>1. task[w] \in Jobs /\ tries[w] \in 0 .. MaxTries + 1
  BY DEF TypeOK, Procs
<1>2. Outcome(w, e) \in JobStates
  BY DEF Outcome, JobStates
<1>3. n \in 0 .. MaxTries + 1
  BY <1>1, ProcessAssumption DEF Outcome
<1>4. [job EXCEPT ![task[w]].state = Outcome(w, e), ![task[w]].tries = n] \in [Jobs -> JobRecord]
  <2> HIDE DEF n
  <2> QED BY <1>1, <1>2, <1>3, JobUpdateTyped DEF TypeOK
<1> QED
  BY <1>4 DEF JobEnds

LEMMA PostponedTyped ==
    ASSUME TypeOK, NEW w \in Workers, pc[w] # "idle", Postponed(w)
    PROVE  job' \in [Jobs -> JobRecord]
<1> DEFINE n == IF tries[w] > MaxTries THEN tries[w] ELSE tries[w] + 1
<1>1. task[w] \in Jobs /\ tries[w] \in 0 .. MaxTries + 1
  BY DEF TypeOK, Procs
<1>2. n \in 0 .. MaxTries + 1 /\ "pending" \in JobStates
  BY <1>1, ProcessAssumption DEF JobStates
<1>3. [job EXCEPT ![task[w]].state = "pending", ![task[w]].tries = n] \in [Jobs -> JobRecord]
  <2> HIDE DEF n
  <2> QED BY <1>1, <1>2, JobUpdateTyped DEF TypeOK
<1> QED
  BY <1>3 DEF Postponed

(* The stale marks stay marks.                                             *)
LEMMA StaleTyped ==
    ASSUME TypeOK, NEW q \in Procs, RowWritten \/ RowCommitted(q) \/ Refreshed(q)
    PROVE  stale' \in [Procs -> BOOLEAN]
  BY DEF TypeOK, RowWritten, RowCommitted, Refreshed

(* Enqueueing a job, directly or by a poll.                                *)
LEMMA WithDelayTyped ==
    ASSUME TypeOK, NEW kind \in Kinds, WithDelay(kind)
    PROVE  activeJob' \in Jobs \cup {NoJob} /\ job' \in [Jobs -> JobRecord]
  BY ProcessAssumption DEF TypeOK, WithDelay, SameIdentity, Unused, JobRecord, JobStates

LEMMA EnqueuePollTyped ==
    ASSUME TypeOK, EnqueuePoll
    PROVE  TypeOK'
<1>1. activeJob' \in Jobs \cup {NoJob} /\ job' \in [Jobs -> JobRecord]
  BY WithDelayTyped DEF EnqueuePoll, Kinds
<1> QED
  BY <1>1 DEF TypeOK, EnqueuePoll, RowWritten, procVars

LEMMA PollInlineTyped ==
    ASSUME TypeOK, NEW p \in Users \cup {Cron}, PollInline(p)
    PROVE  TypeOK'
  BY ProcessAssumption
     DEF TypeOK, PollInline, Refreshed, Goto, Procs, Stages, contractVars

(* What users do on the form.                                              *)
LEMMA FormTyped ==
    ASSUME TypeOK, UserAction
    PROVE  TypeOK'
<1> USE ProcessAssumption DEF Statuses, Terminal
<1>1. ASSUME NEW from \in SUBSET Statuses, NEW to \in Statuses, SetStatus(from, to)
      PROVE  TypeOK'
  BY <1>1 DEF TypeOK, SetStatus, RowWritten, procVars
<1>2. CASE StartBuilding
  BY <1>1, <1>2 DEF StartBuilding
<1>3. CASE MarkReady
  BY <1>1, <1>3 DEF MarkReady
<1>4. CASE UploadSignedDoc
  BY <1>1, <1>4 DEF UploadSignedDoc
<1>5. CASE EditForm
  BY <1>1, <1>5 DEF EditForm, TypeOK
<1>6. CASE ResetToDraft
  BY <1>1, <1>6 DEF ResetToDraft
<1>7. CASE CancelContract
  BY <1>1, <1>7 DEF CancelContract
<1>8. CASE CancelPendingJob
  <2> DEFINE s == IF job[activeJob].state = "pending" THEN "withdrawn" ELSE "cancelled"
  <2>1. activeJob \in Jobs
    BY <1>8 DEF TypeOK, CancelPendingJob
  <2>2. s \in JobStates /\ 0 \in 0 .. MaxTries + 1
    BY DEF JobStates
  <2>3. job' = [job EXCEPT ![activeJob].state = s, ![activeJob].tries = 0]
    BY <1>8, <2>1 DEF CancelPendingJob, TypeOK, JobRecord
  <2>4. job' \in [Jobs -> JobRecord]
    <3> HIDE DEF s
    <3>1. [job EXCEPT ![activeJob].state = s, ![activeJob].tries = 0] \in [Jobs -> JobRecord]
      BY <2>1, <2>2, JobUpdateTyped DEF TypeOK
    <3> QED
      BY <2>3, <3>1
  <2> QED
    BY <1>8, <2>4 DEF TypeOK, CancelPendingJob, RowWritten, procVars
<1>9. ASSUME NEW u \in Users, SubmitToEjar(u)
      PROVE  TypeOK'
  BY <1>9 DEF TypeOK, SubmitToEjar, RowWritten, procVars
<1>10. ASSUME NEW u \in Users, ConfirmAsync(u) \/ ConfirmSync(u)
       PROVE  TypeOK'
  <2>1. u \in Procs /\ RowCommitted(u)
    BY <1>10 DEF Procs, ConfirmAsync, ConfirmSync
  <2>2. stale' \in [Procs -> BOOLEAN]
    BY <2>1, StaleTyped
  <2>3. pc' \in [Procs -> Stages] /\ (\A p \in Procs \ {u} : pc'[p] = pc[p])
    <3>1. PICK stage \in Stages : Goto(u, stage)
      BY <1>10 DEF ConfirmAsync, ConfirmSync, Stages
    <3> QED
      BY <2>1, <3>1 DEF Goto, TypeOK
  <2>4. \A w \in Workers : w # u
    OBVIOUS
  <2>5. /\ status' = "submitting" /\ wizard' = wizard \ {u}
        /\ UNCHANGED <<ejarId, activeJob, activity, remote, job, task, tries, err, seen, crashes>>
    BY <1>10 DEF ConfirmAsync, ConfirmSync
  <2> QED
    BY <2>2, <2>3, <2>4, <2>5 DEF TypeOK, Procs
<1>11. ASSUME NEW u \in Users, CheckStatus(u)
       PROVE  TypeOK'
  <2>1. CASE EnqueuePoll
    BY <2>1, EnqueuePollTyped
  <2>2. CASE PollInline(u)
    BY <2>2, PollInlineTyped DEF Procs
  <2> QED
    BY <1>11, <2>1, <2>2 DEF CheckStatus
<1> QED
  BY <1>2, <1>3, <1>4, <1>5, <1>6, <1>7, <1>8, <1>9, <1>10, <1>11 DEF UserAction

(* Scheduled actions, the runner, Ejar and death.                          *)
LEMMA SurroundingsTyped ==
    ASSUME TypeOK,
           \/ CronPoll \/ CronCleanup \/ RegistrarDecides
           \/ \E u \in Users : Enqueue(u) \/ RequestRetried(u)
           \/ \E j \in Jobs : Runner(j)
           \/ \E p \in Procs : Crash(p)
    PROVE  TypeOK'
<1> USE ProcessAssumption
<1>1. CASE CronPoll
  BY <1>1, EnqueuePollTyped, PollInlineTyped DEF CronPoll
<1>2. CASE CronCleanup
  BY <1>2 DEF TypeOK, CronCleanup, MarkDeadLetter, RowWritten, Statuses, procVars
<1>3. CASE RegistrarDecides
  BY <1>3 DEF TypeOK, RegistrarDecides, Remotes, Filed, contractVars, procVars
<1>4. ASSUME NEW u \in Users, Enqueue(u)
      PROVE  TypeOK'
  <2>1. u \in Procs
    BY DEF Procs
  <2>2. activeJob' \in Jobs \cup {NoJob} /\ job' \in [Jobs -> JobRecord]
    BY <1>4, WithDelayTyped DEF Enqueue, Kinds
  <2> QED
    BY <1>4, <2>1, <2>2, RestTyped, StaleTyped DEF TypeOK, Enqueue
<1>5. ASSUME NEW u \in Users, RequestRetried(u)
      PROVE  TypeOK'
  <2>1. u \in Procs
    BY DEF Procs
  <2>2. CASE HasActiveJob
    BY <1>5, <2>1, <2>2, RestTyped, StaleTyped DEF TypeOK, RequestRetried
  <2>3. CASE ~HasActiveJob
    BY <1>5, <2>1, <2>3, StaleTyped DEF TypeOK, RequestRetried, Statuses, procVars
  <2> QED
    BY <2>2, <2>3
<1>6. ASSUME NEW j \in Jobs, Dispatch(j) \/ NoteCancelled(j)
      PROVE  TypeOK'
  <2>1. job' \in [Jobs -> JobRecord]
    <3>1. PICK state \in JobStates : job' = [job EXCEPT ![j].state = state]
      BY <1>6 DEF Dispatch, NoteCancelled, JobStates
    <3> QED
      BY <3>1 DEF TypeOK, JobRecord
  <2> QED
    BY <1>6, <2>1 DEF TypeOK, Dispatch, NoteCancelled, contractVars, procVars
<1>7. ASSUME NEW j \in Jobs, RequeueDead(j)
      PROVE  TypeOK'
  <2> DEFINE s == IF job[j].tries > MaxTries THEN "failed" ELSE "pending"
             n == IF job[j].tries > MaxTries THEN 0
                  ELSE IF job[j].state = "started" THEN job[j].tries + 1 ELSE job[j].tries
  <2>1. s \in JobStates /\ n \in 0 .. MaxTries + 1
    BY DEF TypeOK, JobRecord, JobStates
  <2>2. job' = [job EXCEPT ![j].state = s, ![j].tries = n]
    BY <1>7 DEF RequeueDead, TypeOK, JobRecord
  <2>3. job' \in [Jobs -> JobRecord]
    <3> HIDE DEF s, n
    <3>1. [job EXCEPT ![j].state = s, ![j].tries = n] \in [Jobs -> JobRecord]
      BY <2>1, JobUpdateTyped DEF TypeOK
    <3> QED
      BY <2>2, <3>1
  <2> QED
    BY <1>7, <2>3 DEF TypeOK, RequeueDead, contractVars, procVars
<1>8. ASSUME NEW p \in Procs, Crash(p)
      PROVE  TypeOK'
  BY <1>8, RestTyped, StaleTyped DEF TypeOK, Crash, contractVars
<1> QED
  BY <1>1, <1>2, <1>3, <1>4, <1>5, <1>6, <1>7, <1>8 DEF Runner

(* A worker's own steps.                                                   *)
LEMMA WorkerTyped ==
    ASSUME TypeOK, NEW w \in Workers,
           WorkerStep(w) \/ \E j \in Jobs : StartJob(w, j)
    PROVE  TypeOK'
<1>1. w \in Procs
  BY DEF Procs
<1> USE <1>1
<1>2. ASSUME NEW j \in Jobs, StartJob(w, j)
      PROVE  TypeOK'
  <2>1. job' \in [Jobs -> JobRecord] /\ job[j].tries \in 0 .. MaxTries + 1
    BY <1>2 DEF TypeOK, StartJob, JobRecord, JobStates
  <2> QED
    BY <1>2, <2>1 DEF TypeOK, StartJob, Goto, Refreshed, Stages, contractVars
<1>3. CASE SubmissionNoop(w)
  BY <1>3, JobEndsTyped, RestTyped, StaleTyped
     DEF TypeOK, SubmissionNoop, JobIs, JobEnds, Errors, contractVars
<1>4. CASE BeginSubmission(w)
  BY <1>4, StaleTyped DEF TypeOK, BeginSubmission, JobIs, Goto, Stages, Statuses
<1>5. CASE BeginConflict(w)
  BY <1>5, JobEndsTyped, RestTyped, StaleTyped
     DEF TypeOK, BeginConflict, JobIs, JobEnds, Errors, contractVars
<1>6. CASE BeginPoll(w)
  <2>1. CASE status = "submitted" /\ ejarId
    <3>1. /\ pc[w] = "job" /\ Goto(w, "polling") /\ Refreshed(w)
          /\ UNCHANGED <<contractVars, remote, job, wizard, task, tries, err, seen, crashes>>
      BY <1>6, <2>1 DEF BeginPoll, JobIs
    <3> QED
      BY <3>1, StaleTyped DEF TypeOK, Goto, Stages, contractVars
  <2>2. CASE ~(status = "submitted" /\ ejarId)
    BY <1>6, <2>2, JobEndsTyped, RestTyped, StaleTyped
       DEF TypeOK, BeginPoll, JobIs, JobEnds, Errors, contractVars
  <2> QED
    BY <2>1, <2>2
<1>7. CASE Report(w)
  <2>1. err[w] \in Errors
    BY DEF TypeOK
  <2>2. job' \in [Jobs -> JobRecord]
    BY <1>7, <2>1, JobEndsTyped DEF Report
  <2> QED
    BY <1>7, <2>2, RestTyped, StaleTyped DEF TypeOK, Report, JobEnds, contractVars
<1> QED
  BY <1>2, <1>3, <1>4, <1>5, <1>6, <1>7 DEF WorkerStep

(* Leaving the pipeline.                                                   *)
LEMMA LeavePipelineTyped ==
    ASSUME TypeOK, NEW p \in Procs, pc[p] # "idle", NEW e \in Errors, LeavePipeline(p, e)
    PROVE  /\ pc' \in [Procs -> Stages]
           /\ task' \in [Procs -> Jobs \cup {NoJob}]
           /\ tries' \in [Procs -> 0 .. MaxTries + 1]
           /\ err' \in [Procs -> Errors]
           /\ seen' \in [Procs -> Remotes]
           /\ \A w \in Workers : pc'[w] # "idle" => task'[w] \in Jobs
<1>1. CASE p \in Workers
  <2>1. Goto(p, "report") /\ err' = [err EXCEPT ![p] = e] /\ UNCHANGED <<task, tries, seen>>
    BY <1>1 DEF LeavePipeline
  <2> QED
    BY <2>1 DEF TypeOK, Goto, Stages
<1>2. CASE p \notin Workers
  BY <1>2, RestTyped DEF LeavePipeline
<1> QED
  BY <1>1, <1>2

(* The pipeline, whoever runs it.                                          *)
LEMMA PipelineTyped ==
    ASSUME TypeOK, NEW p \in Procs, Pipeline(p)
    PROVE  TypeOK'
<1>1. CASE CreateContract(p)
  BY <1>1, StaleTyped DEF TypeOK, CreateContract, Goto, Stages, Remotes
<1>2. CASE CreateFails(p)
  BY <1>2 DEF TypeOK, CreateFails, Raise, Goto, Stages, Errors, Remotes, contractVars
<1>3. CASE SubmitContract(p)
  BY <1>3, StaleTyped DEF TypeOK, SubmitContract, Goto, Stages, Remotes, Filed, contractVars
<1>4. CASE SubmitFails(p)
  <2>1. remote' \in Remotes
    BY <1>4 DEF TypeOK, SubmitFails, Remotes, Filed
  <2>2. PICK e \in Errors : Raise(p, e)
    BY <1>4 DEF SubmitFails, Errors
  <2>3. /\ pc[p] = "submit"
        /\ UNCHANGED <<contractVars, job, wizard, task, tries, seen, stale, crashes>>
    BY <1>4 DEF SubmitFails
  <2> QED
    BY <2>1, <2>2, <2>3 DEF TypeOK, Raise, Goto, Stages, contractVars
<1>5. CASE Finalize(p)
  BY <1>5, LeavePipelineTyped, StaleTyped DEF TypeOK, Finalize, Statuses, Errors
<1>6. CASE FailPipeline(p)
  <2>1. err[p] \in Errors
    BY DEF TypeOK
  <2> QED
    BY <1>6, <2>1, LeavePipelineTyped, StaleTyped DEF TypeOK, FailPipeline, Statuses
<1>7. CASE WriteRefused(p)
  BY <1>7, LeavePipelineTyped, StaleTyped DEF TypeOK, WriteRefused, Errors, Remotes, contractVars
<1> QED
  BY <1>1, <1>2, <1>3, <1>4, <1>5, <1>6, <1>7 DEF Pipeline

(* Polling, whoever polls.                                                 *)
LEMMA PollingTyped ==
    ASSUME TypeOK, NEW p \in Procs, Polling(p)
    PROVE  TypeOK'
<1>1. CASE PollAnswered(p)
  BY <1>1 DEF TypeOK, PollAnswered, Goto, Stages, contractVars
<1>2. CASE PollFails(p)
  <2>1. CASE p \in Workers
    BY <1>2, <2>1, JobEndsTyped, RestTyped, StaleTyped
       DEF TypeOK, PollFails, JobEnds, Errors, contractVars
  <2>2. CASE p \notin Workers
    BY <1>2, <2>2, RestTyped, StaleTyped DEF TypeOK, PollFails, contractVars
  <2> QED
    BY <2>1, <2>2
<1>3. CASE ApplyPoll(p)
  <2>1. status' \in Statuses
    BY <1>3 DEF TypeOK, ApplyPoll, StateMap, Statuses
  <2>2. CASE p \in Workers
    BY <1>3, <2>1, <2>2, JobEndsTyped, RestTyped, StaleTyped DEF TypeOK, ApplyPoll, JobEnds, Errors
  <2>3. CASE p \notin Workers
    BY <1>3, <2>1, <2>3, RestTyped, StaleTyped DEF TypeOK, ApplyPoll
  <2> QED
    BY <2>2, <2>3
<1>4. CASE PollRefused(p)
  <2>1. CASE p \in Workers
    <3>1. job' \in [Jobs -> JobRecord] /\ Rest(p)
      BY <1>4, <2>1, JobEndsTyped, PostponedTyped DEF PollRefused, JobEnds, Postponed, Errors
    <3> QED
      BY <1>4, <2>1, <3>1, RestTyped, StaleTyped DEF TypeOK, PollRefused, contractVars
  <2>2. CASE p \notin Workers
    BY <1>4, <2>2, RestTyped, StaleTyped DEF TypeOK, PollRefused, contractVars
  <2> QED
    BY <2>1, <2>2
<1> QED
  BY <1>1, <1>2, <1>3, <1>4 DEF Polling

LEMMA InitTyped == Init => TypeOK
<1> SUFFICES ASSUME Init
             PROVE  TypeOK
  OBVIOUS
<1>1. [state |-> "none", kind |-> "submit", tries |-> 0] \in JobRecord
  BY ProcessAssumption DEF JobRecord, JobStates, Kinds
<1>2. job \in [Jobs -> JobRecord]
  BY <1>1 DEF Init
<1>3. /\ pc \in [Procs -> Stages] /\ task \in [Procs -> Jobs \cup {NoJob}]
      /\ err \in [Procs -> Errors] /\ seen \in [Procs -> Remotes]
  BY DEF Init, Stages, Errors, Remotes
<1>4. tries \in [Procs -> 0 .. MaxTries + 1] /\ crashes \in 0 .. MaxCrashes
  BY ProcessAssumption DEF Init
<1>5. stale \in [Procs -> BOOLEAN]
  BY DEF Init
<1>6. \A w \in Workers : pc[w] = "idle"
  BY DEF Init, Procs
<1> QED
  BY <1>2, <1>3, <1>4, <1>5, <1>6 DEF Init, TypeOK, Statuses, Remotes

LEMMA TypeStep == TypeOK /\ [Next]_vars => TypeOK'
<1> SUFFICES ASSUME TypeOK, [Next]_vars
             PROVE  TypeOK'
  OBVIOUS
<1>1. CASE UNCHANGED vars
  BY <1>1 DEF TypeOK, vars, moving, contractVars, procVars
<1> QED
  BY <1>1, FormTyped, SurroundingsTyped, WorkerTyped, PipelineTyped, PollingTyped DEF Next, Step

(* Every state the contract, its jobs and its processes go through is one  *)
(* the code's types allow: no job is retried more often than max_retries   *)
(* lets it, and a worker that is busy has a job (queue_job/job.py:509-534).*)
THEOREM TypeCorrect == Spec => []TypeOK
  BY InitTyped, TypeStep, PTL DEF Spec

-----------------------------------------------------------------------------
(* Odoo never claims more than Ejar has done.  The invariant alone is not  *)
(* inductive: a pipeline that is about to write 'submitted', and a poll    *)
(* that is about to write what it was told, write what they learnt at an   *)
(* earlier moment.                                                         *)
IInv == TypeOK /\ NeverAheadOfEjar /\ CarriedIsTrue

(* What has happened at Ejar does not unhappen.                            *)
RemoteGrows ==
    /\ remote \in Filed => remote' \in Filed
    /\ remote \in Registered => remote' \in Registered
    /\ remote = "expired" => remote' = "expired"
    /\ remote # "none" => remote' # "none"

(* The step claims nothing new of the contract.                            *)
ClaimsNothing ==
    /\ ejarId' = ejarId
    /\ status' = status \/ status' \in {"draft", "building", "ready", "submitting", "cancelled"}

(* The step carries nothing new from Ejar.                                 *)
CarriesNothing ==
    \A p \in Procs : /\ pc'[p] = "finalize" => pc[p] = "finalize"
                     /\ seen'[p] = seen[p] \/ seen'[p] = "none"

LEMMA QuietStep ==
    ASSUME IInv, RemoteGrows, ClaimsNothing, CarriesNothing
    PROVE  NeverAheadOfEjar' /\ CarriedIsTrue'
<1>1. NeverAheadOfEjar'
  BY DEF IInv, NeverAheadOfEjar, RemoteGrows, ClaimsNothing
<1>2. CarriedIsTrue'
  BY DEF IInv, CarriedIsTrue, RemoteGrows, CarriesNothing, Filed, Registered
<1> QED
  BY <1>1, <1>2

LEMMA RestCarriesNothing ==
    ASSUME TypeOK, NEW p \in Procs, Rest(p)
    PROVE  CarriesNothing
  BY DEF TypeOK, Rest, CarriesNothing

LEMMA FormQuiet ==
    ASSUME TypeOK, UserAction
    PROVE  RemoteGrows /\ ClaimsNothing /\ CarriesNothing
<1> USE DEF RemoteGrows, ClaimsNothing, CarriesNothing, TypeOK
<1>1. ASSUME NEW from \in SUBSET Statuses,
             NEW to \in {status, "draft", "building", "ready", "cancelled"}, SetStatus(from, to)
      PROVE  RemoteGrows /\ ClaimsNothing /\ CarriesNothing
  BY <1>1 DEF SetStatus, procVars
<1>2. CASE StartBuilding
  BY <1>1, <1>2 DEF StartBuilding, Statuses
<1>3. CASE MarkReady
  BY <1>1, <1>3 DEF MarkReady, Statuses
<1>4. CASE UploadSignedDoc
  BY <1>1, <1>4 DEF UploadSignedDoc, Statuses
<1>5. CASE EditForm
  BY <1>1, <1>5 DEF EditForm
<1>6. CASE ResetToDraft
  BY <1>1, <1>6 DEF ResetToDraft, Statuses
<1>7. CASE CancelContract
  BY <1>1, <1>7 DEF CancelContract
<1>8. CASE CancelPendingJob
  BY <1>8 DEF CancelPendingJob, procVars
<1>9. ASSUME NEW u \in Users,
             SubmitToEjar(u) \/ ConfirmAsync(u) \/ ConfirmSync(u) \/ CheckStatus(u)
      PROVE  RemoteGrows /\ ClaimsNothing /\ CarriesNothing
  <2>1. CASE SubmitToEjar(u)
    BY <2>1 DEF SubmitToEjar, procVars
  <2>2. CASE ConfirmAsync(u)
    BY <2>2 DEF ConfirmAsync, Goto, Procs
  <2>3. CASE ConfirmSync(u)
    BY <2>3 DEF ConfirmSync, Goto, Procs
  <2>4. CASE EnqueuePoll
    BY <2>4 DEF EnqueuePoll, procVars
  <2>5. CASE PollInline(u)
    BY <2>5 DEF PollInline, Goto, Procs, contractVars
  <2> QED
    BY <1>9, <2>1, <2>2, <2>3, <2>4, <2>5 DEF CheckStatus
<1> QED
  BY <1>2, <1>3, <1>4, <1>5, <1>6, <1>7, <1>8, <1>9 DEF UserAction

LEMMA SurroundingsQuiet ==
    ASSUME TypeOK,
           \/ CronPoll \/ CronCleanup \/ RegistrarDecides
           \/ \E u \in Users : Enqueue(u) \/ RequestRetried(u)
           \/ \E j \in Jobs : Runner(j)
           \/ \E p \in Procs : Crash(p)
    PROVE  RemoteGrows /\ ClaimsNothing /\ CarriesNothing
<1> USE DEF RemoteGrows, ClaimsNothing
<1>1. CASE EnqueuePoll
  BY <1>1 DEF EnqueuePoll, procVars, CarriesNothing
<1>2. CASE PollInline(Cron)
  BY <1>2 DEF PollInline, Goto, Procs, contractVars, CarriesNothing, TypeOK
<1>3. CASE CronCleanup
  BY <1>3 DEF CronCleanup, MarkDeadLetter, procVars, CarriesNothing
<1>4. CASE RegistrarDecides
  BY <1>4 DEF RegistrarDecides, Filed, Registered, contractVars, procVars, CarriesNothing
<1>5. ASSUME NEW u \in Users, Enqueue(u)
      PROVE  RemoteGrows /\ ClaimsNothing /\ CarriesNothing
  BY <1>5, RestCarriesNothing DEF Enqueue, Procs
<1>6. ASSUME NEW u \in Users, RequestRetried(u)
      PROVE  RemoteGrows /\ ClaimsNothing /\ CarriesNothing
  <2>1. CASE HasActiveJob
    BY <1>6, <2>1, RestCarriesNothing DEF RequestRetried, Procs
  <2>2. CASE ~HasActiveJob
    BY <1>6, <2>2 DEF RequestRetried, procVars, CarriesNothing
  <2> QED
    BY <2>1, <2>2
<1>7. ASSUME NEW j \in Jobs, Runner(j)
      PROVE  RemoteGrows /\ ClaimsNothing /\ CarriesNothing
  BY <1>7 DEF Runner, Dispatch, NoteCancelled, RequeueDead, contractVars, procVars, CarriesNothing
<1>8. ASSUME NEW p \in Procs, Crash(p)
      PROVE  RemoteGrows /\ ClaimsNothing /\ CarriesNothing
  BY <1>8, RestCarriesNothing DEF Crash, contractVars
<1> QED
  BY <1>1, <1>2, <1>3, <1>4, <1>5, <1>6, <1>7, <1>8 DEF CronPoll

LEMMA WorkerQuiet ==
    ASSUME TypeOK, NEW w \in Workers,
           WorkerStep(w) \/ \E j \in Jobs : StartJob(w, j)
    PROVE  RemoteGrows /\ ClaimsNothing /\ CarriesNothing
<1> USE DEF RemoteGrows, ClaimsNothing
<1>1. w \in Procs
  BY DEF Procs
<1>2. ASSUME NEW j \in Jobs, StartJob(w, j)
      PROVE  RemoteGrows /\ ClaimsNothing /\ CarriesNothing
  BY <1>1, <1>2 DEF TypeOK, StartJob, Goto, CarriesNothing, contractVars
<1>3. CASE SubmissionNoop(w)
  BY <1>1, <1>3, RestCarriesNothing DEF SubmissionNoop, JobEnds, contractVars
<1>4. CASE BeginSubmission(w)
  BY <1>1, <1>4 DEF TypeOK, BeginSubmission, Goto, CarriesNothing
<1>5. CASE BeginConflict(w)
  BY <1>1, <1>5, RestCarriesNothing DEF BeginConflict, JobEnds, contractVars
<1>6. CASE BeginPoll(w)
  <2>1. CASE status = "submitted" /\ ejarId
    BY <1>1, <1>6, <2>1 DEF TypeOK, BeginPoll, Goto, CarriesNothing, contractVars
  <2>2. CASE ~(status = "submitted" /\ ejarId)
    BY <1>1, <1>6, <2>2, RestCarriesNothing DEF BeginPoll, JobEnds, contractVars
  <2> QED
    BY <2>1, <2>2
<1>7. CASE Report(w)
  BY <1>1, <1>7, RestCarriesNothing DEF Report, JobEnds, contractVars
<1> QED
  BY <1>2, <1>3, <1>4, <1>5, <1>6, <1>7 DEF WorkerStep

LEMMA LeaveCarriesNothing ==
    ASSUME TypeOK, NEW p \in Procs, NEW e, LeavePipeline(p, e)
    PROVE  CarriesNothing
<1>1. CASE p \in Workers
  BY <1>1 DEF TypeOK, LeavePipeline, Goto, CarriesNothing
<1>2. CASE p \notin Workers
  BY <1>2, RestCarriesNothing DEF LeavePipeline
<1> QED
  BY <1>1, <1>2

(* The pipeline claims 'submitted' only for what Ejar has acknowledged.    *)
LEMMA PipelineBacked ==
    ASSUME IInv, NEW p \in Procs, Pipeline(p)
    PROVE  NeverAheadOfEjar' /\ CarriedIsTrue'
<1>0. TypeOK /\ NeverAheadOfEjar /\ CarriedIsTrue
  BY DEF IInv
<1>1. CASE CreateContract(p)
  <2>1. RemoteGrows /\ CarriesNothing /\ remote' # "none" /\ status' = status
    BY <1>0, <1>1
       DEF CreateContract, Goto, RemoteGrows, CarriesNothing, TypeOK, NeverAheadOfEjar, Filed, Registered
  <2>2. NeverAheadOfEjar'
    BY <1>0, <2>1 DEF NeverAheadOfEjar, RemoteGrows
  <2>3. CarriedIsTrue'
    BY <1>0, <2>1 DEF CarriedIsTrue, RemoteGrows, CarriesNothing, Filed, Registered
  <2> QED
    BY <2>2, <2>3
<1>2. CASE CreateFails(p)
  <2>1. RemoteGrows /\ ClaimsNothing
    BY <1>2 DEF CreateFails, RemoteGrows, ClaimsNothing, Filed, Registered, contractVars
  <2>2. CarriesNothing
    BY <1>0, <1>2 DEF CreateFails, Raise, Goto, CarriesNothing, TypeOK
  <2> QED
    BY <2>1, <2>2, QuietStep
<1>3. CASE SubmitContract(p)
  <2>1. RemoteGrows /\ ClaimsNothing /\ remote' \in Filed
    BY <1>3 DEF SubmitContract, RemoteGrows, ClaimsNothing, Filed, Registered, contractVars
  <2>2. NeverAheadOfEjar'
    BY <1>0, <2>1 DEF NeverAheadOfEjar, RemoteGrows, ClaimsNothing
  <2>3. seen' = seen
    BY <1>3 DEF SubmitContract
  <2>4. CarriedIsTrue'
    BY <1>0, <2>1, <2>3 DEF CarriedIsTrue, RemoteGrows
  <2> QED
    BY <2>2, <2>4
<1>4. CASE SubmitFails(p)
  <2>1. RemoteGrows /\ ClaimsNothing
    BY <1>4 DEF SubmitFails, RemoteGrows, ClaimsNothing, Filed, Registered, contractVars
  <2>2. CarriesNothing
    BY <1>0, <1>4 DEF SubmitFails, Raise, Goto, CarriesNothing, TypeOK
  <2> QED
    BY <2>1, <2>2, QuietStep
<1>5. CASE Finalize(p)
  <2>1. status' = "submitted" /\ UNCHANGED <<ejarId, remote>> /\ CarriesNothing
    BY <1>0, <1>5, LeaveCarriesNothing DEF Finalize
  <2>2. remote \in Filed
    BY <1>0, <1>5 DEF Finalize, CarriedIsTrue
  <2>3. NeverAheadOfEjar'
    BY <1>0, <2>1, <2>2 DEF NeverAheadOfEjar
  <2>4. CarriedIsTrue'
    BY <1>0, <2>1 DEF CarriedIsTrue, CarriesNothing, Filed, Registered
  <2> QED
    BY <2>3, <2>4
<1>6. CASE FailPipeline(p)
  BY <1>0, <1>6, LeaveCarriesNothing, QuietStep DEF FailPipeline, RemoteGrows, ClaimsNothing
<1>7. CASE WriteRefused(p)
  <2>1. RemoteGrows /\ ClaimsNothing
    BY <1>7 DEF WriteRefused, RemoteGrows, ClaimsNothing, Filed, Registered, contractVars
  <2> QED
    BY <1>0, <1>7, <2>1, LeaveCarriesNothing, QuietStep DEF WriteRefused
<1> QED
  BY <1>1, <1>2, <1>3, <1>4, <1>5, <1>6, <1>7 DEF Pipeline

(* A poll writes what it was told, and what it was told is still so.       *)
LEMMA PollingBacked ==
    ASSUME IInv, NEW p \in Procs, Polling(p)
    PROVE  NeverAheadOfEjar' /\ CarriedIsTrue'
<1>0. TypeOK /\ NeverAheadOfEjar /\ CarriedIsTrue
  BY DEF IInv
<1>1. CASE PollAnswered(p)
  <2>1. /\ UNCHANGED <<status, ejarId, remote>>
        /\ pc'[p] # "finalize" /\ seen'[p] = remote
        /\ \A q \in Procs : q # p => pc'[q] = pc[q] /\ seen'[q] = seen[q]
    BY <1>0, <1>1 DEF PollAnswered, Goto, TypeOK, contractVars
  <2>2. NeverAheadOfEjar'
    BY <1>0, <2>1 DEF NeverAheadOfEjar
  <2>3. CarriedIsTrue'
    BY <1>0, <2>1 DEF CarriedIsTrue, Filed
  <2> QED
    BY <2>2, <2>3
<1>2. CASE PollFails(p) \/ PollRefused(p)
  <2>1. Rest(p) /\ UNCHANGED <<contractVars, remote>>
    BY <1>2 DEF PollFails, PollRefused, JobEnds, Postponed
  <2> QED
    BY <1>0, <2>1, RestCarriesNothing, QuietStep DEF RemoteGrows, ClaimsNothing, contractVars
<1>3. CASE ApplyPoll(p)
  <2>1. Rest(p) /\ UNCHANGED <<ejarId, remote>> /\ status' = StateMap(seen[p], status)
    BY <1>3 DEF ApplyPoll, JobEnds
  <2>2. NeverAheadOfEjar'
    BY <1>0, <2>1 DEF NeverAheadOfEjar, CarriedIsTrue, StateMap, Registered
  <2>3. CarriedIsTrue'
    BY <1>0, <2>1, RestCarriesNothing DEF CarriedIsTrue, CarriesNothing, Filed, Registered
  <2> QED
    BY <2>2, <2>3
<1> QED
  BY <1>1, <1>2, <1>3 DEF Polling

LEMMA Inductive == IInv /\ [Next]_vars => IInv'
<1> SUFFICES ASSUME IInv, [Next]_vars
             PROVE  IInv'
  OBVIOUS
<1>0. TypeOK
  BY DEF IInv
<1>1. TypeOK'
  BY <1>0, TypeStep
<1>2. CASE UNCHANGED vars
  BY <1>2 DEF IInv, NeverAheadOfEjar, CarriedIsTrue, vars, moving, contractVars, procVars, TypeOK
<1>3. CASE Next
  <2>1. CASE \E p \in Procs : Pipeline(p)
    BY <1>1, <2>1, PipelineBacked DEF IInv
  <2>2. CASE \E p \in Procs : Polling(p)
    BY <1>1, <2>2, PollingBacked DEF IInv
  <2>3. CASE ~\E p \in Procs : Pipeline(p) \/ Polling(p)
    <3>1. RemoteGrows /\ ClaimsNothing /\ CarriesNothing
      BY <1>0, <1>3, <2>3, FormQuiet, SurroundingsQuiet, WorkerQuiet DEF Next, Step
    <3> QED
      BY <1>1, <3>1, QuietStep DEF IInv
  <2> QED
    BY <2>1, <2>2, <2>3
<1> QED
  BY <1>2, <1>3

LEMMA Initially == Init => IInv
<1> SUFFICES ASSUME Init
             PROVE  IInv
  OBVIOUS
<1>1. TypeOK
  BY InitTyped
<1>2. NeverAheadOfEjar
  BY DEF Init, NeverAheadOfEjar
<1>3. CarriedIsTrue
  BY DEF Init, CarriedIsTrue, Registered
<1> QED
  BY <1>1, <1>2, <1>3 DEF IInv

(* Whatever pipelines, polls, retries, requeued jobs, cancellations and    *)
(* deaths interleave, a contract Odoo shows as submitted or rejected has   *)
(* been filed at Ejar, an approved one registered and an expired one has   *)
(* expired there (lifecycle_service.py:222-232, ejar_contract.py:532-572). *)
THEOREM NeverAhead == Spec => []NeverAheadOfEjar
<1>1. IInv => NeverAheadOfEjar
  BY DEF IInv
<1> QED
  BY <1>1, Initially, Inductive, PTL DEF Spec

(* And what a process carries from Ejar to its next write stays true: no   *)
(* lock on Ejar's record is needed for that.                               *)
THEOREM CarriedTrue == Spec => []CarriedIsTrue
<1>1. IInv => CarriedIsTrue
  BY DEF IInv
<1> QED
  BY <1>1, Initially, Inductive, PTL DEF Spec

-----------------------------------------------------------------------------
(* The submission implements EjarRegistration.                             *)

(* Ejar's record stands still, or takes one step of its life in a step of  *)
(* the system that does not touch the contract's status.                   *)
RecordProceeds ==
    \/ remote' = remote
    \/ status' = status /\ remote' \in Registration!Successors(remote)

LEMMA PipelineProceeds ==
    ASSUME NEW p \in Procs, Pipeline(p)
    PROVE  RecordProceeds
<1> USE DEF RecordProceeds, Registration!Successors, contractVars
<1>1. CASE CreateContract(p)
  BY <1>1 DEF CreateContract
<1>2. CASE CreateFails(p)
  BY <1>2 DEF CreateFails
<1>3. CASE SubmitContract(p)
  BY <1>3 DEF SubmitContract
<1>4. CASE SubmitFails(p)
  BY <1>4 DEF SubmitFails
<1>5. CASE Finalize(p) \/ FailPipeline(p)
  BY <1>5 DEF Finalize, FailPipeline
<1>6. CASE WriteRefused(p)
  BY <1>6 DEF WriteRefused
<1> QED
  BY <1>1, <1>2, <1>3, <1>4, <1>5, <1>6 DEF Pipeline

LEMMA OthersProceed ==
    ASSUME Next, ~\E p \in Procs : Pipeline(p)
    PROVE  RecordProceeds
<1>1. CASE RegistrarDecides
  BY <1>1 DEF RegistrarDecides, RecordProceeds, Registration!Successors, contractVars
<1>2. CASE UserAction
  BY <1>2 DEF UserAction, StartBuilding, MarkReady, UploadSignedDoc, EditForm, ResetToDraft,
              CancelContract, SetStatus, CancelPendingJob, SubmitToEjar, ConfirmAsync,
              ConfirmSync, CheckStatus, EnqueuePoll, PollInline, RecordProceeds
<1>3. CASE CronPoll \/ CronCleanup \/ \E u \in Users : Enqueue(u) \/ RequestRetried(u)
  BY <1>3 DEF CronPoll, EnqueuePoll, PollInline, CronCleanup, Enqueue, RequestRetried, RecordProceeds
<1>4. CASE \E j \in Jobs : Runner(j) \/ \E w \in Workers : StartJob(w, j)
  BY <1>4 DEF Runner, Dispatch, NoteCancelled, RequeueDead, StartJob, RecordProceeds
<1>5. CASE \E w \in Workers : WorkerStep(w)
  BY <1>5 DEF WorkerStep, SubmissionNoop, BeginSubmission, BeginConflict, BeginPoll, Report,
              RecordProceeds
<1>6. CASE \E p \in Procs : Polling(p) \/ Crash(p)
  BY <1>6 DEF Polling, PollAnswered, PollFails, ApplyPoll, PollRefused, Crash, RecordProceeds
<1> QED
  BY <1>1, <1>2, <1>3, <1>4, <1>5, <1>6 DEF Next, Step

(* What a contract that is not ahead of Ejar says of it is backed.         *)
LEMMA SayingIsBacked ==
    ASSUME NEW s, NEW r \in Remotes,
           s \in {"submitted", "rejected"} => r \in Filed,
           s = "approved" => r \in Registered,
           s = "expired" => r = "expired",
           NEW c, c = IF s \in {"submitted", "approved", "rejected", "expired"} THEN s ELSE "none"
    PROVE  c \in Registration!Claims /\ r \in Registration!Backing(c)
<1>1. c \in Registration!Claims
  BY DEF Registration!Claims
<1>2. CASE c = "none"
  BY <1>1, <1>2 DEF Remotes, Filed, Registration!Backing, Registration!Records
<1>3. CASE c # "none"
  BY <1>1, <1>3 DEF Filed, Registered, Registration!Backing, Registration!Records
<1> QED
  BY <1>1, <1>2, <1>3

LEMMA StepKeepsPromise ==
    ASSUME IInv, [Next]_vars
    PROVE  [Registration!Claim \/ Registration!Proceed]_<<Claimed, remote>>
<1>1. TypeOK' /\ NeverAheadOfEjar'
  BY Inductive DEF IInv
<1>2. RecordProceeds
  <2>1. CASE UNCHANGED vars
    BY <2>1 DEF vars, moving, RecordProceeds
  <2>2. CASE \E p \in Procs : Pipeline(p)
    BY <2>2, PipelineProceeds
  <2> QED
    BY <2>1, <2>2, OthersProceed
<1>3. CASE remote' = remote
  <2>1. Claimed' = IF status' \in {"submitted", "approved", "rejected", "expired"}
                   THEN status' ELSE "none"
    BY DEF Claimed
  <2>2. Claimed' \in Registration!Claims /\ remote' \in Registration!Backing(Claimed')
    BY <1>1, <2>1, SayingIsBacked DEF TypeOK, NeverAheadOfEjar
  <2> QED
    BY <1>3, <2>2 DEF Registration!Claim
<1>4. CASE status' = status /\ remote' \in Registration!Successors(remote)
  BY <1>4 DEF Registration!Proceed, Claimed
<1> QED
  BY <1>2, <1>3, <1>4 DEF RecordProceeds

(* A contract's status is a promise about Ejar's record, and the pipelines,*)
(* jobs, polls, retries and deaths of the submission keep it: they         *)
(* implement EjarRegistration (lifecycle_service.py:94-107, 222-232,       *)
(* ejar_contract.py:532-575).                                              *)
THEOREM PromiseKept == Spec => KeepsItsPromise
<1>1. Init => Registration!Init
  BY DEF Init, Registration!Init, Claimed
<1> QED
  BY <1>1, Initially, Inductive, StepKeepsPromise, PTL DEF Spec, KeepsItsPromise, Registration!Spec

-----------------------------------------------------------------------------
(* Who moves a submission on, where jobs are used                          *)

(* No submission is overtaken: the contract keeps the uuid of the one that *)
(* is under way until it ends.                                             *)
Alone == \A j \in Jobs : job[j].kind = "submit" /\ job[j].state \in Live => j = activeJob

(* The runner takes no live pipeline for dead, no request dies between its *)
(* two transactions, and nobody asks for the status from an old form.      *)
Unhurried == ~SlowPipeline /\ Mortal \cap Users = {} /\ ~OldForms

(* Only workers run pipelines and polls.                                   *)
RequestsEnqueue == pc[Cron] = "idle" /\ \A u \in Users : pc[u] \in {"idle", "enqueue"}

(* A worker has a started job of its own, of the kind its stage is in; and *)
(* when it has filed the contract, nobody starts over before it says so.   *)
WorkersHaveJobs ==
    \A w \in Workers : pc[w] # "idle" =>
        /\ pc[w] # "enqueue" /\ job[task[w]].state = "started"
        /\ InPipeline(w) \/ pc[w] = "report" => job[task[w]].kind = "submit"
        /\ pc[w] \in {"polling", "polled"} => job[task[w]].kind = "poll"
        /\ pc[w] = "report" /\ err[w] = "none" => status # "submitting"
        /\ \A v \in Workers : pc[v] # "idle" /\ task[v] = task[w] => v = w

(* The job a submitting contract keeps is no poll, as long as it lives;    *)
(* and none is kept that has been cancelled while it was pending.          *)
ActiveSubmits ==
    /\ status = "submitting" /\ HasActiveJob => job[activeJob].kind = "submit"
    /\ activeJob # NoJob => job[activeJob].state # "withdrawn"

OwnershipInv ==
    QueueJobUsable => RequestsEnqueue /\ WorkersHaveJobs /\ ActiveSubmits /\ SubmittingIsOwned

LEMMA LiveJobs ==
    ASSUME TypeOK, NEW w \in Workers, pc[w] # "idle"
    PROVE  task[w] \in Jobs /\ w \in Procs /\ NoJob \notin Jobs
  BY ProcessAssumption DEF TypeOK, Procs

(* Nothing of the jobs and processes changes, and nothing starts over.     *)
LEMMA QuietOwned ==
    ASSUME OwnershipInv, UNCHANGED <<job, pc, task, err, deployment>>,
           UNCHANGED <<status, activeJob>> \/ (status' # "submitting" /\ activeJob' \in {activeJob, NoJob})
    PROVE  OwnershipInv'
<1> SUFFICES ASSUME QueueJobUsable
             PROVE  (RequestsEnqueue /\ WorkersHaveJobs /\ ActiveSubmits /\ SubmittingIsOwned)'
  BY DEF OwnershipInv, QueueJobUsable
<1>1. RequestsEnqueue' /\ WorkersHaveJobs'
  BY DEF OwnershipInv, RequestsEnqueue, WorkersHaveJobs, InPipeline
<1>2. ActiveSubmits' /\ SubmittingIsOwned'
  BY DEF OwnershipInv, ActiveSubmits, HasActiveJob, SubmittingIsOwned, InPipeline, QueueJobUsable
<1> QED
  BY <1>1, <1>2

(* A job ends, or is to be tried again: if it was the submission of a      *)
(* contract that is still submitting, it is shown as failed there.         *)
LEMMA JobLeftOwned ==
    ASSUME TypeOK, OwnershipInv, Alone, NEW w \in Workers, pc[w] # "idle", Rest(w),
           NEW s \in {"done", "failed", "pending"}, NEW n, job' \in [Jobs -> JobRecord],
           job' = [job EXCEPT ![task[w]].state = s, ![task[w]].tries = n],
           UNCHANGED <<activeJob, deployment>>,
           status' \in {status} \cup (Statuses \ {"submitting"}),
           job[task[w]].kind = "submit" /\ s = "done" => status' # "submitting",
           ~InPipeline(w)
    PROVE  OwnershipInv'
<1> SUFFICES ASSUME QueueJobUsable
             PROVE  (RequestsEnqueue /\ WorkersHaveJobs /\ ActiveSubmits /\ SubmittingIsOwned)'
  BY DEF OwnershipInv, QueueJobUsable
<1>1. /\ RequestsEnqueue /\ WorkersHaveJobs /\ ActiveSubmits /\ SubmittingIsOwned
      /\ task[w] \in Jobs /\ w \in Procs /\ NoJob \notin Jobs
  BY LiveJobs DEF OwnershipInv
<1>2. /\ \A j \in Jobs : job'[j].kind = job[j].kind /\ (j # task[w] => job'[j].state = job[j].state)
      /\ job'[task[w]].state = s
  <2>1. job \in [Jobs -> JobRecord]
    BY DEF TypeOK
  <2> QED
    BY <1>1, <2>1 DEF JobRecord
<1>4. /\ pc' = [pc EXCEPT ![w] = "idle"] /\ task' = [task EXCEPT ![w] = NoJob]
      /\ err' = [err EXCEPT ![w] = "none"]
      /\ pc \in [Procs -> Stages] /\ task \in [Procs -> Jobs \cup {NoJob}] /\ err \in [Procs -> Errors]
  BY DEF Rest, TypeOK
<1>5. RequestsEnqueue'
  BY <1>1, <1>4, ProcessAssumption DEF RequestsEnqueue, Procs
<1>6. WorkersHaveJobs'
  <2> SUFFICES ASSUME NEW v \in Workers, pc'[v] # "idle"
               PROVE  /\ pc'[v] # "enqueue" /\ job'[task'[v]].state = "started"
                      /\ InPipeline(v)' \/ pc'[v] = "report" => job'[task'[v]].kind = "submit"
                      /\ pc'[v] \in {"polling", "polled"} => job'[task'[v]].kind = "poll"
                      /\ pc'[v] = "report" /\ err'[v] = "none" => status' # "submitting"
                      /\ \A x \in Workers : pc'[x] # "idle" /\ task'[x] = task'[v] => x = v
    BY DEF WorkersHaveJobs
  <2>1. v # w /\ v \in Procs /\ pc'[v] = pc[v] /\ task'[v] = task[v] /\ err'[v] = err[v]
    BY <1>1, <1>4 DEF Procs
  <2>2. task[v] \in Jobs /\ task[v] # task[w]
    BY <1>1, <2>1, LiveJobs DEF WorkersHaveJobs
  <2>3. \A x \in Workers : pc'[x] # "idle" => pc[x] # "idle" /\ task'[x] = task[x]
    BY <1>4 DEF Procs
  <2> QED
    BY <1>1, <1>2, <2>1, <2>2, <2>3 DEF WorkersHaveJobs, InPipeline
<1>7. ActiveSubmits'
  BY <1>1, <1>2 DEF ActiveSubmits, HasActiveJob, WorkersHaveJobs, Live, TypeOK
<1>8. SubmittingIsOwned'
  <2> SUFFICES ASSUME status' = "submitting"
               PROVE  \/ \E p \in Procs : pc'[p] = "enqueue" \/ InPipeline(p)'
                      \/ \E j \in Jobs : job'[j].kind = "submit" /\ job'[j].state \in Live
                      \/ activeJob' # NoJob /\ job'[activeJob'].state \in {"failed", "withdrawn", "cancelled"}
    BY DEF SubmittingIsOwned
  <2>1. status = "submitting"
    OBVIOUS
  <2>2. CASE \E p \in Procs : pc[p] = "enqueue" \/ InPipeline(p)
    <3>1. PICK p \in Procs : pc[p] = "enqueue" \/ InPipeline(p)
      BY <2>2
    <3>2. p # w
      BY <1>1, <3>1 DEF WorkersHaveJobs
    <3>3. pc'[p] = pc[p]
      BY <1>4, <3>2
    <3> QED
      BY <3>1, <3>3 DEF InPipeline
  <2>3. CASE \E j \in Jobs : job[j].kind = "submit" /\ job[j].state \in Live
    <3>1. PICK j \in Jobs : job[j].kind = "submit" /\ job[j].state \in Live
      BY <2>3
    <3>2. CASE j # task[w]
      BY <1>2, <3>1, <3>2
    <3>3. CASE j = task[w]
      <4>1. j = activeJob /\ s # "done"
        BY <3>1, <3>3 DEF Alone
      <4> QED
        BY <1>1, <1>2, <3>1, <3>3, <4>1 DEF Live
    <3> QED
      BY <3>2, <3>3
  <2>4. CASE activeJob # NoJob /\ job[activeJob].state \in {"failed", "withdrawn", "cancelled"}
    <3>1. activeJob \in Jobs /\ activeJob # task[w]
      BY <1>1, <2>4 DEF WorkersHaveJobs, TypeOK
    <3> QED
      BY <1>2, <2>4, <3>1
  <2> QED
    BY <1>1, <2>1, <2>2, <2>3, <2>4 DEF SubmittingIsOwned
<1> QED
  BY <1>5, <1>6, <1>7, <1>8

LEMMA JobEndsOwned ==
    ASSUME TypeOK, OwnershipInv, Alone, NEW w \in Workers, pc[w] # "idle", NEW e \in Errors,
           JobEnds(w, e), UNCHANGED <<activeJob, deployment>>,
           status' \in {status} \cup (Statuses \ {"submitting"}),
           job[task[w]].kind = "submit" /\ e = "none" => status' # "submitting",
           ~InPipeline(w)
    PROVE  OwnershipInv'
<1>1. PICK s, n : /\ s = Outcome(w, e)
                  /\ job' = [job EXCEPT ![task[w]].state = s, ![task[w]].tries = n]
  BY DEF JobEnds
<1>2. s \in {"done", "failed", "pending"} /\ (s = "done" => e = "none")
  BY <1>1 DEF Outcome
<1>3. job' \in [Jobs -> JobRecord] /\ Rest(w)
  BY JobEndsTyped DEF JobEnds
<1> QED
  BY <1>1, <1>2, <1>3, JobLeftOwned

(* The workers keep their jobs where they are.                             *)
LEMMA WorkersKeep ==
    ASSUME WorkersHaveJobs,
           \A w \in Workers : pc'[w] = pc[w] /\ task'[w] = task[w] /\ err'[w] = err[w],
           \A w \in Workers : pc[w] # "idle" => /\ job'[task[w]].state = job[task[w]].state
                                                /\ job'[task[w]].kind = job[task[w]].kind,
           \A w \in Workers : status' = "submitting" /\ pc[w] = "report" /\ err[w] = "none"
                                  => status = "submitting"
    PROVE  WorkersHaveJobs'
  BY DEF WorkersHaveJobs, InPipeline

(* While a worker runs a submission its contract has an active job.        *)
LEMMA RunnersAreActive ==
    ASSUME TypeOK, WorkersHaveJobs, Alone, NEW w \in Workers, pc[w] # "idle",
           job[task[w]].kind = "submit"
    PROVE  activeJob = task[w] /\ HasActiveJob
<1>1. task[w] \in Jobs /\ NoJob \notin Jobs
  BY LiveJobs
<1>2. job[task[w]].state \in Live
  BY DEF WorkersHaveJobs, Live
<1> QED
  BY <1>1, <1>2 DEF Alone, HasActiveJob

(* with_delay() returns a job that waits to be started, and touches none   *)
(* that is under way.                                                      *)
LEMMA Delayed ==
    ASSUME TypeOK, NEW kind \in Kinds, WithDelay(kind)
    PROVE  \E j \in Jobs :
             /\ activeJob' = j /\ job'[j].kind = kind /\ job'[j].state \in {"pending", "enqueued"}
             /\ \A i \in Jobs \ {j} : job'[i] = job[i]
             /\ job'[j] = job[j] \/ \A p \in Procs : task[p] # j
<1>1. job \in [Jobs -> JobRecord]
  BY DEF TypeOK
<1>2. CASE SameIdentity(kind) # {}
  BY <1>1, <1>2 DEF WithDelay, SameIdentity
<1>3. CASE SameIdentity(kind) = {}
  <2>1. PICK j \in Unused : /\ activeJob' = j
                            /\ job' = [job EXCEPT ![j] = [state |-> "pending", kind |-> kind, tries |-> 0]]
    BY <1>3 DEF WithDelay
  <2>2. j \in Jobs /\ \A p \in Procs : task[p] # j
    BY <2>1 DEF Unused
  <2> QED
    BY <1>1, <2>1, <2>2
<1> QED
  BY <1>2, <1>3

LEMMA DelayKeepsWorkers ==
    ASSUME TypeOK, WorkersHaveJobs, NEW kind \in Kinds, WithDelay(kind), status' = status,
           \A w \in Workers : pc'[w] = pc[w] /\ task'[w] = task[w] /\ err'[w] = err[w]
    PROVE  WorkersHaveJobs'
<1>1. PICK j \in Jobs : /\ \A i \in Jobs \ {j} : job'[i] = job[i]
                        /\ job'[j] = job[j] \/ \A p \in Procs : task[p] # j
  BY Delayed
<1>2. \A w \in Workers : pc[w] # "idle" => job'[task[w]] = job[task[w]]
  BY <1>1, LiveJobs
<1> QED
  BY <1>2, WorkersKeep

(* A poll is enqueued for contracts that are not submitting.               *)
LEMMA EnqueuePollOwned ==
    ASSUME TypeOK, OwnershipInv, EnqueuePoll, status # "submitting", UNCHANGED deployment
    PROVE  OwnershipInv'
<1> SUFFICES ASSUME QueueJobUsable
             PROVE  (RequestsEnqueue /\ WorkersHaveJobs /\ ActiveSubmits /\ SubmittingIsOwned)'
  BY DEF OwnershipInv, QueueJobUsable
<1>1. status' = status /\ UNCHANGED <<pc, task, err>> /\ WithDelay("poll") /\ "poll" \in Kinds
  BY DEF EnqueuePoll, procVars, Kinds
<1>2. RequestsEnqueue'
  BY <1>1 DEF OwnershipInv, RequestsEnqueue
<1>3. WorkersHaveJobs'
  BY <1>1, DelayKeepsWorkers DEF OwnershipInv
<1>4. \E j \in Jobs : activeJob' = j /\ job'[j].state \in {"pending", "enqueued"}
  BY <1>1, Delayed
<1> QED
  BY <1>1, <1>2, <1>3, <1>4 DEF ActiveSubmits, SubmittingIsOwned

(* A request writes 'submitting', and enqueues its job next.               *)
LEMMA ConfirmedOwned ==
    ASSUME TypeOK, OwnershipInv, Alone, NEW u \in Users, ~HasActiveJob,
           pc' = [pc EXCEPT ![u] = "enqueue"], UNCHANGED <<job, activeJob, task, err, deployment>>
    PROVE  OwnershipInv'
<1> SUFFICES ASSUME QueueJobUsable
             PROVE  (RequestsEnqueue /\ WorkersHaveJobs /\ ActiveSubmits /\ SubmittingIsOwned)'
  BY DEF OwnershipInv, QueueJobUsable
<1> USE ProcessAssumption
<1>1. RequestsEnqueue /\ WorkersHaveJobs /\ pc \in [Procs -> Stages] /\ u \in Procs
  BY DEF OwnershipInv, TypeOK, Procs
<1>2. RequestsEnqueue'
  BY <1>1 DEF RequestsEnqueue, Procs
<1>3. \A w \in Workers : pc'[w] = pc[w] /\ ~(pc[w] = "report")
  BY <1>1, RunnersAreActive DEF Procs, WorkersHaveJobs
<1>4. WorkersHaveJobs'
  BY <1>1, <1>3, WorkersKeep
<1>5. ActiveSubmits' /\ SubmittingIsOwned'
  BY <1>1 DEF OwnershipInv, ActiveSubmits, HasActiveJob, SubmittingIsOwned, Procs
<1> QED
  BY <1>2, <1>4, <1>5

(* What users do on the form.                                              *)
LEMMA FormOwned ==
    ASSUME TypeOK, OwnershipInv, Alone, Unhurried, UserAction, UNCHANGED deployment
    PROVE  OwnershipInv'
<1> USE DEF procVars, contractVars
<1>1. CASE StartBuilding \/ MarkReady \/ UploadSignedDoc \/ EditForm \/ ResetToDraft \/ CancelContract
  <2>1. UNCHANGED <<job, pc, task, err, activeJob>> /\ (status' # "submitting" \/ status' = status)
    BY <1>1 DEF StartBuilding, MarkReady, UploadSignedDoc, EditForm, ResetToDraft, CancelContract, SetStatus
  <2> QED
    BY <2>1, QuietOwned
<1>2. ASSUME NEW u \in Users, SubmitToEjar(u)
      PROVE  OwnershipInv'
  BY <1>2, QuietOwned DEF SubmitToEjar
<1>3. ASSUME NEW u \in Users, ConfirmAsync(u)
      PROVE  OwnershipInv'
  BY <1>3, ConfirmedOwned DEF ConfirmAsync, Goto
<1>4. ASSUME NEW u \in Users, ConfirmSync(u)
      PROVE  OwnershipInv'
  BY <1>4 DEF ConfirmSync, OwnershipInv, QueueJobUsable, QueueJobImportable
<1>5. ASSUME NEW u \in Users, CheckStatus(u)
      PROVE  OwnershipInv'
  <2>1. CASE EnqueuePoll
    BY <1>5, <2>1, EnqueuePollOwned DEF CheckStatus, Unhurried
  <2>2. CASE PollInline(u)
    BY <2>2 DEF PollInline, OwnershipInv, QueueJobUsable
  <2> QED
    BY <1>5, <2>1, <2>2 DEF CheckStatus
<1>6. CASE CancelPendingJob
  <2> SUFFICES ASSUME QueueJobUsable
               PROVE  (RequestsEnqueue /\ WorkersHaveJobs /\ ActiveSubmits /\ SubmittingIsOwned)'
    BY DEF OwnershipInv, QueueJobUsable
  <2>1. /\ activeJob \in Jobs /\ job[activeJob].state \in {"pending", "enqueued"}
        /\ status' = "ready" /\ UNCHANGED <<pc, task, err>>
        /\ \A j \in Jobs : j # activeJob => job'[j] = job[j]
    BY <1>6 DEF CancelPendingJob, TypeOK
  <2>2. RequestsEnqueue'
    BY <2>1 DEF OwnershipInv, RequestsEnqueue
  <2>3. \A w \in Workers : pc[w] # "idle" => job'[task[w]] = job[task[w]]
    BY <2>1, LiveJobs DEF OwnershipInv, WorkersHaveJobs
  <2>4. WorkersHaveJobs'
    BY <2>1, <2>3, WorkersKeep DEF OwnershipInv
  <2> QED
    BY <1>6, <2>1, <2>2, <2>4 DEF ActiveSubmits, SubmittingIsOwned, CancelPendingJob
<1> QED
  BY <1>1, <1>2, <1>3, <1>4, <1>5, <1>6 DEF UserAction

(* The second transaction of a confirmation.                               *)
LEMMA RequestOwned ==
    ASSUME TypeOK, OwnershipInv, Alone, NEW u \in Users, Enqueue(u) \/ RequestRetried(u),
           UNCHANGED deployment
    PROVE  OwnershipInv'
<1> USE ProcessAssumption
<1> SUFFICES ASSUME QueueJobUsable
             PROVE  (RequestsEnqueue /\ WorkersHaveJobs /\ ActiveSubmits /\ SubmittingIsOwned)'
  BY DEF OwnershipInv, QueueJobUsable
<1>1. /\ RequestsEnqueue /\ WorkersHaveJobs /\ ActiveSubmits /\ SubmittingIsOwned
      /\ pc \in [Procs -> Stages] /\ task \in [Procs -> Jobs \cup {NoJob}] /\ err \in [Procs -> Errors]
      /\ u \in Procs /\ u \notin Workers /\ u # Cron
  BY DEF OwnershipInv, TypeOK, Procs
<1>2. ASSUME Rest(u)
      PROVE  RequestsEnqueue' /\ \A w \in Workers : pc'[w] = pc[w] /\ task'[w] = task[w] /\ err'[w] = err[w]
  <2>1. pc' = [pc EXCEPT ![u] = "idle"] /\ task' = [task EXCEPT ![u] = NoJob] /\ err' = [err EXCEPT ![u] = "none"]
    BY <1>2 DEF Rest
  <2> QED
    BY <1>1, <2>1 DEF RequestsEnqueue, Procs
<1>3. CASE Enqueue(u)
  <2>1. WithDelay("submit") /\ "submit" \in Kinds /\ status' = status /\ Rest(u)
    BY <1>3 DEF Enqueue, Kinds
  <2>2. PICK j \in Jobs : /\ activeJob' = j /\ job'[j].kind = "submit"
                          /\ job'[j].state \in {"pending", "enqueued"}
    BY <2>1, Delayed
  <2>3. WorkersHaveJobs'
    BY <1>1, <1>2, <2>1, DelayKeepsWorkers
  <2> QED
    BY <1>2, <2>1, <2>2, <2>3 DEF ActiveSubmits, SubmittingIsOwned, Live
<1>4. CASE RequestRetried(u) /\ HasActiveJob
  <2>1. Rest(u) /\ UNCHANGED <<status, activeJob, job>>
    BY <1>4 DEF RequestRetried
  <2>2. WorkersHaveJobs'
    BY <1>1, <1>2, <2>1, WorkersKeep
  <2>3. ActiveSubmits'
    BY <1>1, <2>1 DEF ActiveSubmits, HasActiveJob
  <2>4. activeJob \in Jobs /\ job[activeJob].state \in Live
    BY <1>4 DEF TypeOK, HasActiveJob
  <2>5. SubmittingIsOwned'
    BY <1>1, <1>4, <2>1, <2>4 DEF ActiveSubmits, SubmittingIsOwned
  <2> QED
    BY <1>2, <2>1, <2>2, <2>3, <2>5
<1>5. CASE RequestRetried(u) /\ ~HasActiveJob
  <2>1. pc' = [pc EXCEPT ![u] = "enqueue"] /\ UNCHANGED <<job, activeJob, task, err>>
    BY <1>1, <1>5 DEF RequestRetried, procVars
  <2>2. OwnershipInv'
    BY <1>5, <2>1, ConfirmedOwned
  <2> QED
    BY <2>2 DEF OwnershipInv, QueueJobUsable
<1> QED
  BY <1>3, <1>4, <1>5

(* The runner tells, or is told, of a job nobody runs.                     *)
LEMMA RunnerOwned ==
    ASSUME TypeOK, OwnershipInv, Alone, Unhurried, NEW j \in Jobs,
           Runner(j), UNCHANGED deployment
    PROVE  OwnershipInv'
<1> SUFFICES ASSUME QueueJobUsable
             PROVE  (RequestsEnqueue /\ WorkersHaveJobs /\ ActiveSubmits /\ SubmittingIsOwned)'
  BY DEF OwnershipInv, QueueJobUsable
<1>1. /\ RequestsEnqueue /\ WorkersHaveJobs /\ ActiveSubmits /\ SubmittingIsOwned
      /\ job \in [Jobs -> JobRecord] /\ NoJob \notin Jobs
      /\ activeJob \in Jobs \cup {NoJob}
  BY ProcessAssumption DEF OwnershipInv, TypeOK
<1>2. UNCHANGED <<status, activeJob, pc, task, err>>
  BY DEF Runner, Dispatch, NoteCancelled, RequeueDead, contractVars, procVars
<1>3. /\ \A i \in Jobs : job'[i].kind = job[i].kind /\ (i # j => job'[i] = job[i])
      /\ \/ job[j].state \in Live /\ job'[j].state \in {"pending", "enqueued", "failed"}
         \/ job[j].state = "withdrawn" /\ job'[j].state \in {"enqueued", "cancelled"}
  <2>1. CASE Dispatch(j)
    BY <1>1, <2>1 DEF Dispatch, Live, JobRecord
  <2>2. CASE NoteCancelled(j)
    BY <1>1, <2>2 DEF NoteCancelled, JobRecord
  <2>3. CASE RequeueDead(j)
    BY <1>1, <2>3 DEF RequeueDead, Live, JobRecord
  <2> QED
    BY <2>1, <2>2, <2>3 DEF Runner
<1>4. \A w \in Workers : pc[w] # "idle" => task[w] # j
  <2>1. CASE Dispatch(j) \/ NoteCancelled(j)
    BY <1>1, <2>1 DEF WorkersHaveJobs, Dispatch, NoteCancelled
  <2>2. CASE RequeueDead(j)
    BY <2>2 DEF RequeueDead, Unhurried
  <2> QED
    BY <2>1, <2>2 DEF Runner
<1>5. RequestsEnqueue'
  BY <1>1, <1>2 DEF RequestsEnqueue
<1>6. WorkersHaveJobs'
  <2>1. \A w \in Workers : pc[w] # "idle" => job'[task[w]] = job[task[w]]
    BY <1>3, <1>4, LiveJobs
  <2> QED
    BY <1>1, <1>2, <2>1, WorkersKeep
<1>7. ActiveSubmits'
  BY <1>1, <1>2, <1>3 DEF ActiveSubmits, HasActiveJob, Live
<1>8. SubmittingIsOwned'
  <2> SUFFICES ASSUME status = "submitting"
               PROVE  \/ \E p \in Procs : pc[p] = "enqueue" \/ InPipeline(p)
                      \/ \E i \in Jobs : job'[i].kind = "submit" /\ job'[i].state \in Live
                      \/ activeJob # NoJob /\ job'[activeJob].state \in {"failed", "withdrawn", "cancelled"}
    BY <1>2 DEF SubmittingIsOwned, InPipeline
  <2>1. CASE \E i \in Jobs : job[i].kind = "submit" /\ job[i].state \in Live
    <3>1. PICK i \in Jobs : job[i].kind = "submit" /\ job[i].state \in Live
      BY <2>1
    <3>2. i = activeJob
      BY <3>1 DEF Alone
    <3> QED
      BY <1>1, <1>3, <3>1, <3>2 DEF Live
  <2>2. CASE activeJob # NoJob /\ job[activeJob].state \in {"failed", "withdrawn", "cancelled"}
    BY <1>1, <1>3, <2>2 DEF Live, ActiveSubmits
  <2> QED
    BY <1>1, <2>1, <2>2 DEF SubmittingIsOwned
<1> QED
  BY <1>5, <1>6, <1>7, <1>8

(* A worker takes up a job that nobody else has.                           *)
LEMMA StartOwned ==
    ASSUME TypeOK, OwnershipInv, Alone, NEW w \in Workers, NEW j \in Jobs, StartJob(w, j),
           UNCHANGED deployment
    PROVE  OwnershipInv'
<1> USE ProcessAssumption
<1> SUFFICES ASSUME QueueJobUsable
             PROVE  (RequestsEnqueue /\ WorkersHaveJobs /\ ActiveSubmits /\ SubmittingIsOwned)'
  BY DEF OwnershipInv, QueueJobUsable
<1>1. /\ RequestsEnqueue /\ WorkersHaveJobs /\ ActiveSubmits /\ SubmittingIsOwned
      /\ job \in [Jobs -> JobRecord] /\ NoJob \notin Jobs /\ activeJob \in Jobs \cup {NoJob}
      /\ pc \in [Procs -> Stages] /\ task \in [Procs -> Jobs \cup {NoJob}]
      /\ w \in Procs /\ w \notin Users /\ w # Cron
  BY DEF OwnershipInv, TypeOK, Procs
<1>2. /\ UNCHANGED <<status, activeJob, err>> /\ pc[w] = "idle"
      /\ pc' = [pc EXCEPT ![w] = "job"] /\ task' = [task EXCEPT ![w] = j]
  BY DEF StartJob, Goto, contractVars
<1>3. /\ job[j].state = "enqueued" /\ job'[j].state = "started" /\ job'[j].kind = job[j].kind
      /\ \A i \in Jobs : i # j => job'[i] = job[i]
  BY <1>1 DEF StartJob, JobRecord
<1>4. RequestsEnqueue'
  BY <1>1, <1>2 DEF RequestsEnqueue, Procs
<1>5. WorkersHaveJobs'
  <2>1. \A v \in Workers : pc[v] # "idle" => task[v] # j /\ task[v] \in Jobs
    BY <1>1, <1>3, LiveJobs DEF WorkersHaveJobs
  <2>2. \A v \in Workers : v # w => pc'[v] = pc[v] /\ task'[v] = task[v]
    BY <1>1, <1>2 DEF Procs
  <2>3. pc'[w] = "job" /\ task'[w] = j
    BY <1>1, <1>2
  <2> SUFFICES ASSUME NEW v \in Workers, pc'[v] # "idle"
               PROVE  /\ pc'[v] # "enqueue" /\ job'[task'[v]].state = "started"
                      /\ InPipeline(v)' \/ pc'[v] = "report" => job'[task'[v]].kind = "submit"
                      /\ pc'[v] \in {"polling", "polled"} => job'[task'[v]].kind = "poll"
                      /\ pc'[v] = "report" /\ err'[v] = "none" => status' # "submitting"
                      /\ \A x \in Workers : pc'[x] # "idle" /\ task'[x] = task'[v] => x = v
    BY DEF WorkersHaveJobs
  <2>4. CASE v = w
    BY <1>3, <2>1, <2>2, <2>3, <2>4 DEF InPipeline
  <2>5. CASE v # w
    BY <1>1, <1>2, <1>3, <2>1, <2>2, <2>3, <2>5 DEF WorkersHaveJobs, InPipeline
  <2> QED
    BY <2>4, <2>5
<1>6. ActiveSubmits'
  BY <1>1, <1>2, <1>3 DEF ActiveSubmits, HasActiveJob, Live
<1>7. SubmittingIsOwned'
  <2>1. \A p \in Procs : pc[p] = "enqueue" \/ InPipeline(p) => pc'[p] = "enqueue" \/ InPipeline(p)'
    BY <1>1, <1>2 DEF InPipeline
  <2> QED
    BY <1>1, <1>2, <1>3, <2>1 DEF SubmittingIsOwned, Live
<1> QED
  BY <1>4, <1>5, <1>6, <1>7

(* A worker goes on to stage s of its request.                             *)
LEMMA StageOwned ==
    ASSUME TypeOK, OwnershipInv, Alone, NEW w \in Workers, pc[w] # "idle",
           NEW s \in Stages \ {"idle", "enqueue"}, pc' = [pc EXCEPT ![w] = s],
           UNCHANGED <<job, task, activeJob, deployment>>,
           \A v \in Workers \ {w} : err'[v] = err[v],
           QueueJobUsable => /\ s \in {"create", "submit", "finalize", "fail", "report"}
                                  => job[task[w]].kind = "submit"
                             /\ s \in {"polling", "polled"} => job[task[w]].kind = "poll",
           s = "report" /\ err'[w] = "none" => status' # "submitting",
           status' = "submitting" => status = "submitting" \/ s = "create"
    PROVE  OwnershipInv'
<1> USE ProcessAssumption
<1> SUFFICES ASSUME QueueJobUsable
             PROVE  (RequestsEnqueue /\ WorkersHaveJobs /\ ActiveSubmits /\ SubmittingIsOwned)'
  BY DEF OwnershipInv, QueueJobUsable
<1>1. /\ RequestsEnqueue /\ WorkersHaveJobs /\ ActiveSubmits /\ SubmittingIsOwned
      /\ pc \in [Procs -> Stages] /\ w \in Procs /\ w \notin Users /\ w # Cron
      /\ job[task[w]].state = "started" /\ task[w] \in Jobs
  BY LiveJobs DEF OwnershipInv, TypeOK, Procs, WorkersHaveJobs
<1>2. /\ pc'[w] = s /\ s # "idle" /\ s # "enqueue"
      /\ \A p \in Procs : p # w => pc'[p] = pc[p]
  BY <1>1
<1>3. RequestsEnqueue'
  BY <1>1, <1>2 DEF RequestsEnqueue, Procs
<1>4. ASSUME s = "create"
      PROVE  job[activeJob].kind = "submit" /\ \A v \in Workers \ {w} : pc[v] # "report"
  <2>1. job[task[w]].kind = "submit" /\ activeJob = task[w]
    BY <1>1, <1>4, RunnersAreActive
  <2> SUFFICES ASSUME NEW v \in Workers \ {w}, pc[v] = "report" PROVE FALSE
    BY <2>1
  <2>2. activeJob = task[v]
    BY <1>1, RunnersAreActive DEF WorkersHaveJobs
  <2> QED
    BY <1>1, <2>1, <2>2 DEF WorkersHaveJobs
<1>5. WorkersHaveJobs'
  <2> SUFFICES ASSUME NEW v \in Workers, pc'[v] # "idle"
               PROVE  /\ pc'[v] # "enqueue" /\ job[task[v]].state = "started"
                      /\ InPipeline(v)' \/ pc'[v] = "report" => job[task[v]].kind = "submit"
                      /\ pc'[v] \in {"polling", "polled"} => job[task[v]].kind = "poll"
                      /\ pc'[v] = "report" /\ err'[v] = "none" => status' # "submitting"
                      /\ \A x \in Workers : pc'[x] # "idle" /\ task[x] = task[v] => x = v
    BY DEF WorkersHaveJobs
  <2>1. \A x \in Workers : pc'[x] # "idle" => pc[x] # "idle"
    BY <1>2 DEF Procs
  <2>2. CASE v = w
    BY <1>1, <1>2, <2>1, <2>2 DEF WorkersHaveJobs, InPipeline
  <2>3. CASE v # w
    BY <1>1, <1>2, <1>4, <2>1, <2>3 DEF WorkersHaveJobs, InPipeline, Procs
  <2> QED
    BY <2>2, <2>3
<1>6. ActiveSubmits'
  BY <1>1, <1>4 DEF ActiveSubmits, HasActiveJob
<1>7. SubmittingIsOwned'
  <2> SUFFICES ASSUME status' = "submitting"
               PROVE  \/ \E p \in Procs : pc'[p] = "enqueue" \/ InPipeline(p)'
                      \/ \E i \in Jobs : job[i].kind = "submit" /\ job[i].state \in Live
                      \/ activeJob # NoJob /\ job[activeJob].state \in {"failed", "withdrawn", "cancelled"}
    BY DEF SubmittingIsOwned
  <2>1. CASE InPipeline(w) \/ s = "create"
    BY <1>1, <1>2, <2>1 DEF WorkersHaveJobs, InPipeline, Live
  <2>2. CASE ~InPipeline(w) /\ status = "submitting"
    <3>1. pc[w] # "enqueue"
      BY <1>1 DEF WorkersHaveJobs
    <3> QED
      BY <1>1, <1>2, <2>2, <3>1 DEF SubmittingIsOwned, InPipeline
  <2> QED
    BY <2>1, <2>2
<1> QED
  BY <1>3, <1>5, <1>6, <1>7

(* A worker's request.                                                     *)
LEMMA WorkerOwned ==
    ASSUME TypeOK, OwnershipInv, Alone, NEW w \in Workers, WorkerStep(w), UNCHANGED deployment
    PROVE  OwnershipInv'
<1> USE DEF contractVars
<1>1. {"none", "database"} \subseteq Errors /\ err[w] \in Errors
  BY DEF Errors, TypeOK, Procs
<1>2. CASE SubmissionNoop(w)
  BY <1>1, <1>2, JobEndsOwned DEF SubmissionNoop, JobIs, InPipeline
<1>3. CASE BeginSubmission(w)
  <2>1. "create" \in Stages \ {"idle", "enqueue"}
    BY DEF Stages
  <2> QED
    BY <1>3, <2>1, StageOwned DEF BeginSubmission, JobIs, Goto
<1>4. CASE BeginConflict(w)
  BY <1>1, <1>4, JobEndsOwned DEF BeginConflict, JobIs, InPipeline
<1>5. CASE BeginPoll(w) /\ status = "submitted" /\ ejarId
  <2>1. "polling" \in Stages \ {"idle", "enqueue"}
    BY DEF Stages
  <2> QED
    BY <1>5, <2>1, StageOwned DEF BeginPoll, JobIs, Goto
<1>6. CASE BeginPoll(w) /\ ~(status = "submitted" /\ ejarId)
  BY <1>1, <1>6, JobEndsOwned DEF BeginPoll, JobIs, InPipeline
<1>7. CASE Report(w)
  <2>1. /\ pc[w] = "report" /\ JobEnds(w, err[w])
        /\ UNCHANGED <<status, activeJob>>
    BY <1>7 DEF Report
  <2>2. CASE QueueJobUsable
    <3>1. err[w] = "none" => status # "submitting"
      BY <2>1, <2>2 DEF OwnershipInv, WorkersHaveJobs
    <3> QED
      BY <1>1, <2>1, <3>1, JobEndsOwned DEF InPipeline
  <2>3. CASE ~QueueJobUsable
    BY <2>3 DEF OwnershipInv, QueueJobUsable
  <2> QED
    BY <2>2, <2>3
<1> QED
  BY <1>2, <1>3, <1>4, <1>5, <1>6, <1>7 DEF WorkerStep

(* Where jobs are used, only workers run pipelines,                        *)
LEMMA PipelineOwned ==
    ASSUME TypeOK, OwnershipInv, Alone, NEW p \in Procs, Pipeline(p), UNCHANGED deployment
    PROVE  OwnershipInv'
<1> USE DEF contractVars
<1> SUFFICES ASSUME QueueJobUsable PROVE OwnershipInv'
  BY DEF OwnershipInv, QueueJobUsable
<1>1. pc[p] \in {"create", "submit", "finalize", "fail"}
  BY DEF Pipeline, CreateContract, CreateFails, SubmitContract, SubmitFails, Finalize,
         FailPipeline, WriteRefused
<1>2. p \in Workers /\ job[task[p]].kind = "submit"
  BY <1>1 DEF OwnershipInv, RequestsEnqueue, WorkersHaveJobs, InPipeline, Procs
<1>3. {"submit", "finalize", "fail", "report"} \subseteq Stages \ {"idle", "enqueue"}
  BY DEF Stages
<1>4. /\ err \in [Procs -> Errors]
      /\ \A e : err' = [err EXCEPT ![p] = e] => err'[p] = e /\ \A v \in Workers \ {p} : err'[v] = err[v]
  BY DEF TypeOK, Procs
<1>5. CASE CreateContract(p)
  BY <1>1, <1>2, <1>3, <1>5, StageOwned DEF CreateContract, Goto
<1>6. CASE CreateFails(p)
  <2>1. /\ pc' = [pc EXCEPT ![p] = "fail"] /\ \A v \in Workers \ {p} : err'[v] = err[v]
        /\ UNCHANGED <<status, activeJob, job, task>>
    BY <1>4, <1>6 DEF CreateFails, Raise, Goto
  <2> QED
    BY <1>1, <1>2, <1>3, <2>1, StageOwned
<1>7. CASE SubmitContract(p)
  BY <1>1, <1>2, <1>3, <1>7, StageOwned DEF SubmitContract, Goto
<1>8. CASE SubmitFails(p)
  <2>1. /\ pc' = [pc EXCEPT ![p] = "fail"] /\ \A v \in Workers \ {p} : err'[v] = err[v]
        /\ UNCHANGED <<status, activeJob, job, task>>
    BY <1>4, <1>8 DEF SubmitFails, Raise, Goto
  <2> QED
    BY <1>1, <1>2, <1>3, <2>1, StageOwned
<1>9. CASE Finalize(p) \/ FailPipeline(p)
  <2>1. /\ pc' = [pc EXCEPT ![p] = "report"] /\ \A v \in Workers \ {p} : err'[v] = err[v]
        /\ status' # "submitting" /\ UNCHANGED <<activeJob, job, task>>
    BY <1>2, <1>4, <1>9 DEF Finalize, FailPipeline, LeavePipeline, Goto
  <2> QED
    BY <1>1, <1>2, <1>3, <2>1, StageOwned
<1>10. CASE WriteRefused(p)
  <2>1. /\ pc' = [pc EXCEPT ![p] = "report"] /\ err'[p] = "database"
        /\ \A v \in Workers \ {p} : err'[v] = err[v]
        /\ UNCHANGED <<status, activeJob, job, task>>
    BY <1>2, <1>4, <1>10 DEF WriteRefused, LeavePipeline, Goto
  <2> QED
    BY <1>1, <1>2, <1>3, <2>1, StageOwned
<1> QED
  BY <1>5, <1>6, <1>7, <1>8, <1>9, <1>10 DEF Pipeline

(* and polls.                                                              *)
LEMMA PollingOwned ==
    ASSUME TypeOK, OwnershipInv, Alone, NEW p \in Procs, Polling(p), UNCHANGED deployment
    PROVE  OwnershipInv'
<1> USE DEF contractVars
<1> SUFFICES ASSUME QueueJobUsable PROVE OwnershipInv'
  BY DEF OwnershipInv, QueueJobUsable
<1>1. pc[p] \in {"polling", "polled"}
  BY DEF Polling, PollAnswered, PollFails, ApplyPoll, PollRefused
<1>2. p \in Workers /\ job[task[p]].kind = "poll" /\ ~InPipeline(p)
  BY <1>1 DEF OwnershipInv, RequestsEnqueue, WorkersHaveJobs, InPipeline, Procs
<1>3. {"none", "transient", "permanent", "database"} \subseteq Errors
      /\ "polled" \in Stages \ {"idle", "enqueue"}
  BY DEF Errors, Stages
<1>4. CASE PollAnswered(p)
  BY <1>1, <1>2, <1>3, <1>4, StageOwned DEF PollAnswered, Goto
<1>5. CASE PollFails(p)
  <2>1. PICK e \in {"transient", "permanent"} : JobEnds(p, e)
    BY <1>2, <1>5 DEF PollFails
  <2> QED
    BY <1>1, <1>2, <1>3, <1>5, <2>1, JobEndsOwned DEF PollFails
<1>6. CASE ApplyPoll(p)
  <2>1. JobEnds(p, "none") /\ UNCHANGED activeJob
    BY <1>2, <1>6 DEF ApplyPoll
  <2>2. status' \in {status} \cup (Statuses \ {"submitting"})
    BY <1>6 DEF ApplyPoll, StateMap, Statuses
  <2> QED
    BY <1>1, <1>2, <1>3, <2>1, <2>2, JobEndsOwned
<1>7. CASE PollRefused(p)
  <2>1. CASE JobEnds(p, "database")
    BY <1>1, <1>2, <1>3, <1>7, <2>1, JobEndsOwned DEF PollRefused
  <2>2. CASE Postponed(p)
    <3>1. PICK n : job' = [job EXCEPT ![task[p]].state = "pending", ![task[p]].tries = n]
      BY <2>2 DEF Postponed
    <3>2. job' \in [Jobs -> JobRecord] /\ Rest(p)
      BY <1>1, <1>2, <2>2, PostponedTyped DEF Postponed
    <3>3. UNCHANGED <<activeJob, status>>
      BY <1>7 DEF PollRefused
    <3> QED
      BY <1>1, <1>2, <3>1, <3>2, <3>3, JobLeftOwned
  <2> QED
    BY <1>2, <1>7, <2>1, <2>2 DEF PollRefused
<1> QED
  BY <1>4, <1>5, <1>6, <1>7 DEF Polling

(* A worker dies; its job waits for the runner.                            *)
LEMMA CrashOwned ==
    ASSUME TypeOK, OwnershipInv, Unhurried, NEW p \in Procs, Crash(p), UNCHANGED deployment
    PROVE  OwnershipInv'
<1> USE ProcessAssumption
<1> SUFFICES ASSUME QueueJobUsable
             PROVE  (RequestsEnqueue /\ WorkersHaveJobs /\ ActiveSubmits /\ SubmittingIsOwned)'
  BY DEF OwnershipInv, QueueJobUsable
<1>1. /\ RequestsEnqueue /\ WorkersHaveJobs /\ ActiveSubmits /\ SubmittingIsOwned
      /\ p \in Workers /\ p \notin Users /\ p # Cron /\ pc[p] # "idle"
      /\ job[task[p]].state = "started" /\ task[p] \in Jobs
  BY LiveJobs DEF OwnershipInv, Procs, WorkersHaveJobs, RequestsEnqueue, Crash, Unhurried
<1>2. /\ pc' = [pc EXCEPT ![p] = "idle"] /\ task' = [task EXCEPT ![p] = NoJob]
      /\ err' = [err EXCEPT ![p] = "none"] /\ UNCHANGED <<job, status, activeJob>>
      /\ pc \in [Procs -> Stages] /\ task \in [Procs -> Jobs \cup {NoJob}] /\ err \in [Procs -> Errors]
  BY DEF Crash, Rest, contractVars, TypeOK
<1>3. RequestsEnqueue'
  BY <1>1, <1>2 DEF RequestsEnqueue, Procs
<1>4. WorkersHaveJobs'
  <2>1. pc'[p] = "idle"
    BY <1>1, <1>2 DEF Procs
  <2>2. \A v \in Workers \ {p} : pc'[v] = pc[v] /\ task'[v] = task[v] /\ err'[v] = err[v]
    BY <1>2 DEF Procs
  <2> QED
    BY <1>1, <1>2, <2>1, <2>2 DEF WorkersHaveJobs, InPipeline
<1>5. ActiveSubmits'
  BY <1>1, <1>2 DEF ActiveSubmits, HasActiveJob
<1>6. SubmittingIsOwned'
  <2>1. CASE InPipeline(p)
    BY <1>1, <1>2, <2>1 DEF SubmittingIsOwned, WorkersHaveJobs, Live
  <2>2. CASE ~InPipeline(p)
    <3>1. pc[p] # "enqueue"
      BY <1>1 DEF WorkersHaveJobs
    <3> QED
      BY <1>1, <1>2, <2>2, <3>1 DEF SubmittingIsOwned, InPipeline
  <2> QED
    BY <2>1, <2>2
<1> QED
  BY <1>3, <1>4, <1>5, <1>6

LEMMA OwnershipStep ==
    ASSUME TypeOK, OwnershipInv, Alone, Unhurried, [Next]_vars
    PROVE  OwnershipInv'
<1>1. CASE UNCHANGED vars
  BY <1>1, QuietOwned DEF vars, moving, contractVars, procVars
<1>2. CASE Next
  <2> USE DEF procVars, contractVars
  <2>1. Step /\ UNCHANGED deployment
    BY <1>2 DEF Next
  <2>2. CASE UserAction
    BY <2>1, <2>2, FormOwned
  <2>3. CASE CronPoll
    <3>1. CASE EnqueuePoll
      BY <2>1, <2>3, <3>1, EnqueuePollOwned DEF CronPoll
    <3>2. CASE PollInline(Cron)
      BY <2>1, <3>2 DEF PollInline, OwnershipInv, QueueJobUsable
    <3> QED
      BY <2>3, <3>1, <3>2 DEF CronPoll
  <2>4. CASE CronCleanup
    BY <2>1, <2>4, QuietOwned DEF CronCleanup, MarkDeadLetter
  <2>5. CASE \E u \in Users : Enqueue(u) \/ RequestRetried(u)
    BY <2>1, <2>5, RequestOwned
  <2>6. CASE \E j \in Jobs : Runner(j) \/ \E w \in Workers : StartJob(w, j)
    BY <2>1, <2>6, RunnerOwned, StartOwned
  <2>7. CASE \E w \in Workers : WorkerStep(w)
    BY <2>1, <2>7, WorkerOwned
  <2>8. CASE \E p \in Procs : Pipeline(p) \/ Polling(p) \/ Crash(p)
    BY <2>1, <2>8, PipelineOwned, PollingOwned, CrashOwned
  <2>9. CASE RegistrarDecides
    BY <2>1, <2>9, QuietOwned DEF RegistrarDecides
  <2> QED
    BY <2>1, <2>2, <2>3, <2>4, <2>5, <2>6, <2>7, <2>8, <2>9 DEF Step
<1> QED
  BY <1>1, <1>2

(* For any number of users, workers, jobs, retries and deaths of workers:  *)
(* as long as no submission is overtaken, a contract that is submitting    *)
(* has somebody to move it on (lifecycle_service.py:76-77,                 *)
(* ejar_contract_jobs.py:546-586).                                         *)
THEOREM SubmittingOwned == Spec /\ [](Alone /\ Unhurried) => []SubmittingIsOwned
<1>1. Init => OwnershipInv
  BY ProcessAssumption
     DEF Init, OwnershipInv, RequestsEnqueue, WorkersHaveJobs, ActiveSubmits, SubmittingIsOwned, Procs
<1>2. TypeOK /\ OwnershipInv /\ Alone /\ Unhurried /\ [Next]_vars => OwnershipInv'
  BY OwnershipStep
<1>3. OwnershipInv => SubmittingIsOwned
  BY DEF OwnershipInv, SubmittingIsOwned
<1> QED
  BY <1>1, <1>2, <1>3, TypeCorrect, PTL DEF Spec

(* The claim the run ejar_two_pipelines refutes holds where jobs are used, *)
(* as long as no submission is overtaken by another, the runner takes no   *)
(* live pipeline for dead and no request dies between its transactions: a  *)
(* submission job is then held by one worker at a time                     *)
(* (lifecycle_service.py:88, job.py:217-292, runner.py:327-424).           *)
THEOREM SinglePipeline ==
    Spec /\ [](Alone /\ Unhurried) => [](QueueJobUsable => OnePipeline)
<1>1. Init => OwnershipInv
  BY ProcessAssumption
     DEF Init, OwnershipInv, RequestsEnqueue, WorkersHaveJobs, ActiveSubmits, SubmittingIsOwned, Procs
<1>2. TypeOK /\ OwnershipInv /\ Alone /\ Unhurried /\ [Next]_vars => OwnershipInv'
  BY OwnershipStep
<1>3. TypeOK /\ OwnershipInv /\ Alone => (QueueJobUsable => OnePipeline)
  <2> SUFFICES ASSUME TypeOK, OwnershipInv, Alone, QueueJobUsable,
                      NEW p \in Procs, NEW q \in Procs, InPipeline(p), InPipeline(q)
               PROVE  p = q
    BY DEF OnePipeline
  <2>1. RequestsEnqueue /\ WorkersHaveJobs  BY DEF OwnershipInv
  <2>2. ASSUME NEW w \in Procs, InPipeline(w)
        PROVE  w \in Workers /\ pc[w] # "idle" /\ task[w] = activeJob
    <3>1. w \in Workers  BY <2>1, <2>2 DEF RequestsEnqueue, InPipeline, Procs
    <3>2. pc[w] # "idle"  BY <2>2 DEF InPipeline
    <3>3. job[task[w]].kind = "submit" /\ job[task[w]].state = "started"
      BY <2>1, <2>2, <3>1, <3>2 DEF WorkersHaveJobs
    <3>4. task[w] \in Jobs  BY <3>1, <3>2, LiveJobs
    <3>5. task[w] = activeJob  BY <3>3, <3>4 DEF Alone, Live
    <3> QED BY <3>1, <3>2, <3>5
  <2>3. p \in Workers /\ q \in Workers /\ pc[p] # "idle" /\ task[p] = task[q]  BY <2>2
  <2>4. pc[q] # "idle"  BY <2>2
  <2> QED BY <2>1, <2>3, <2>4 DEF WorkersHaveJobs
<1> QED
  BY <1>1, <1>2, <1>3, TypeCorrect, PTL DEF Spec
=============================================================================
