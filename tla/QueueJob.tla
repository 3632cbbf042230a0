------------------------------ MODULE QueueJob ------------------------------
(***************************************************************************)
(* The jobs of one graph in queue_job: the rows of queue_job, the runner   *)
(* that sends them to Odoo through its tree of channels, and the workers   *)
(* that execute them.                                                      *)
(*                                                                         *)
(* The runner works on a copy of the rows in its memory.  PostgreSQL tells *)
(* it later which row has changed, and it reads the row as it is by then.  *)
(* A request it sends to a worker may arrive late, or never.  A locked row *)
(* of queue_job_lock shows that the worker of a job is alive.              *)
(***************************************************************************)
EXTENDS Naturals, FiniteSets

CONSTANTS
    Jobs,        \* numbers: jobs of one priority, in the order of creation
    Parents,     \* depends_on, for each job
    Channels, Root,
    Path,        \* for each channel: itself and the channels downstream of it
    ChannelOf,   \* the channel of each job
    Capacity,    \* of each channel, 0 if it has no limit
    Sequential,  \* channels configured ":sequential"
    Throttled,   \* channels configured ":throttle="
    Workers,
    MaxRetries,  \* max_retries of the jobs
    MaxMishaps   \* bound: interventions and accidents in one behaviour

NoJob == 0

ASSUME JobAssumption ==
    /\ Jobs \subseteq Nat \ {NoJob} /\ IsFiniteSet(Jobs)
    /\ Parents \in [Jobs -> SUBSET Jobs]
    /\ \A j \in Jobs : j \notin Parents[j]
    /\ MaxRetries \in Nat \ {0}
    /\ MaxMishaps \in Nat

(* The channels are a tree; configure refuses a sequential channel of      *)
(* another capacity than 1.                                                *)
ASSUME ChannelAssumption ==
    /\ Root \in Channels /\ IsFiniteSet(Channels)
    /\ Path \in [Channels -> SUBSET Channels]
    /\ \A c \in Channels : c \in Path[c] /\ Root \in Path[c]
    /\ \A c \in Channels : \A d \in Path[c] : Path[d] \subseteq Path[c]
    /\ \A c, d \in Channels : c \in Path[d] /\ d \in Path[c] => c = d
    /\ \A c \in Channels : \A d, e \in Path[c] : d \in Path[e] \/ e \in Path[d]
    /\ ChannelOf \in [Jobs -> Channels]
    /\ Capacity \in [Channels -> Nat]
    /\ Sequential \subseteq Channels /\ Throttled \subseteq Channels
    /\ \A c \in Sequential : Capacity[c] = 1

States == {"wait_dependencies", "pending", "enqueued", "started", "done", "failed", "cancelled"}
Etas   == {"none", "future", "past"}
JobRecord == [state : States, retry : 0 .. MaxRetries + 1, eta : Etas]

(* A queue manager's press of a button, a request that waits longer than   *)
(* the 10 seconds of requeue_dead_jobs or is lost, the death of a worker,  *)
(* and the restart of the runner or of its connection.                     *)
Mishaps == {"press", "late", "lost", "death", "restart"}

VARIABLES
    job,        \* the rows of queue_job
    notes,      \* jobs whose change the runner has still to look at
    queue,      \* the channels in the runner's memory: jobs queued,
    running,    \*   jobs marked running,
    failed,     \*   jobs marked failed,
    paused,     \*   channels that wait for their throttle
    asked,      \* jobs for which a request is on its way to a worker
    pc,         \* what a worker is doing,
    task,       \*   with which job,
    tries,      \*   the retry count it loaded with it
    fresh,      \* workers whose job is still as it was when they asked for its lock
    mishaps,    \* the kinds of mishaps that have happened
    left        \* and how many more may

memory  == <<queue, running, failed, paused>>
workers == <<pc, task, tries>>
vars    == <<job, notes, memory, asked, workers, fresh, mishaps, left>>

TypeOK ==
    /\ job \in [Jobs -> JobRecord]
    /\ notes \subseteq Jobs /\ asked \subseteq Jobs
    /\ queue \in [Channels -> SUBSET Jobs]
    /\ running \in [Channels -> SUBSET Jobs]
    /\ failed \in [Channels -> SUBSET Jobs]
    /\ paused \subseteq Throttled
    /\ pc \in [Workers -> {"idle", "starting", "waiting", "running", "finished"}]
    /\ task \in [Workers -> Jobs \cup {NoJob}]
    /\ tries \in [Workers -> 0 .. MaxRetries + 1]
    /\ fresh \subseteq Workers
    /\ mishaps \subseteq Mishaps /\ left \in 0 .. MaxMishaps
    /\ \A w \in Workers : pc[w] # "idle" => task[w] \in Jobs

(* A graph of jobs has just been stored: those that depend on others wait. *)
Init ==
    /\ job = [j \in Jobs |-> [state |-> IF Parents[j] = {} THEN "pending" ELSE "wait_dependencies",
                              retry |-> 0, eta |-> "none"]]
    /\ notes = Jobs
    /\ queue = [c \in Channels |-> {}]
    /\ running = [c \in Channels |-> {}]
    /\ failed = [c \in Channels |-> {}]
    /\ paused = {} /\ asked = {}
    /\ pc = [w \in Workers |-> "idle"]
    /\ task = [w \in Workers |-> NoJob]
    /\ tries = [w \in Workers |-> 0]
    /\ fresh = {}
    /\ mishaps = {} /\ left = MaxMishaps

Happens(m) ==
    /\ left > 0
    /\ left' = left - 1
    /\ mishaps' = mishaps \cup {m}

-----------------------------------------------------------------------------
(* Rows                                                                    *)

(* The rows of S are written and committed: the runner will be told, and a *)
(* transaction that works on an older version of one will be refused.      *)
Written(S) ==
    /\ notes' = notes \cup S
    /\ fresh' = {w \in fresh : task[w] \notin S}

(* Faulty: only the jobs that wait for no other parent.                    *)
DependentsOnIt(j, state) ==
    {c \in Jobs : Parents[c] = {j} /\ job[c].state = "wait_dependencies"}

(* The jobs that wait for parents all of which are in the given state once *)
(* j is.                                                                   *)
Dependents(j, state) ==
    {c \in Jobs : /\ j \in Parents[c]
                  /\ job[c].state = "wait_dependencies"
                  /\ \A i \in Parents[c] \ {j} : job[i].state = state}

(* Row j and those of its dependents, in one transaction.                  *)
StoreWithDependents(j, state, dstate) ==
    /\ job' = [i \in Jobs |->
                 IF i = j THEN [job[i] EXCEPT !.state = state]
                 ELSE IF i \in Dependents(j, state) THEN [job[i] EXCEPT !.state = dstate]
                 ELSE job[i]]
    /\ Written({j} \cup Dependents(j, state))

(* set_pending: pending, unless a parent is not done.                      *)
PendingState(j) ==
    IF \A i \in Parents[j] : job[i].state = "done" THEN "pending" ELSE "wait_dependencies"

-----------------------------------------------------------------------------
(* The queue manager: the wizards offer all of this for any selection of   *)
(* jobs, and the methods behind the form's buttons do not check the state. *)

Requeue(j) ==
    /\ Happens("press")
    /\ job[j].state # "wait_dependencies"
    /\ job' = [job EXCEPT ![j].state = PendingState(j), ![j].retry = 0]
    /\ Written({j})
    /\ UNCHANGED <<memory, asked, workers>>

SetDone(j) ==
    /\ Happens("press")
    /\ StoreWithDependents(j, "done", "pending")
    /\ UNCHANGED <<memory, asked, workers>>

Cancel(j) ==
    /\ Happens("press")
    /\ StoreWithDependents(j, "cancelled", "cancelled")
    /\ UNCHANGED <<memory, asked, workers>>

-----------------------------------------------------------------------------
(* The channels in the runner's memory                                     *)

(* Channels whose jobs flow directly into c.                               *)
Children(c) == {d \in Channels : d \notin Path[c] /\ Path[d] = {d} \cup Path[c]}

Without(content, j) == [c \in Channels |-> content[c] \ {j}]
With(content, j)    == [content EXCEPT ![ChannelOf[j]] = @ \cup {j}]

(* Channel.remove, along the path of the job.                              *)
Drop(j) ==
    /\ queue' = Without(queue, j)
    /\ running' = Without(running, j)
    /\ failed' = Without(failed, j)

(* Faulty: what is marked running is known already.                        *)
SetPendingIfNew(j) ==
    IF \E c \in Channels : j \in queue[c] \cup running[c] THEN UNCHANGED <<queue, running, failed>>
    ELSE queue' = With(queue, j) /\ running' = running /\ failed' = Without(failed, j)

SetPending(j) ==
    IF j \in queue[ChannelOf[j]] THEN UNCHANGED <<queue, running, failed>>
    ELSE /\ queue' = With(Without(queue, j), j)
         /\ running' = Without(running, j)
         /\ failed' = Without(failed, j)

SetFailed(j) ==
    IF j \in failed[ChannelOf[j]] THEN UNCHANGED <<queue, running, failed>>
    ELSE /\ queue' = Without(queue, j)
         /\ running' = Without(running, j)
         /\ failed' = With(Without(failed, j), j)

(* From the job's channel downstream, as far as it is not running yet.     *)
SetRunning(j) ==
    LET up == {c \in Path[ChannelOf[j]] : \A d \in Path[ChannelOf[j]] : c \in Path[d] => j \notin running[d]}
    IN  /\ queue' = [c \in Channels |-> IF c \in up THEN queue[c] \ {j} ELSE queue[c]]
        /\ failed' = [c \in Channels |-> IF c \in up THEN failed[c] \ {j} ELSE failed[c]]
        /\ running' = [c \in Channels |-> IF c \in up THEN running[c] \cup {j} ELSE running[c]]

(* A changed eta makes the runner forget the job first; whether it knows   *)
(* the present one shows only when the job is to wait for dependencies.    *)
SetWaiting(j) ==
    \/ UNCHANGED <<queue, running, failed>>
    \/ job[j].eta # "none" /\ Drop(j)

(* process_notifications: the row is read as it is now.                    *)
Notify(j) ==
    /\ j \in notes
    /\ notes' = notes \ {j}
    /\ \/ job[j].state \in {"done", "cancelled"} /\ Drop(j)
       \/ job[j].state = "pending" /\ SetPending(j)
       \/ job[j].state \in {"enqueued", "started"} /\ SetRunning(j)
       \/ job[j].state = "failed" /\ SetFailed(j)
       \/ job[j].state = "wait_dependencies" /\ SetWaiting(j)
    /\ UNCHANGED <<job, paused, asked, workers, fresh, mishaps, left>>

Least(m, n) == IF m < n THEN m ELSE n

Slots(c) ==
    IF Capacity[c] = 0 THEN Cardinality(Jobs)
    ELSE IF Cardinality(running[c]) < Capacity[c] THEN Capacity[c] - Cardinality(running[c])
    ELSE 0

(* Faulty: a failed job does not hold back a sequential channel.           *)
BlockedNever(c) == FALSE

Blocked(c) == c \in Sequential /\ failed[c] # {}

(* How many jobs get_jobs_to_run may take from the queue of channel c.     *)
Room(c) ==
    IF c \in paused \/ Blocked(c) THEN 0
    ELSE IF c \in Throttled THEN Least(1, Slots(c)) ELSE Slots(c)

(* The jobs the runner may take for such whose time has not come: an eta   *)
(* it has not read yet may surprise it.                                    *)
Future == {j \in Jobs : job[j].eta = "future"}
SeenAsFuture == {F \in SUBSET Future : Future \ notes \subseteq F}

(* The jobs of q that ChannelQueue.pop lets go.  A sequential channel      *)
(* compares them with the one of the earliest eta, and waits for it if it  *)
(* was created before them.                                                *)
Ready(c, q, future, earliest) ==
    {j \in q \ future : c \in Sequential /\ q \cap future # {} => j < earliest[c]}

(* S are the first n elements of T, or all of them.                        *)
FirstOf(S, n, T) ==
    /\ S \subseteq T
    /\ Cardinality(S) = Least(n, Cardinality(T))
    /\ \A i \in S, j \in T \ S : i < j

(* What a channel has to choose from, if out is what each channel lets out.*)
Inflow(out, c) == queue[c] \cup UNION {out[d] : d \in Children(c)}

(* get_jobs_to_run: each channel takes in what its children let out, and   *)
(* lets out the first of its jobs while it has room.                       *)
LetsOut(out, future, earliest) ==
    /\ \A c \in Sequential :
          LET delayed == Inflow(out, c) \cap future
          IN  delayed # {} => earliest[c] \in delayed
    /\ \A c \in Channels : FirstOf(out[c], Room(c), Ready(c, Inflow(out, c), future, earliest))

(* What the root lets out is stored as enqueued, whatever its state, and   *)
(* asked for.                                                              *)
RunJobs ==
    \E out \in [Channels -> SUBSET UNION {queue[c] : c \in Channels}],
       future \in SeenAsFuture, earliest \in [Sequential -> Jobs] :
        /\ LetsOut(out, future, earliest)
        /\ \E c \in Channels : out[c] # {}
        /\ queue' = [c \in Channels |-> Inflow(out, c) \ out[c]]
        /\ running' = [c \in Channels |-> running[c] \cup out[c]]
        /\ paused' = paused \cup {c \in Throttled : out[c] # {}}
        /\ job' = [j \in Jobs |-> IF j \in out[Root] THEN [job[j] EXCEPT !.state = "enqueued"]
                                  ELSE job[j]]
        /\ Written(out[Root])
        /\ asked' = asked \cup out[Root]
        /\ UNCHANGED <<failed, workers, mishaps, left>>

(* The pause is over.                                                      *)
Unpause(c) ==
    /\ c \in paused
    /\ paused' = paused \ {c}
    /\ UNCHANGED <<job, notes, queue, running, failed, asked, workers, fresh, mishaps, left>>

EtaComes(j) ==
    /\ job[j].eta = "future"
    /\ job' = [job EXCEPT ![j].eta = "past"]
    /\ UNCHANGED <<notes, memory, asked, workers, fresh, mishaps, left>>

(* Faulty: the lock does not outlast the first commit of the method.       *)
LockedBriefly(j) == FALSE

(* A worker that executes a job holds the lock of its queue_job_lock row.  *)
Locked(j) == \E w \in Workers : task[w] = j /\ pc[w] = "running"

(* Somebody may still start the job: the 10 seconds are for him.           *)
BeingStarted(j) ==
    j \in asked \/ \E w \in Workers : task[w] = j /\ pc[w] \in {"starting", "waiting"}

(* Faulty: only a job that was started can have died.                      *)
DeadIfStarted == {"started"}

DeadIfUnlocked == {"enqueued", "started"}

RequeueDead(j) ==
    /\ job[j].state \in DeadIfUnlocked
    /\ ~Locked(j)
    /\ IF BeingStarted(j) THEN Happens("late") ELSE UNCHANGED <<mishaps, left>>
    /\ job' = [job EXCEPT
                 ![j].state = IF job[j].retry > MaxRetries THEN "failed" ELSE "pending",
                 ![j].retry = IF job[j].state = "started" THEN Least(@ + 1, MaxRetries + 1) ELSE @]
    /\ Written({j})
    /\ UNCHANGED <<memory, asked, workers>>

In(states) == {j \in Jobs : job[j].state \in states}

(* Faulty: what was only asked for has not used up a place.                *)
StartedJobs == In({"started"})

ActiveJobs == In({"enqueued", "started"})

Through(c) == {j \in Jobs : c \in Path[ChannelOf[j]]}
Direct(c)  == {j \in Jobs : ChannelOf[j] = c}

(* The runner forgets all, and reads the rows that are not done.           *)
Restart ==
    /\ Happens("restart")
    /\ queue' = [c \in Channels |-> Direct(c) \cap In({"pending"})]
    /\ running' = [c \in Channels |-> Through(c) \cap ActiveJobs]
    /\ failed' = [c \in Channels |-> Direct(c) \cap In({"failed"})]
    /\ paused' \in {paused, {}}
    /\ notes' = {}
    /\ UNCHANGED <<job, asked, workers, fresh>>

-----------------------------------------------------------------------------
(* A worker's request on /queue_job/runjob                                 *)

(* The request is lost, or finds the job in another state than enqueued.   *)
RequestWasted(j) ==
    /\ j \in asked
    /\ asked' = asked \ {j}
    /\ IF job[j].state = "enqueued" THEN Happens("lost") ELSE UNCHANGED <<mishaps, left>>
    /\ UNCHANGED <<job, notes, memory, workers, fresh>>

(* set_started, and the first commit.                                      *)
Start(w, j) ==
    /\ pc[w] = "idle"
    /\ j \in asked
    /\ job[j].state = "enqueued"
    /\ asked' = asked \ {j}
    /\ job' = [job EXCEPT ![j].state = "started"]
    /\ Written({j})
    /\ pc' = [pc EXCEPT ![w] = "starting"]
    /\ task' = [task EXCEPT ![w] = j]
    /\ tries' = [tries EXCEPT ![w] = job[j].retry]
    /\ UNCHANGED <<memory, mishaps, left>>

(* Faulty: a return is missing, and the request goes on to its end.        *)
RestLater(w) ==
    /\ pc' = [pc EXCEPT ![w] = "finished"]
    /\ task' = [task EXCEPT ![w] = NoJob]
    /\ tries' = [tries EXCEPT ![w] = 0]

Rest(w) ==
    /\ pc' = [pc EXCEPT ![w] = "idle"]
    /\ task' = [task EXCEPT ![w] = NoJob]
    /\ tries' = [tries EXCEPT ![w] = 0]

(* In a transaction of its own: retry_postpone, whatever the state is now. *)
Postpone(w, retry) ==
    /\ job' = [job EXCEPT ![task[w]] = [state |-> PendingState(task[w]),
                                        retry |-> Least(retry, MaxRetries + 1), eta |-> "future"]]
    /\ Written({task[w]})
    /\ Rest(w)
    /\ UNCHANGED <<memory, asked, mishaps, left>>

(* job.lock(): the state is read when the query begins, the row is locked  *)
(* when nobody else holds it.                                              *)
LockRow(w) ==
    /\ pc[w] = "starting"
    /\ job[task[w]].state = "started"
    /\ pc' = [pc EXCEPT ![w] = "waiting"]
    /\ fresh' = fresh \cup {w}
    /\ UNCHANGED <<job, notes, memory, asked, task, tries, mishaps, left>>

LockFails(w) ==
    /\ pc[w] = "starting"
    /\ job[task[w]].state # "started"
    /\ Postpone(w, tries[w])

LockGranted(w) ==
    /\ pc[w] = "waiting"
    /\ ~Locked(task[w])
    /\ pc' = [pc EXCEPT ![w] = "running"]
    /\ UNCHANGED <<job, notes, memory, asked, task, tries, fresh, mishaps, left>>

(* The method returns, or finds nothing to do; the row is as it was.       *)
Perform(w) ==
    /\ pc[w] = "running"
    /\ w \in fresh
    /\ job' = [job EXCEPT ![task[w]].state = "done"]
    /\ Written({task[w]})
    /\ pc' = [pc EXCEPT ![w] = "finished"]
    /\ UNCHANGED <<memory, asked, task, tries, mishaps, left>>

(* The row was written meanwhile: the database refuses to store 'done'.    *)
PerformRefused(w) ==
    /\ pc[w] = "running"
    /\ w \notin fresh
    /\ Postpone(w, tries[w] + 1)

PerformRetries(w) ==
    /\ pc[w] = "running"
    /\ tries[w] + 1 < MaxRetries
    /\ Postpone(w, tries[w] + 1)

(* Another exception, or one retry too many.                               *)
PerformFails(w) ==
    /\ pc[w] = "running"
    /\ job' = [job EXCEPT ![task[w]].state = "failed",
                          ![task[w]].retry = Least(tries[w] + 1, MaxRetries + 1)]
    /\ Written({task[w]})
    /\ Rest(w)
    /\ UNCHANGED <<memory, asked, mishaps, left>>

(* enqueue_waiting, the last transaction of the request.                   *)
EnqueueWaiting(w) ==
    LET released == {c \in Dependents(task[w], "done") : job[task[w]].state = "done"}
    IN  /\ pc[w] = "finished"
        /\ job' = [c \in Jobs |-> IF c \in released THEN [job[c] EXCEPT !.state = "pending"] ELSE job[c]]
        /\ Written(released)
        /\ Rest(w)
        /\ UNCHANGED <<memory, asked, mishaps, left>>

(* The worker is killed: its transaction is rolled back.                   *)
Die(w) ==
    /\ pc[w] # "idle"
    /\ Happens("death")
    /\ Rest(w)
    /\ fresh' = fresh \ {w}
    /\ UNCHANGED <<job, notes, memory, asked>>

-----------------------------------------------------------------------------
Manager == \E j \in Jobs : Requeue(j) \/ SetDone(j) \/ Cancel(j)

Runner ==
    \/ RunJobs \/ Restart
    \/ \E j \in Jobs : Notify(j) \/ RequeueDead(j) \/ EtaComes(j) \/ RequestWasted(j)
    \/ \E c \in Channels : Unpause(c)

Performing(w) == Perform(w) \/ PerformRefused(w) \/ PerformRetries(w) \/ PerformFails(w)

Worker(w) ==
    \/ \E j \in Jobs : Start(w, j)
    \/ LockRow(w) \/ LockFails(w) \/ LockGranted(w) \/ Performing(w) \/ EnqueueWaiting(w)
    \/ Die(w)

Next == Manager \/ Runner \/ \E w \in Workers : Worker(w)

Spec == Init /\ [][Next]_vars

(* The loop of the runner turns, time passes, and living workers go on.    *)
Fairness ==
    /\ WF_vars(RunJobs)
    /\ \A j \in Jobs : WF_vars(Notify(j)) /\ WF_vars(EtaComes(j))
    /\ \A j \in Jobs : WF_vars(RequeueDead(j) /\ UNCHANGED left)
    /\ \A c \in Channels : WF_vars(Unpause(c))
    /\ \A j \in Jobs : WF_vars(\E w \in Workers : Start(w, j))
    /\ \A w \in Workers : /\ WF_vars(LockRow(w) \/ LockFails(w)) /\ WF_vars(LockGranted(w))
                          /\ WF_vars(Performing(w)) /\ WF_vars(EnqueueWaiting(w))

FairSpec == Spec /\ Fairness

-----------------------------------------------------------------------------
(* No more jobs of a channel and of those that flow into it are enqueued   *)
(* or started than its capacity, though the runner learns late what became *)
(* of them, forgets all in a restart, takes the living for dead, and a     *)
(* manager requeues what is being executed (channels.py:519-575,           *)
(* runner.py:317-424).                                                     *)
CapacityKept ==
    \A c \in Channels :
        Capacity[c] # 0 =>
            Cardinality(Through(c) \cap In({"enqueued", "started"})) <= Capacity[c]

(* A sequential channel does not go past a failed job: none is enqueued    *)
(* while one before it in the channel is failed or has still to end,       *)
(* unless a manager has interfered or a request has waited too long        *)
(* (channels.py:335-349, 519-526).                                         *)
SequenceKept ==
    [][\A i, j \in Jobs :
         /\ i < j /\ ChannelOf[i] = ChannelOf[j] /\ ChannelOf[j] \in Sequential
         /\ mishaps \cap {"press", "late"} = {}
         /\ job[j].state # "enqueued" /\ job'[j].state = "enqueued"
         => job[i].state \in {"wait_dependencies", "pending", "done"}]_vars

(* A job that is executed is shown as started, its parents are done and    *)
(* nobody else executes it, unless a manager has interfered or a request   *)
(* has waited too long (controllers/main.py:84-164, job.py:260-292).       *)
ExecutionIsKnown ==
    mishaps \cap {"press", "late"} = {} =>
        \A w \in Workers :
            pc[w] = "running" =>
                /\ job[task[w]].state = "started"
                /\ \A i \in Parents[task[w]] : job[i].state = "done"
                /\ \A v \in Workers : task[v] = task[w] => v = w

(* A job does not stay enqueued or started for ever, whether its request   *)
(* is lost, its worker dies or the runner restarts (runner.py:327-424).    *)
ActiveSettles ==
    \A j \in Jobs : j \in In({"enqueued", "started"}) ~> j \notin In({"enqueued", "started"})

(* A pending job that no sequential channel holds back gets its turn,      *)
(* unless a manager has interfered (channels.py:528-575).                  *)
PendingServed ==
    \A j \in Jobs :
        ~(\E c \in Path[ChannelOf[j]] : c \in Sequential) =>
            (job[j].state = "pending" ~> job[j].state # "pending" \/ "press" \in mishaps)

Released(j) == job[j].state = "wait_dependencies" => \E i \in Parents[j] : job[i].state # "done"

(* Whenever a job waits though all its parents are done, the worker of one *)
(* of them has still to release it, however the ends of the parents fall   *)
(* together; unless a worker has died or a manager has interfered          *)
(* (job.py:536-569, controllers/main.py:29-77).                            *)
ReleaseOwed ==
    \A j \in Jobs :
        \/ Released(j)
        \/ \E w \in Workers : pc[w] = "finished" /\ task[w] \in Parents[j]
        \/ mishaps \cap {"death", "press"} # {}

(* A job is executed when, and only when, its parents are done, whatever   *)
(* becomes of the workers (readme/USAGE.md:80-81).                         *)
DependentsExecuted ==
    \A j \in Jobs : ~Released(j) ~> Released(j) \/ "press" \in mishaps
=============================================================================
