--------------------------- MODULE QueueJobProofs ---------------------------
(***************************************************************************)
(* For any graph of jobs, any tree of channels and any number of workers,  *)
(* interventions and accidents: the types of QueueJob; that no channel     *)
(* ever has more jobs under way than its capacity; that what a worker      *)
(* executes is known; that a sequential channel keeps its order; and that  *)
(* the release of a waiting job is always owed by somebody.                *)
(***************************************************************************)
EXTENDS QueueJob, FiniteSetTheorems, WellFoundedInduction, TLAPS

-----------------------------------------------------------------------------
(* The inductive invariant                                                 *)

(* A job in the queue of a channel is marked running in the channels it    *)
(* has come through on its way there, and in no other.                     *)
QueuedOnTheWay ==
    \A c \in Channels : \A j \in queue[c] :
        /\ c \in Path[ChannelOf[j]]
        /\ \A d \in Path[ChannelOf[j]] : j \in running[d] <=> d \notin Path[c]

(* A job that is enqueued or started has its place in each channel on its  *)
(* way, whatever the runner has yet to be told.                            *)
ActiveHasPlaces ==
    \A j \in Jobs : job[j].state \in {"enqueued", "started"} =>
                        \A c \in Path[ChannelOf[j]] : j \in running[c]

PlacesLimited ==
    \A c \in Channels : Capacity[c] # 0 => Cardinality(running[c]) <= Capacity[c]

IInv == TypeOK /\ QueuedOnTheWay /\ ActiveHasPlaces /\ PlacesLimited

-----------------------------------------------------------------------------
(* The tree of channels                                                    *)

(* Every set of channels has one none of whose children belong to it.      *)
LEMMA Topmost ==
    ASSUME NEW V \in SUBSET Channels, V # {}
    PROVE  \E d \in V : \A e \in Children(d) : e \notin V
<1> DEFINE Up(d) == {x \in Channels : d \in Path[x]}
           T == {Up(d) : d \in V}
<1>1. \A d \in V : Up(d) \in FiniteSubsetsOf(Channels)
  BY ChannelAssumption, FS_Subset DEF FiniteSubsetsOf
<1>2. T \subseteq FiniteSubsetsOf(Channels) /\ T # {}
  BY <1>1
<1>3. PICK m \in T : \A y \in T : <<y, m>> \notin StrictSubsetOrdering(Channels)
  <2> HIDE DEF T
  <2> QED BY <1>2, FS_StrictSubsetOrderingWellFounded, WFMin
<1>4. PICK d \in V : m = Up(d)
  BY <1>3
<1>5. ASSUME NEW e \in Children(d), e \in V
      PROVE  FALSE
  <2>1. Up(e) \subseteq Up(d) /\ d \in Up(d) /\ d \notin Up(e)
    BY <1>4, <1>5, ChannelAssumption DEF Children
  <2>2. <<Up(e), Up(d)>> \in StrictSubsetOrdering(Channels)
    <3> DEFINE A == Up(e)
               B == Up(d)
    <3>1. A \in SUBSET Channels /\ B \in SUBSET Channels /\ A \subseteq B /\ A # B
      BY <2>1
    <3>2. <<A, B>> \in StrictSubsetOrdering(Channels)
      <4> HIDE DEF A, B
      <4> QED BY <3>1 DEF StrictSubsetOrdering
    <3> QED
      BY <3>2
  <2> QED
    BY <2>2, <1>3, <1>4, <1>5
<1> QED
  BY <1>4, <1>5

(* What a channel lets out has been let out by every channel on the way    *)
(* from the queue it was in.                                               *)
LEMMA LetOutAlongTheWay ==
    ASSUME TypeOK,
           NEW out \in [Channels -> SUBSET Jobs],
           \A c \in Channels : out[c] \subseteq Inflow(out, c),
           NEW j \in Jobs, NEW d \in Channels, j \in out[d]
    PROVE  \E s \in Channels : /\ j \in queue[s]
                               /\ d \in Path[s]
                               /\ \A e \in Path[s] : d \in Path[e] => j \in out[e]
<1> DEFINE From(s, x) == /\ j \in queue[s]
                         /\ x \in Path[s]
                         /\ \A e \in Path[s] : x \in Path[e] => j \in out[e]
           V == {x \in Channels : j \in out[x] /\ ~ \E s \in Channels : From(s, x)}
<1>1. SUFFICES ASSUME V # {} PROVE FALSE
  OBVIOUS
<1>2. PICK x \in V : \A y \in Children(x) : y \notin V
  <2> HIDE DEF V
  <2>1. V \in SUBSET Channels
    BY DEF V
  <2> QED BY <1>1, <2>1, Topmost
<1>3. CASE j \in queue[x]
  BY <1>2, <1>3, ChannelAssumption
<1>4. CASE \E y \in Children(x) : j \in out[y]
  <2>1. PICK y \in Children(x) : j \in out[y]
    BY <1>4
  <2>2. y \in Channels /\ Path[y] = {y} \cup Path[x] /\ y \notin Path[x]
    BY DEF Children
  <2>3. PICK s \in Channels : From(s, y)
    BY <1>2, <2>1, <2>2
  <2>4. x \in Path[s]
    BY <2>2, <2>3, ChannelAssumption
  <2>5. ASSUME NEW e \in Path[s], x \in Path[e]
        PROVE  j \in out[e]
    <3>1. e \in Path[y] \/ y \in Path[e]
      BY <2>3, ChannelAssumption
    <3>2. e \in Path[x] => e = x
      BY <2>5, <1>2, ChannelAssumption
    <3> QED
      BY <1>2, <2>1, <2>2, <2>3, <3>1, <3>2
  <2> QED
    BY <1>2, <2>3, <2>4, <2>5
<1> QED
  BY <1>2, <1>3, <1>4 DEF Inflow

(* A job waits in one queue.                                               *)
LEMMA OneQueue ==
    ASSUME QueuedOnTheWay,
           NEW c \in Channels, NEW d \in Channels, NEW j \in Jobs,
           j \in queue[c], j \in queue[d]
    PROVE  c = d
  BY ChannelAssumption, JobAssumption DEF QueuedOnTheWay

-----------------------------------------------------------------------------
(* Type correctness                                                        *)

(* What is marked running in a channel can be counted.                     *)
LEMMA MemoryFinite ==
    ASSUME TypeOK, NEW c \in Channels
    PROVE  IsFiniteSet(running[c]) /\ Cardinality(running[c]) \in Nat
  BY JobAssumption, FS_Subset, FS_CardinalityType DEF TypeOK

(* The free places of a channel.                                           *)
LEMMA RoomIsFree ==
    ASSUME TypeOK, NEW c \in Channels
    PROVE  /\ Room(c) \in Nat
           /\ Capacity[c] # 0 /\ Cardinality(running[c]) <= Capacity[c]
                => Cardinality(running[c]) + Room(c) <= Capacity[c]
<1>1. Slots(c) \in Nat
  BY MemoryFinite, JobAssumption, ChannelAssumption, FS_CardinalityType DEF Slots
<1>2. Room(c) \in Nat /\ Room(c) <= Slots(c)
  BY <1>1 DEF Room, Least
<1>3. Capacity[c] # 0 /\ Cardinality(running[c]) <= Capacity[c]
        => Cardinality(running[c]) + Slots(c) <= Capacity[c]
  BY MemoryFinite, ChannelAssumption DEF Slots
<1> QED
  BY <1>1, <1>2, <1>3, MemoryFinite, ChannelAssumption

(* What RunJobs does to the rows and to the memory, without the order in   *)
(* which it chooses.                                                       *)
LEMMA RunJobsChooses ==
    ASSUME TypeOK, RunJobs
    PROVE  \E out \in [Channels -> SUBSET Jobs] :
             /\ \A c \in Channels : /\ out[c] \subseteq Inflow(out, c)
                                   /\ IsFiniteSet(out[c])
                                   /\ Cardinality(out[c]) \in Nat
                                   /\ Cardinality(out[c]) <= Room(c)
             /\ queue' = [c \in Channels |-> Inflow(out, c) \ out[c]]
             /\ running' = [c \in Channels |-> running[c] \cup out[c]]
             /\ job' = [j \in Jobs |-> IF j \in out[Root] THEN [job[j] EXCEPT !.state = "enqueued"]
                                       ELSE job[j]]
             /\ Written(out[Root])
             /\ asked' = asked \cup out[Root]
<1>1. PICK out \in [Channels -> SUBSET UNION {queue[c] : c \in Channels}],
           future \in SeenAsFuture, earliest \in [Sequential -> Jobs] :
        /\ LetsOut(out, future, earliest)
        /\ queue' = [c \in Channels |-> Inflow(out, c) \ out[c]]
        /\ running' = [c \in Channels |-> running[c] \cup out[c]]
        /\ job' = [j \in Jobs |-> IF j \in out[Root] THEN [job[j] EXCEPT !.state = "enqueued"]
                                  ELSE job[j]]
        /\ Written(out[Root])
        /\ asked' = asked \cup out[Root]
  BY DEF RunJobs
<1>2. out \in [Channels -> SUBSET Jobs]
  BY <1>1 DEF TypeOK
<1>3. ASSUME NEW c \in Channels
      PROVE  /\ out[c] \subseteq Inflow(out, c)
             /\ IsFiniteSet(out[c])
             /\ Cardinality(out[c]) \in Nat
             /\ Cardinality(out[c]) <= Room(c)
  <2> DEFINE T == Ready(c, Inflow(out, c), future, earliest)
  <2>1. FirstOf(out[c], Room(c), T)
    BY <1>1 DEF LetsOut
  <2>2. T \subseteq Inflow(out, c)
    BY DEF Ready
  <2>3. Inflow(out, c) \subseteq Jobs
    BY <1>2 DEF Inflow, TypeOK, Children
  <2>4. IsFiniteSet(T) /\ Cardinality(T) \in Nat
    BY <2>2, <2>3, JobAssumption, FS_Subset, FS_CardinalityType
  <2>5. IsFiniteSet(out[c]) /\ Cardinality(out[c]) \in Nat
    BY <1>2, JobAssumption, FS_Subset, FS_CardinalityType
  <2> HIDE DEF T
  <2> QED
    BY <2>1, <2>2, <2>4, <2>5, RoomIsFree DEF FirstOf, Least
<1> QED
  BY <1>1, <1>2, <1>3

(* set_pending chooses between two states.                                 *)
LEMMA StoredTyped ==
    ASSUME job \in [Jobs -> JobRecord], NEW j \in Jobs
    PROVE  PendingState(j) \in States
  BY DEF PendingState, States

(* Writing rows leaves notifications and marks of the right type.          *)
LEMMA WrittenTyped ==
    ASSUME TypeOK, NEW S \in SUBSET Jobs, Written(S)
    PROVE  notes' \subseteq Jobs /\ fresh' \subseteq Workers
  BY DEF TypeOK, Written

(* So does a mishap its records.                                           *)
LEMMA MishapTyped ==
    ASSUME TypeOK, NEW m \in Mishaps, Happens(m)
    PROVE  mishaps' \subseteq Mishaps /\ left' \in 0 .. MaxMishaps
  BY JobAssumption DEF TypeOK, Happens

(* A worker at rest is typed as one at work.                               *)
LEMMA RestTyped ==
    ASSUME TypeOK, NEW w \in Workers, Rest(w)
    PROVE  /\ pc' \in [Workers -> {"idle", "starting", "waiting", "running", "finished"}]
           /\ task' \in [Workers -> Jobs \cup {NoJob}]
           /\ tries' \in [Workers -> 0 .. MaxRetries + 1]
           /\ \A v \in Workers : pc'[v] # "idle" => task'[v] \in Jobs
  BY JobAssumption DEF TypeOK, Rest

(* A row with another state and retry count is a row.                      *)
LEMMA RowTyped ==
    ASSUME job \in [Jobs -> JobRecord], NEW j \in Jobs,
           NEW state \in States, NEW retry \in 0 .. MaxRetries + 1
    PROVE  [job EXCEPT ![j].state = state, ![j].retry = retry] \in [Jobs -> JobRecord]
  BY DEF JobRecord

(* What the runner's memory is left as by a notification.                  *)
LEMMA NotifyTyped ==
    ASSUME TypeOK, NEW j \in Jobs, Notify(j)
    PROVE  TypeOK'
<1>1. CASE SetRunning(j)
  BY <1>1, ChannelAssumption DEF TypeOK, Notify, SetRunning, workers
<1>2. CASE SetPending(j) \/ SetFailed(j) \/ Drop(j) \/ SetWaiting(j)
  <2>1. ASSUME NEW content \in [Channels -> SUBSET Jobs]
        PROVE  /\ Without(content, j) \in [Channels -> SUBSET Jobs]
               /\ With(content, j) \in [Channels -> SUBSET Jobs]
    BY ChannelAssumption DEF With, Without
  <2>2. /\ queue' \in [Channels -> SUBSET Jobs]
        /\ running' \in [Channels -> SUBSET Jobs]
        /\ failed' \in [Channels -> SUBSET Jobs]
    BY <1>2, <2>1 DEF TypeOK, SetPending, SetFailed, SetWaiting, Drop
  <2> QED
    BY <2>2 DEF TypeOK, Notify, workers
<1> QED
  BY <1>1, <1>2 DEF Notify

(* What the runner sends off leaves every variable of its type,            *)
LEMMA RunJobsTyped ==
    ASSUME TypeOK, RunJobs
    PROVE  TypeOK'
<1>1. PICK out \in [Channels -> SUBSET Jobs] :
             /\ queue' = [c \in Channels |-> Inflow(out, c) \ out[c]]
             /\ running' = [c \in Channels |-> running[c] \cup out[c]]
             /\ job' = [j \in Jobs |-> IF j \in out[Root] THEN [job[j] EXCEPT !.state = "enqueued"]
                                       ELSE job[j]]
             /\ Written(out[Root])
             /\ asked' = asked \cup out[Root]
  BY RunJobsChooses
<1>2. job' \in [Jobs -> JobRecord]
  BY <1>1 DEF TypeOK, JobRecord, States
<1>3. queue' \in [Channels -> SUBSET Jobs] /\ running' \in [Channels -> SUBSET Jobs]
  BY <1>1 DEF TypeOK, Inflow, Children
<1>4. notes' \subseteq Jobs /\ fresh' \subseteq Workers /\ asked' \subseteq Jobs
  BY <1>1, WrittenTyped, ChannelAssumption DEF TypeOK
<1> QED
  BY <1>2, <1>3, <1>4 DEF TypeOK, RunJobs, workers

(* and so does all else that it does,                                      *)
LEMMA RunnerTyped ==
    ASSUME TypeOK, Runner
    PROVE  TypeOK'
<1>1. CASE Restart
  <2>1. mishaps' \subseteq Mishaps /\ left' \in 0 .. MaxMishaps
    BY <1>1, MishapTyped DEF Restart, Mishaps
  <2> QED
    BY <1>1, <2>1 DEF TypeOK, Restart, workers, Direct, Through, ActiveJobs, In
<1>2. ASSUME NEW j \in Jobs, RequeueDead(j)
      PROVE  TypeOK'
  <2>1. job' \in [Jobs -> JobRecord]
    <3> DEFINE state == IF job[j].retry > MaxRetries THEN "failed" ELSE "pending"
               retry == IF job[j].state = "started" THEN Least(job[j].retry + 1, MaxRetries + 1)
                        ELSE job[j].retry
    <3>1. job' = [job EXCEPT ![j].state = state, ![j].retry = retry]
      BY <1>2 DEF RequeueDead, TypeOK
    <3>2. job[j].retry \in 0 .. MaxRetries + 1
      BY DEF TypeOK, JobRecord
    <3>3. state \in States /\ retry \in 0 .. MaxRetries + 1
      BY <3>2, JobAssumption DEF States, Least
    <3> HIDE DEF state, retry
    <3> QED
      BY <3>1, <3>3, RowTyped DEF TypeOK
  <2>2. notes' \subseteq Jobs /\ fresh' \subseteq Workers
    BY <1>2, WrittenTyped DEF RequeueDead
  <2>3. mishaps' \subseteq Mishaps /\ left' \in 0 .. MaxMishaps
    BY <1>2, MishapTyped DEF RequeueDead, Mishaps, TypeOK
  <2> QED
    BY <1>2, <2>1, <2>2, <2>3 DEF TypeOK, RequeueDead, memory, workers
<1>3. ASSUME NEW j \in Jobs, RequestWasted(j)
      PROVE  TypeOK'
  <2>1. mishaps' \subseteq Mishaps /\ left' \in 0 .. MaxMishaps
    BY <1>3, MishapTyped DEF RequestWasted, Mishaps, TypeOK
  <2> QED
    BY <1>3, <2>1 DEF TypeOK, RequestWasted, memory, workers
<1>4. ASSUME NEW j \in Jobs, EtaComes(j)
      PROVE  TypeOK'
  BY <1>4 DEF TypeOK, EtaComes, memory, workers, JobRecord, Etas
<1>5. ASSUME NEW c \in Channels, Unpause(c)
      PROVE  TypeOK'
  BY <1>5 DEF TypeOK, Unpause, workers
<1> QED
  BY <1>1, <1>2, <1>3, <1>4, <1>5, RunJobsTyped, NotifyTyped DEF Runner

(* what a queue manager presses,                                           *)
LEMMA ManagerTyped ==
    ASSUME TypeOK, Manager
    PROVE  TypeOK'
<1>1. PICK j \in Jobs : Requeue(j) \/ SetDone(j) \/ Cancel(j)
  BY DEF Manager
<1>2. mishaps' \subseteq Mishaps /\ left' \in 0 .. MaxMishaps
  BY <1>1, MishapTyped DEF Requeue, SetDone, Cancel, Mishaps
<1>3. job' \in [Jobs -> JobRecord]
  <2>1. CASE Requeue(j)
    <3>1. PendingState(j) \in States /\ 0 \in 0 .. MaxRetries + 1
      BY StoredTyped, JobAssumption DEF TypeOK
    <3> QED
      BY <2>1, <3>1, RowTyped DEF TypeOK, Requeue
  <2>2. CASE SetDone(j) \/ Cancel(j)
    <3>1. PICK state \in States, dstate \in States : StoreWithDependents(j, state, dstate)
      BY <2>2 DEF SetDone, Cancel, States
    <3>2. \A i \in Jobs : /\ job[i] \in JobRecord
                          /\ [job[i] EXCEPT !.state = state] \in JobRecord
                          /\ [job[i] EXCEPT !.state = dstate] \in JobRecord
      BY DEF TypeOK, JobRecord
    <3> QED
      BY <3>1, <3>2 DEF StoreWithDependents
  <2> QED
    BY <1>1, <2>1, <2>2
<1>4. notes' \subseteq Jobs /\ fresh' \subseteq Workers
  BY <1>1, WrittenTyped DEF Requeue, SetDone, Cancel, StoreWithDependents, Dependents
<1> QED
  BY <1>1, <1>2, <1>3, <1>4 DEF TypeOK, Requeue, SetDone, Cancel, memory, workers

(* the postponement of a job                                               *)
LEMMA PostponeTyped ==
    ASSUME TypeOK, NEW w \in Workers, task[w] \in Jobs,
           NEW retry \in Nat, Postpone(w, retry)
    PROVE  TypeOK'
<1>1. Least(retry, MaxRetries + 1) \in 0 .. MaxRetries + 1
  BY JobAssumption DEF Least
<1>2. job' \in [Jobs -> JobRecord]
  BY <1>1, StoredTyped DEF TypeOK, Postpone, JobRecord, Etas
<1>3. notes' \subseteq Jobs /\ fresh' \subseteq Workers
  BY WrittenTyped DEF Postpone
<1> QED
  BY <1>2, <1>3, RestTyped DEF TypeOK, Postpone, memory

(* and the other steps of a worker.                                        *)
LEMMA WorkerTyped ==
    ASSUME TypeOK, NEW w \in Workers, Worker(w)
    PROVE  TypeOK'
<1> USE JobAssumption
<1>1. pc[w] # "idle" => task[w] \in Jobs
  BY DEF TypeOK
<1>2. tries[w] \in 0 .. MaxRetries + 1
  BY DEF TypeOK
<1>3. ASSUME NEW j \in Jobs, Start(w, j)
      PROVE  TypeOK'
  <2>1. notes' \subseteq Jobs /\ fresh' \subseteq Workers
    BY <1>3, WrittenTyped DEF Start
  <2>2. job' \in [Jobs -> JobRecord] /\ job[j].retry \in 0 .. MaxRetries + 1
    BY <1>3 DEF TypeOK, Start, JobRecord, States
  <2> QED
    BY <1>3, <2>1, <2>2 DEF TypeOK, Start, memory
<1>4. CASE LockRow(w) \/ LockGranted(w)
  BY <1>1, <1>4 DEF TypeOK, LockRow, LockGranted, memory
<1>5. CASE LockFails(w) \/ PerformRefused(w) \/ PerformRetries(w)
  BY <1>1, <1>2, <1>5, PostponeTyped DEF LockFails, PerformRefused, PerformRetries
<1>6. CASE Perform(w)
  <2>1. notes' \subseteq Jobs /\ fresh' \subseteq Workers
    BY <1>1, <1>6, WrittenTyped DEF Perform
  <2>2. job' \in [Jobs -> JobRecord]
    BY <1>1, <1>6 DEF TypeOK, Perform, JobRecord, States
  <2>3. pc' \in [Workers -> {"idle", "starting", "waiting", "running", "finished"}]
    BY <1>6 DEF TypeOK, Perform
  <2> QED
    BY <1>1, <1>6, <2>1, <2>2, <2>3 DEF TypeOK, Perform, memory
<1>7. CASE PerformFails(w)
  <2>1. notes' \subseteq Jobs /\ fresh' \subseteq Workers
    BY <1>1, <1>7, WrittenTyped DEF PerformFails
  <2>2. Least(tries[w] + 1, MaxRetries + 1) \in 0 .. MaxRetries + 1
    BY <1>2 DEF Least
  <2>3. job' \in [Jobs -> JobRecord]
    BY <1>1, <1>7, <2>2 DEF TypeOK, PerformFails, JobRecord, States
  <2> QED
    BY <1>7, <2>1, <2>3, RestTyped DEF TypeOK, PerformFails, memory
<1>8. CASE EnqueueWaiting(w)
  <2> DEFINE released == {c \in Dependents(task[w], "done") : job[task[w]].state = "done"}
  <2>1. released \subseteq Jobs
    BY DEF Dependents
  <2>2. Written(released) /\ Rest(w)
        /\ job' = [c \in Jobs |-> IF c \in released THEN [job[c] EXCEPT !.state = "pending"] ELSE job[c]]
    BY <1>8 DEF EnqueueWaiting
  <2>3. job' \in [Jobs -> JobRecord]
    <3>1. \A c \in Jobs : job[c] \in JobRecord /\ [job[c] EXCEPT !.state = "pending"] \in JobRecord
      BY DEF TypeOK, JobRecord, States
    <3> HIDE DEF released
    <3> QED
      BY <2>2, <3>1
  <2>4. notes' \subseteq Jobs /\ fresh' \subseteq Workers
    <3> HIDE DEF released
    <3> QED BY <2>1, <2>2, WrittenTyped
  <2> QED
    BY <1>8, <2>2, <2>3, <2>4, RestTyped DEF TypeOK, EnqueueWaiting, memory
<1>9. CASE Die(w)
  BY <1>9, RestTyped, MishapTyped DEF TypeOK, Die, memory, Mishaps
<1> QED
  BY <1>3, <1>4, <1>5, <1>6, <1>7, <1>8, <1>9 DEF Worker, Performing

(* The variables of QueueJob keep their types through every press of a     *)
(* button (queue_job.py:314-351), every turn of the runner (runner.py:606) *)
(* and every step of a worker (controllers/main.py:84).                    *)
THEOREM Typed == Spec => []TypeOK
<1>1. Init => TypeOK
  BY JobAssumption DEF Init, TypeOK, JobRecord, States, Etas
<1>2. TypeOK /\ [Next]_vars => TypeOK'
  <2> SUFFICES ASSUME TypeOK, [Next]_vars PROVE TypeOK'
    OBVIOUS
  <2>1. CASE UNCHANGED vars
    BY <2>1 DEF TypeOK, vars, memory, workers
  <2>2. CASE Next
    BY <2>2, ManagerTyped, RunnerTyped, WorkerTyped DEF Next
  <2> QED
    BY <2>1, <2>2
<1> QED
  BY <1>1, <1>2, PTL DEF Spec

-----------------------------------------------------------------------------
(* The places of the jobs under way                                        *)

PlacesKept == QueuedOnTheWay' /\ ActiveHasPlaces' /\ PlacesLimited'

Active(state) == state \in {"enqueued", "started"}

(* A step that leaves the memory alone and puts no job under way.          *)
LEMMA QuietKeepsPlaces ==
    ASSUME IInv, UNCHANGED <<queue, running>>,
           \A j \in Jobs : Active(job'[j].state) => Active(job[j].state)
    PROVE  PlacesKept
  BY DEF IInv, PlacesKept, QueuedOnTheWay, ActiveHasPlaces, PlacesLimited, Active

(* A step that takes one job that is not under way from all the channels,  *)
(* and may put it back in the queue of its own.                            *)
LEMMA ForgettingKeepsPlaces ==
    ASSUME IInv, NEW j \in Jobs, ~Active(job[j].state), job' = job,
           running' = Without(running, j),
           queue' \in {Without(queue, j), With(Without(queue, j), j)}
    PROVE  PlacesKept
<1> USE ChannelAssumption
<1>1. ActiveHasPlaces'
  BY DEF IInv, TypeOK, ActiveHasPlaces, Without, Active
<1>2. ASSUME NEW c \in Channels, NEW i \in queue'[c]
      PROVE  i \in queue[c] \ {j} \/ (i = j /\ c = ChannelOf[j])
  <2>1. CASE queue' = Without(queue, j)
    BY <1>2, <2>1 DEF Without
  <2>2. CASE queue' = With(Without(queue, j), j)
    <3>1. Without(queue, j) \in [Channels -> SUBSET Jobs]
      BY DEF IInv, TypeOK, Without
    <3>2. i \in Without(queue, j)[c] \/ (i = j /\ c = ChannelOf[j])
      BY <1>2, <2>2, <3>1 DEF With
    <3> QED
      BY <3>2 DEF Without
  <2> QED
    BY <2>1, <2>2
<1>3. QueuedOnTheWay'
  <2> SUFFICES ASSUME NEW c \in Channels, NEW i \in queue'[c]
               PROVE  /\ c \in Path[ChannelOf[i]]
                      /\ \A d \in Path[ChannelOf[i]] : i \in running'[d] <=> d \notin Path[c]
    BY DEF QueuedOnTheWay
  <2>1. CASE i = j
    <3>1. c = ChannelOf[j]
      BY <1>2, <2>1
    <3>2. \A d \in Path[c] : j \notin running'[d]
      BY DEF Without
    <3> QED
      BY <2>1, <3>1, <3>2
  <2>2. CASE i # j
    <3>1. i \in queue[c] /\ i \in Jobs
      BY <1>2, <2>2 DEF IInv, TypeOK
    <3>2. \A d \in Channels : i \in running'[d] <=> i \in running[d]
      BY <2>2 DEF Without
    <3> QED
      BY <3>1, <3>2 DEF IInv, QueuedOnTheWay
  <2> QED
    BY <2>1, <2>2
<1>4. PlacesLimited'
  <2> SUFFICES ASSUME NEW c \in Channels, Capacity[c] # 0
               PROVE  Cardinality(running'[c]) <= Capacity[c]
    BY DEF PlacesLimited
  <2>1. running'[c] \subseteq running[c]
    BY DEF Without
  <2>2. /\ Cardinality(running'[c]) <= Cardinality(running[c])
        /\ Cardinality(running'[c]) \in Nat
    BY <2>1, MemoryFinite, FS_Subset, FS_CardinalityType DEF IInv
  <2> QED
    BY <2>2, MemoryFinite DEF IInv, PlacesLimited
<1> QED
  BY <1>1, <1>3, <1>4 DEF PlacesKept

(* A notification either finds a job under way where it is, or forgets it. *)
LEMMA NotifyKeepsPlaces ==
    ASSUME IInv, NEW j \in Jobs, Notify(j)
    PROVE  PlacesKept
<1>1. job' = job
  BY DEF Notify
<1>2. CASE UNCHANGED <<queue, running>>
  BY <1>1, <1>2, QuietKeepsPlaces
<1>3. CASE Active(job[j].state)
  <2>1. SetRunning(j)
    BY <1>3 DEF Notify, Active
  <2>2. \A c \in Path[ChannelOf[j]] : j \in running[c] /\ c \in Path[c]
    BY <1>3, ChannelAssumption DEF IInv, ActiveHasPlaces, Active
  <2>3. UNCHANGED <<queue, running>>
    BY <2>1, <2>2 DEF SetRunning, IInv, TypeOK
  <2> QED
    BY <1>2, <2>3
<1>4. CASE ~Active(job[j].state) /\ ~UNCHANGED <<queue, running>>
  <2>1. /\ running' = Without(running, j)
        /\ queue' \in {Without(queue, j), With(Without(queue, j), j)}
    BY <1>4 DEF Notify, Drop, SetPending, SetFailed, SetWaiting, Active
  <2> QED
    BY <1>1, <1>4, <2>1, ForgettingKeepsPlaces
<1> QED
  BY <1>2, <1>3, <1>4

(* What the runner reads after a restart has its place already.            *)
LEMMA RestartKeepsPlaces ==
    ASSUME IInv, Restart
    PROVE  PlacesKept
<1> USE ChannelAssumption
<1>1. job' = job /\ \A c \in Channels : /\ queue'[c] = Direct(c) \cap In({"pending"})
                                       /\ running'[c] = Through(c) \cap ActiveJobs
  BY DEF Restart
<1>2. ActiveHasPlaces'
  BY <1>1 DEF ActiveHasPlaces, Through, ActiveJobs, In
<1>3. QueuedOnTheWay'
  BY <1>1 DEF QueuedOnTheWay, Direct, Through, ActiveJobs, In
<1>4. PlacesLimited'
  <2> SUFFICES ASSUME NEW c \in Channels, Capacity[c] # 0
               PROVE  Cardinality(running'[c]) <= Capacity[c]
    BY DEF PlacesLimited
  <2>1. running'[c] \subseteq running[c]
    BY <1>1 DEF IInv, ActiveHasPlaces, Through, ActiveJobs, In
  <2>2. /\ Cardinality(running'[c]) <= Cardinality(running[c])
        /\ Cardinality(running'[c]) \in Nat
    BY <2>1, MemoryFinite, FS_Subset, FS_CardinalityType DEF IInv
  <2> QED
    BY <2>2, MemoryFinite DEF IInv, PlacesLimited
<1> QED
  BY <1>2, <1>3, <1>4 DEF PlacesKept

(* The jobs the runner sends off get a place in each channel on their way, *)
(* those that get stuck in one that is full keep what they have got, and   *)
(* no channel gives more places than it has.                               *)
LEMMA RunJobsKeepsPlaces ==
    ASSUME IInv, RunJobs
    PROVE  PlacesKept
<1> USE ChannelAssumption
<1>1. PICK out \in [Channels -> SUBSET Jobs] :
        /\ \A c \in Channels : /\ out[c] \subseteq Inflow(out, c)
                              /\ IsFiniteSet(out[c])
                              /\ Cardinality(out[c]) \in Nat
                              /\ Cardinality(out[c]) <= Room(c)
        /\ queue' = [c \in Channels |-> Inflow(out, c) \ out[c]]
        /\ running' = [c \in Channels |-> running[c] \cup out[c]]
        /\ job' = [j \in Jobs |-> IF j \in out[Root] THEN [job[j] EXCEPT !.state = "enqueued"]
                                  ELSE job[j]]
  BY RunJobsChooses DEF IInv
<1> DEFINE Source(j, s, d) == /\ j \in queue[s]
                              /\ d \in Path[s]
                              /\ \A e \in Path[s] : d \in Path[e] => j \in out[e]
<1>2. ASSUME NEW j \in Jobs, NEW d \in Channels, j \in out[d]
      PROVE  \E s \in Channels : Source(j, s, d)
  BY <1>1, <1>2, LetOutAlongTheWay DEF IInv
<1>3. ASSUME NEW s \in Channels, NEW j \in queue[s]
      PROVE  /\ j \in Jobs
             /\ s \in Path[ChannelOf[j]]
             /\ \A d \in Path[ChannelOf[j]] : j \in running[d] <=> d \notin Path[s]
  BY <1>3 DEF IInv, TypeOK, QueuedOnTheWay
<1>4. ActiveHasPlaces'
  <2> SUFFICES ASSUME NEW j \in Jobs, Active(job'[j].state), NEW c \in Path[ChannelOf[j]]
               PROVE  j \in running'[c]
    BY DEF ActiveHasPlaces, Active
  <2>1. CASE j \in out[Root]
    <3>1. PICK s \in Channels : Source(j, s, Root)
      BY <1>2, <2>1
    <3>2. c \in Path[s] => j \in out[c]
      BY <3>1
    <3>3. c \notin Path[s] => j \in running[c]
      BY <1>3, <3>1
    <3> QED
      BY <1>1, <3>2, <3>3
  <2>2. CASE j \notin out[Root]
    BY <1>1, <2>2 DEF IInv, ActiveHasPlaces, Active
  <2> QED
    BY <2>1, <2>2
<1>5. QueuedOnTheWay'
  <2> SUFFICES ASSUME NEW c \in Channels, NEW j \in queue'[c]
               PROVE  /\ c \in Path[ChannelOf[j]]
                      /\ \A d \in Path[ChannelOf[j]] : j \in running'[d] <=> d \notin Path[c]
    BY DEF QueuedOnTheWay
  <2>1. j \in Inflow(out, c) /\ j \notin out[c]
    BY <1>1
  <2>2. PICK s \in Channels : /\ j \in queue[s]
                              /\ c \in Path[s]
                              /\ \A e \in Path[s] : c \in Path[e] /\ e # c => j \in out[e]
    <3>1. CASE j \in queue[c]
      BY <3>1
    <3>2. CASE j \notin queue[c]
      <4>1. PICK y \in Children(c) : j \in out[y]
        BY <2>1, <3>2 DEF Inflow
      <4>2. y \in Channels /\ Path[y] = {y} \cup Path[c]
        BY DEF Children
      <4>3. j \in Jobs
        BY <4>1, <4>2, <1>1
      <4>4. PICK s \in Channels : Source(j, s, y)
        BY <1>2, <4>1, <4>2, <4>3
      <4>5. ASSUME NEW e \in Path[s], c \in Path[e], e # c
            PROVE  j \in out[e]
        <5>1. e \in Path[y] \/ y \in Path[e]
          BY <4>4
        <5>2. e \in Path[y] => e = y
          BY <4>2, <4>5
        <5> QED
          BY <4>1, <4>4, <5>1, <5>2
      <4> QED
        BY <4>2, <4>4, <4>5
    <3> QED
      BY <3>1, <3>2
  <2>3. /\ j \in Jobs
        /\ s \in Path[ChannelOf[j]]
        /\ \A d \in Path[ChannelOf[j]] : j \in running[d] <=> d \notin Path[s]
    BY <1>3, <2>2
  <2>4. ASSUME NEW d \in Path[c]
        PROVE  j \notin out[d]
    <3> SUFFICES ASSUME j \in out[d] PROVE FALSE
      OBVIOUS
    <3>1. PICK r \in Channels : Source(j, r, d)
      BY <1>2, <2>3, <2>4
    <3>2. r = s
      BY <2>2, <2>3, <3>1, OneQueue DEF IInv
    <3> QED
      BY <2>1, <2>2, <2>4, <3>1, <3>2
  <2>5. ASSUME NEW d \in Path[ChannelOf[j]]
        PROVE  j \in running'[d] <=> d \notin Path[c]
    <3>1. CASE d \in Path[c]
      BY <1>1, <2>2, <2>3, <2>4, <3>1
    <3>2. CASE d \notin Path[c] /\ d \in Path[s]
      <4>1. c \in Path[d] /\ d # c
        BY <2>2, <3>2
      <4> QED
        BY <1>1, <2>2, <3>2, <4>1
    <3>3. CASE d \notin Path[s]
      BY <1>1, <2>2, <2>3, <3>3
    <3> QED
      BY <3>1, <3>2, <3>3
  <2> QED
    BY <2>2, <2>3, <2>5
<1>6. PlacesLimited'
  <2> SUFFICES ASSUME NEW c \in Channels, Capacity[c] # 0
               PROVE  Cardinality(running'[c]) <= Capacity[c]
    BY DEF PlacesLimited
  <2>1. Cardinality(running[c]) + Room(c) <= Capacity[c] /\ Room(c) \in Nat
    BY RoomIsFree DEF IInv, PlacesLimited
  <2>2. IsFiniteSet(running[c]) /\ Cardinality(running[c]) \in Nat
    BY MemoryFinite DEF IInv
  <2>3. Cardinality(running[c] \cup out[c]) <= Cardinality(running[c]) + Cardinality(out[c])
    <3>1. Cardinality(running[c] \cap out[c]) \in Nat
      BY <2>2, FS_Subset, FS_CardinalityType
    <3>2. Cardinality(running[c] \cup out[c])
            = Cardinality(running[c]) + Cardinality(out[c]) - Cardinality(running[c] \cap out[c])
      BY <1>1, <2>2, FS_Union
    <3> QED
      BY <1>1, <2>2, <3>1, <3>2
  <2>4. IsFiniteSet(running[c] \cup out[c])
    BY <1>1, <2>2, FS_Union
  <2>5. Cardinality(running[c] \cup out[c]) \in Nat
    BY <2>4, FS_CardinalityType
  <2>6. running'[c] = running[c] \cup out[c]
    BY <1>1
  <2> QED
    BY <1>1, <2>1, <2>2, <2>3, <2>5, <2>6
<1> QED
  BY <1>4, <1>5, <1>6 DEF PlacesKept

(* A row written with its state and its retry count has that state.        *)
LEMMA RowState ==
    ASSUME job \in [Jobs -> JobRecord], NEW j \in Jobs, NEW state, NEW retry,
           job' = [job EXCEPT ![j].state = state, ![j].retry = retry]
    PROVE  \A i \in Jobs : job'[i].state = IF i = j THEN state ELSE job[i].state
  BY DEF JobRecord

(* Whoever writes a row without the runner takes the job off its way, or   *)
(* leaves it there.                                                        *)
LEMMA OthersKeepPlaces ==
    ASSUME IInv,
           \/ Manager
           \/ \E w \in Workers : Worker(w)
           \/ \E j \in Jobs : RequeueDead(j) \/ EtaComes(j) \/ RequestWasted(j)
           \/ \E c \in Channels : Unpause(c)
    PROVE  PlacesKept
<1> USE DEF IInv, TypeOK, Active
<1>1. CASE Manager
  <2>1. PICK j \in Jobs : Requeue(j) \/ SetDone(j) \/ Cancel(j)
    BY <1>1 DEF Manager
  <2>2. CASE Requeue(j)
    <3>1. \A i \in Jobs : job'[i].state = IF i = j THEN PendingState(j) ELSE job[i].state
      BY <2>2, RowState DEF Requeue
    <3>2. \A i \in Jobs : Active(job'[i].state) => Active(job[i].state)
      BY <3>1 DEF PendingState
    <3> QED
      BY <2>2, <3>2, QuietKeepsPlaces DEF Requeue, memory
  <2>3. CASE SetDone(j) \/ Cancel(j)
    <3>1. \A i \in Jobs : Active(job'[i].state) => Active(job[i].state)
      BY <2>3 DEF SetDone, Cancel, StoreWithDependents, JobRecord
    <3> QED
      BY <2>3, <3>1, QuietKeepsPlaces DEF SetDone, Cancel, memory
  <2> QED
    BY <2>1, <2>2, <2>3
<1>2. ASSUME NEW w \in Workers, Worker(w)
      PROVE  PlacesKept
  <2>1. \A j \in Jobs : Active(job'[j].state) => Active(job[j].state)
    <3>1. CASE \E j \in Jobs : Start(w, j)
      BY <3>1 DEF Start, JobRecord
    <3>2. CASE LockRow(w) \/ LockGranted(w) \/ Die(w)
      BY <3>2 DEF LockRow, LockGranted, Die
    <3>3. CASE LockFails(w) \/ PerformRefused(w) \/ PerformRetries(w)
      BY <3>3 DEF LockFails, PerformRefused, PerformRetries, Postpone, PendingState
    <3>4. CASE Perform(w)
      BY <3>4 DEF Perform, JobRecord
    <3>5. CASE PerformFails(w)
      <4>1. task[w] \in Jobs
        BY <3>5 DEF PerformFails
      <4>2. \A i \in Jobs : job'[i].state = IF i = task[w] THEN "failed" ELSE job[i].state
        <5> DEFINE retry == Least(tries[w] + 1, MaxRetries + 1)
        <5>1. job' = [job EXCEPT ![task[w]].state = "failed", ![task[w]].retry = retry]
          BY <3>5 DEF PerformFails
        <5> HIDE DEF retry
        <5> QED
          BY <4>1, <5>1, RowState
      <4> QED
        BY <4>2
    <3>6. CASE EnqueueWaiting(w)
      BY <3>6 DEF EnqueueWaiting, JobRecord
    <3> QED
      BY <1>2, <3>1, <3>2, <3>3, <3>4, <3>5, <3>6 DEF Worker, Performing
  <2>2. UNCHANGED <<queue, running>>
    BY <1>2 DEF Worker, Performing, Start, LockRow, LockFails, LockGranted, Perform, PerformRefused,
                PerformRetries, PerformFails, Postpone, EnqueueWaiting, Die, memory
  <2> QED
    BY <2>1, <2>2, QuietKeepsPlaces
<1>3. ASSUME NEW j \in Jobs, RequeueDead(j) \/ EtaComes(j) \/ RequestWasted(j)
      PROVE  PlacesKept
  <2>1. \A i \in Jobs : Active(job'[i].state) => Active(job[i].state)
    <3>1. CASE RequeueDead(j)
      <4> DEFINE state == IF job[j].retry > MaxRetries THEN "failed" ELSE "pending"
      <4>1. \A i \in Jobs : job'[i].state = IF i = j THEN state ELSE job[i].state
        <5> DEFINE retry == IF job[j].state = "started" THEN Least(job[j].retry + 1, MaxRetries + 1)
                            ELSE job[j].retry
        <5>1. job' = [job EXCEPT ![j].state = state, ![j].retry = retry]
          BY <3>1 DEF RequeueDead
        <5> HIDE DEF state, retry
        <5> QED
          BY <5>1, RowState
      <4> QED
        BY <4>1
    <3>2. CASE EtaComes(j) \/ RequestWasted(j)
      BY <3>2 DEF EtaComes, RequestWasted, JobRecord
    <3> QED
      BY <1>3, <3>1, <3>2
  <2> QED
    BY <1>3, <2>1, QuietKeepsPlaces DEF RequeueDead, EtaComes, RequestWasted, memory
<1>4. ASSUME NEW c \in Channels, Unpause(c)
      PROVE  PlacesKept
  BY <1>4, QuietKeepsPlaces DEF Unpause
<1> QED
  BY <1>1, <1>2, <1>3, <1>4

(* The places the runner has given (channels.py:496-575) cover all the     *)
(* jobs under way at any time, also those it has not been told of.         *)
THEOREM PlacesHold == Spec => []IInv
<1>1. Init => IInv
  <2> SUFFICES ASSUME Init PROVE IInv
    OBVIOUS
  <2>1. TypeOK
    BY JobAssumption DEF Init, TypeOK, JobRecord, States, Etas
  <2>2. QueuedOnTheWay /\ ActiveHasPlaces
    BY DEF Init, QueuedOnTheWay, ActiveHasPlaces
  <2>3. PlacesLimited
    BY FS_EmptySet, ChannelAssumption DEF Init, PlacesLimited
  <2> QED
    BY <2>1, <2>2, <2>3 DEF IInv
<1>2. IInv /\ TypeOK' /\ [Next]_vars => IInv'
  <2> SUFFICES ASSUME IInv, TypeOK', [Next]_vars PROVE PlacesKept
    BY DEF IInv, PlacesKept
  <2>1. CASE UNCHANGED vars
    BY <2>1, QuietKeepsPlaces DEF vars, memory
  <2>2. CASE Next
    BY <2>2, NotifyKeepsPlaces, RestartKeepsPlaces, RunJobsKeepsPlaces, OthersKeepPlaces
       DEF Next, Runner
  <2> QED
    BY <2>1, <2>2
<1> QED
  BY <1>1, <1>2, Typed, PTL DEF Spec

(* No channel, whatever its place in the tree, has more jobs enqueued or   *)
(* started than its capacity (channels.py:519-575).                        *)
THEOREM CapacityHolds == Spec => []CapacityKept
<1>1. IInv => CapacityKept
  <2> SUFFICES ASSUME IInv, NEW c \in Channels, Capacity[c] # 0
               PROVE  Cardinality(Through(c) \cap In({"enqueued", "started"})) <= Capacity[c]
    BY DEF CapacityKept
  <2> DEFINE S == Through(c) \cap In({"enqueued", "started"})
  <2>1. S \subseteq running[c]
    BY DEF IInv, ActiveHasPlaces, Through, In
  <2>2. IsFiniteSet(running[c]) /\ Cardinality(running[c]) \in Nat
    BY MemoryFinite DEF IInv
  <2>3. Cardinality(S) <= Cardinality(running[c]) /\ Cardinality(S) \in Nat
    <3> HIDE DEF S
    <3> QED BY <2>1, <2>2, FS_Subset, FS_CardinalityType
  <2> QED
    BY <2>2, <2>3, ChannelAssumption DEF IInv, PlacesLimited
<1> QED
  BY <1>1, PlacesHold, PTL

-----------------------------------------------------------------------------
(* What a step makes of the states of the rows                             *)

(* Row j gets this state, and no other row is written.                     *)
Becomes(j, state) ==
    \A i \in Jobs : job'[i].state = IF i = j THEN state ELSE job[i].state

(* Each step of a worker writes the row of its job, or none.               *)
LEMMA WorkerWrites ==
    ASSUME TypeOK, NEW w \in Workers
    PROVE  /\ \A j \in Jobs : Start(w, j) => Becomes(j, "started")
           /\ \A retry : task[w] \in Jobs /\ Postpone(w, retry) => Becomes(task[w], PendingState(task[w]))
           /\ Perform(w) => Becomes(task[w], "done")
           /\ PerformFails(w) => Becomes(task[w], "failed")
<1>1. pc[w] # "idle" => task[w] \in Jobs
  BY DEF TypeOK
<1>2. ASSUME NEW j \in Jobs, Start(w, j)
      PROVE  Becomes(j, "started")
  BY <1>2 DEF TypeOK, Start, Becomes, JobRecord
<1>3. ASSUME NEW retry, task[w] \in Jobs, Postpone(w, retry)
      PROVE  Becomes(task[w], PendingState(task[w]))
  BY <1>3 DEF TypeOK, Postpone, Becomes
<1>4. ASSUME Perform(w)
      PROVE  Becomes(task[w], "done")
  BY <1>1, <1>4 DEF TypeOK, Perform, Becomes, JobRecord
<1>5. ASSUME PerformFails(w)
      PROVE  Becomes(task[w], "failed")
  <2> DEFINE retry == Least(tries[w] + 1, MaxRetries + 1)
  <2>1. job' = [job EXCEPT ![task[w]].state = "failed", ![task[w]].retry = retry] /\ task[w] \in Jobs
    BY <1>1, <1>5 DEF PerformFails
  <2> HIDE DEF retry
  <2> QED
    BY <2>1, RowState DEF TypeOK, Becomes
<1> QED
  BY <1>2, <1>3, <1>4, <1>5

(* A job taken for dead is pending again, or has failed once too often.    *)
LEMMA DeadWrites ==
    ASSUME TypeOK, NEW j \in Jobs, RequeueDead(j)
    PROVE  Becomes(j, IF job[j].retry > MaxRetries THEN "failed" ELSE "pending")
<1> DEFINE state == IF job[j].retry > MaxRetries THEN "failed" ELSE "pending"
           retry == IF job[j].state = "started" THEN Least(job[j].retry + 1, MaxRetries + 1)
                    ELSE job[j].retry
<1>1. job' = [job EXCEPT ![j].state = state, ![j].retry = retry]
  BY DEF RequeueDead
<1> HIDE DEF state, retry
<1>2. Becomes(j, state)
  BY <1>1, RowState DEF TypeOK, Becomes
<1> QED
  BY <1>2 DEF state

(* Only the runner's requests put a job under way as enqueued.             *)
LEMMA RunJobsWrites ==
    ASSUME TypeOK, NEW out \in [Channels -> SUBSET Jobs],
           job' = [j \in Jobs |-> IF j \in out[Root] THEN [job[j] EXCEPT !.state = "enqueued"]
                                  ELSE job[j]]
    PROVE  \A j \in Jobs : job'[j].state = IF j \in out[Root] THEN "enqueued" ELSE job[j].state
  BY DEF TypeOK, JobRecord

(* The record of mishaps only grows.                                       *)
LEMMA MishapsGrow ==
    ASSUME Next
    PROVE  mishaps \subseteq mishaps'
<1>1. CASE Manager
  BY <1>1 DEF Manager, Requeue, SetDone, Cancel, Happens
<1>2. CASE Runner
  BY <1>2 DEF Runner, RunJobs, Restart, Notify, RequeueDead, EtaComes, RequestWasted, Unpause, Happens
<1>3. CASE \E w \in Workers : Worker(w)
  BY <1>3 DEF Worker, Performing, Start, LockRow, LockFails, LockGranted, Perform, PerformRefused,
              PerformRetries, PerformFails, Postpone, EnqueueWaiting, Die, Happens
<1> QED
  BY <1>1, <1>2, <1>3 DEF Next

-----------------------------------------------------------------------------
(* The release of the jobs that wait                                       *)

(* A step that ends no job, sets none waiting but behind a parent, and     *)
(* lets the workers that have ended one go on.                             *)
LEMMA QuietOwesRelease ==
    ASSUME ReleaseOwed, mishaps \subseteq mishaps',
           \A j \in Jobs : job'[j].state = "done" => job[j].state = "done",
           \A j \in Jobs : job'[j].state = "wait_dependencies" =>
               job[j].state = "wait_dependencies" \/ \E i \in Parents[j] : job'[i].state # "done",
           \A w \in Workers : pc[w] = "finished" => pc'[w] = "finished" /\ task'[w] = task[w]
    PROVE  ReleaseOwed'
<1> SUFFICES ASSUME NEW j \in Jobs, ~Released(j)', mishaps' \cap {"death", "press"} = {}
             PROVE  \E w \in Workers : pc'[w] = "finished" /\ task'[w] \in Parents[j]
  BY DEF ReleaseOwed
<1>1. ~Released(j)
  BY JobAssumption DEF Released
<1>2. PICK w \in Workers : pc[w] = "finished" /\ task[w] \in Parents[j]
  BY <1>1 DEF ReleaseOwed
<1> QED
  BY <1>2

(* The worker of a job that has just ended, or has still to release those  *)
(* that wait for it.                                                       *)
LEMMA WorkerOwesRelease ==
    ASSUME TypeOK, ReleaseOwed, NEW w \in Workers, Worker(w), mishaps \subseteq mishaps'
    PROVE  ReleaseOwed'
<1>1. pc[w] # "idle" => task[w] \in Jobs
  BY DEF TypeOK
<1>3. ASSUME NEW j \in Jobs, Start(w, j)
      PROVE  ReleaseOwed'
  <2>1. Becomes(j, "started")
    BY <1>3, WorkerWrites
  <2>2. \A v \in Workers : pc[v] = "finished" => pc'[v] = "finished" /\ task'[v] = task[v]
    BY <1>3 DEF Start, TypeOK
  <2> QED
    BY <2>1, <2>2, QuietOwesRelease DEF Becomes
<1>4. CASE LockRow(w) \/ LockGranted(w)
  <2>1. job' = job /\ \A v \in Workers : pc[v] = "finished" => pc'[v] = "finished" /\ task'[v] = task[v]
    BY <1>4 DEF LockRow, LockGranted, TypeOK
  <2> QED
    BY <2>1, QuietOwesRelease
<1>5. CASE LockFails(w) \/ PerformRefused(w) \/ PerformRetries(w)
  <2>1. PICK retry : Postpone(w, retry) /\ pc[w] # "finished" /\ task[w] \in Jobs
    BY <1>1, <1>5 DEF LockFails, PerformRefused, PerformRetries
  <2>2. Becomes(task[w], PendingState(task[w]))
    BY <2>1, WorkerWrites
  <2>3. \A v \in Workers : pc[v] = "finished" => pc'[v] = "finished" /\ task'[v] = task[v]
    BY <2>1 DEF Postpone, Rest, TypeOK
  <2>4. \A j \in Jobs : job'[j].state = "done" => job[j].state = "done"
    BY <2>2 DEF Becomes, PendingState
  <2>5. \A j \in Jobs : job'[j].state = "wait_dependencies" =>
            job[j].state = "wait_dependencies" \/ \E i \in Parents[j] : job'[i].state # "done"
    BY <2>2, JobAssumption DEF Becomes, PendingState
  <2> QED
    BY <2>3, <2>4, <2>5, QuietOwesRelease
<1>6. CASE Perform(w)
  <2> SUFFICES ASSUME NEW j \in Jobs, ~Released(j)', mishaps' \cap {"death", "press"} = {}
               PROVE  \E v \in Workers : pc'[v] = "finished" /\ task'[v] \in Parents[j]
    BY DEF ReleaseOwed
  <2>1. Becomes(task[w], "done") /\ task[w] \in Jobs
    BY <1>1, <1>6, WorkerWrites DEF Perform
  <2>2. pc' = [pc EXCEPT ![w] = "finished"] /\ task' = task
    BY <1>6 DEF Perform, workers
  <2>3. CASE task[w] \in Parents[j]
    BY <2>2, <2>3 DEF TypeOK
  <2>4. CASE task[w] \notin Parents[j]
    <3>1. ~Released(j)
      BY <2>1, <2>4, JobAssumption DEF Released, Becomes
    <3>2. PICK v \in Workers : pc[v] = "finished" /\ task[v] \in Parents[j]
      BY <3>1 DEF ReleaseOwed
    <3> QED
      BY <2>2, <3>2 DEF TypeOK
  <2> QED
    BY <2>3, <2>4
<1>7. CASE PerformFails(w)
  <2>1. Becomes(task[w], "failed")
    BY <1>7, WorkerWrites
  <2>2. \A v \in Workers : pc[v] = "finished" => pc'[v] = "finished" /\ task'[v] = task[v]
    BY <1>7 DEF PerformFails, Rest, TypeOK
  <2> QED
    BY <2>1, <2>2, QuietOwesRelease DEF Becomes
<1>8. CASE EnqueueWaiting(w)
  <2> DEFINE released == {c \in Dependents(task[w], "done") : job[task[w]].state = "done"}
  <2>1. /\ pc[w] = "finished" /\ Rest(w)
        /\ job' = [c \in Jobs |-> IF c \in released THEN [job[c] EXCEPT !.state = "pending"] ELSE job[c]]
    BY <1>8 DEF EnqueueWaiting
  <2>2. \A j \in Jobs : job'[j].state = IF j \in released THEN "pending" ELSE job[j].state
    BY <2>1 DEF TypeOK, JobRecord
  <2> SUFFICES ASSUME NEW j \in Jobs, ~Released(j)', mishaps' \cap {"death", "press"} = {}
               PROVE  \E v \in Workers : pc'[v] = "finished" /\ task'[v] \in Parents[j]
    BY DEF ReleaseOwed
  <2>3. j \notin released /\ ~Released(j)
    BY <2>2, JobAssumption DEF Released
  <2>4. PICK v \in Workers : pc[v] = "finished" /\ task[v] \in Parents[j]
    BY <2>3 DEF ReleaseOwed
  <2>5. v # w
    BY <2>3, <2>4, JobAssumption DEF Released, Dependents
  <2> QED
    BY <2>1, <2>4, <2>5 DEF Rest, TypeOK
<1>9. CASE Die(w)
  BY <1>9 DEF Die, Happens, ReleaseOwed
<1> QED
  BY <1>3, <1>4, <1>5, <1>6, <1>7, <1>8, <1>9 DEF Worker, Performing

(* However the ends of the parents of a job fall together, some worker has *)
(* still to release it as long as it waits (job.py:536-569).               *)
THEOREM SomebodyReleases == Spec => []ReleaseOwed
<1>1. Init => ReleaseOwed
  <2> SUFFICES ASSUME Init, NEW j \in Jobs PROVE Released(j)
    BY DEF ReleaseOwed
  <2>1. \A i \in Jobs : job[i].state = IF Parents[i] = {} THEN "pending" ELSE "wait_dependencies"
    BY DEF Init
  <2>2. Parents[j] \subseteq Jobs
    BY JobAssumption
  <2> QED
    BY <2>1, <2>2 DEF Released
<1>2. TypeOK /\ ReleaseOwed /\ [Next]_vars => ReleaseOwed'
  <2> SUFFICES ASSUME TypeOK, ReleaseOwed, [Next]_vars PROVE ReleaseOwed'
    OBVIOUS
  <2>1. CASE UNCHANGED vars
    BY <2>1 DEF vars, workers, ReleaseOwed, Released
  <2>2. CASE Manager
    <3>1. "press" \in mishaps'
      BY <2>2 DEF Manager, Requeue, SetDone, Cancel, Happens
    <3> QED
      BY <3>1 DEF ReleaseOwed
  <2>3. CASE Runner
    <3>1. mishaps \subseteq mishaps' /\ pc' = pc /\ task' = task
      BY <2>3, MishapsGrow
         DEF Next, Runner, RunJobs, Restart, Notify, RequeueDead, EtaComes, RequestWasted, Unpause, workers
    <3>2. \A j \in Jobs : job'[j].state \in {"done", "wait_dependencies"} => job'[j].state = job[j].state
      <4>1. CASE RunJobs
        <5>1. PICK out \in [Channels -> SUBSET Jobs] :
                job' = [j \in Jobs |-> IF j \in out[Root] THEN [job[j] EXCEPT !.state = "enqueued"]
                                       ELSE job[j]]
          BY <4>1, RunJobsChooses
        <5> QED
          BY <5>1, RunJobsWrites
      <4>2. ASSUME NEW j \in Jobs, RequeueDead(j)
            PROVE  \A i \in Jobs : job'[i].state \in {"done", "wait_dependencies"} => job'[i].state = job[i].state
        BY <4>2, DeadWrites DEF Becomes
      <4>3. ASSUME NEW j \in Jobs, EtaComes(j)
            PROVE  \A i \in Jobs : job'[i].state = job[i].state
        BY <4>3 DEF EtaComes, TypeOK, JobRecord
      <4>4. ASSUME \/ Restart
                   \/ \E j \in Jobs : Notify(j) \/ RequestWasted(j)
                   \/ \E c \in Channels : Unpause(c)
            PROVE  job' = job
        BY <4>4 DEF Restart, Notify, RequestWasted, Unpause
      <4> QED
        BY <2>3, <4>1, <4>2, <4>3, <4>4 DEF Runner
    <3> QED
      BY <3>1, <3>2, QuietOwesRelease
  <2>4. CASE \E w \in Workers : Worker(w)
    BY <2>4, WorkerOwesRelease, MishapsGrow DEF Next
  <2> QED
    BY <2>1, <2>2, <2>3, <2>4 DEF Next
<1> QED
  BY <1>1, <1>2, Typed, PTL DEF Spec

-----------------------------------------------------------------------------
(* What is executed, as long as no manager interferes and no request waits *)
(* too long                                                                *)

Undisturbed == mishaps \cap {"press", "late"} = {}

Busy(w) == pc[w] \in {"starting", "waiting", "running"}

BusyWithStarted == \A w \in Workers : Busy(w) => job[task[w]].state = "started"

OneWorkerEach == \A v, w \in Workers : Busy(v) /\ Busy(w) /\ task[v] = task[w] => v = w

FinishedIsDone == \A w \in Workers : pc[w] = "finished" => job[task[w]].state = "done"

IdleHasNone == \A w \in Workers : pc[w] = "idle" => task[w] = NoJob

AskedIsEnqueued == \A j \in asked : job[j].state = "enqueued"

WorkersKnown ==
    BusyWithStarted /\ OneWorkerEach /\ FinishedIsDone /\ IdleHasNone /\ AskedIsEnqueued

(* A job gets ready only behind parents that are done.                     *)
ParentsDone ==
    \A j \in Jobs : job[j].state \in {"pending", "enqueued", "started"} =>
                        \A i \in Parents[j] : job[i].state = "done"

QueuedIsPending == \A c \in Channels : \A j \in queue[c] : job[j].state = "pending"

ExecutionInv == WorkersKnown /\ ParentsDone /\ QueuedIsPending

(* How the state of a row may change.                                      *)
GoesOn ==
    \A j \in Jobs :
        \/ job'[j].state = job[j].state
        \/ RunJobs /\ job[j].state = "pending" /\ job'[j].state = "enqueued"
        \/ Active(job[j].state) /\ job'[j].state \in {"pending", "started", "done", "failed"}
        \/ /\ job[j].state = "wait_dependencies" /\ job'[j].state = "pending"
           /\ \A i \in Parents[j] : job[i].state = "done"

(* A behaviour that is undisturbed has always been, and its steps disturb  *)
(* no job that somebody may still start.                                   *)
LEMMA NotDisturbing ==
    ASSUME Next, Undisturbed'
    PROVE  /\ Undisturbed
           /\ ~Manager
           /\ \A j \in Jobs : RequeueDead(j) => ~BeingStarted(j)
<1>1. Undisturbed
  BY MishapsGrow DEF Undisturbed
<1>2. ~Manager
  BY DEF Undisturbed, Manager, Requeue, SetDone, Cancel, Happens
<1>3. ASSUME NEW j \in Jobs, RequeueDead(j) PROVE ~BeingStarted(j)
  BY <1>3 DEF Undisturbed, RequeueDead, Happens
<1> QED
  BY <1>1, <1>2, <1>3

(* Rows and workers stay as they are, and requests are at most lost.       *)
LEMMA QuietExecution ==
    ASSUME WorkersKnown, \A j \in Jobs : job'[j].state = job[j].state,
           TypeOK, pc' = pc, task' = task, asked' \subseteq asked
    PROVE  WorkersKnown' /\ GoesOn
<1>1. \A w \in Workers : pc[w] # "idle" => task[w] \in Jobs
  BY DEF TypeOK
<1>2. BusyWithStarted' /\ OneWorkerEach'
  BY <1>1 DEF WorkersKnown, BusyWithStarted, OneWorkerEach, Busy
<1>3. FinishedIsDone' /\ IdleHasNone' /\ AskedIsEnqueued'
  BY <1>1 DEF WorkersKnown, FinishedIsDone, IdleHasNone, AskedIsEnqueued, TypeOK
<1> QED
  BY <1>2, <1>3 DEF WorkersKnown, GoesOn

(* What the runner sends off was pending, and nobody works on it.          *)
LEMMA RunJobsExecution ==
    ASSUME IInv, ExecutionInv, RunJobs
    PROVE  WorkersKnown' /\ GoesOn
<1>1. PICK out \in [Channels -> SUBSET Jobs] :
        /\ \A c \in Channels : out[c] \subseteq Inflow(out, c)
        /\ job' = [j \in Jobs |-> IF j \in out[Root] THEN [job[j] EXCEPT !.state = "enqueued"]
                                  ELSE job[j]]
        /\ asked' = asked \cup out[Root]
  BY RunJobsChooses DEF IInv
<1>2. \A j \in Jobs : job'[j].state = IF j \in out[Root] THEN "enqueued" ELSE job[j].state
  BY <1>1, RunJobsWrites DEF IInv
<1>3. ASSUME NEW j \in out[Root]
      PROVE  j \in Jobs /\ job[j].state = "pending"
  <2>1. j \in Jobs /\ Root \in Channels
    BY ChannelAssumption
  <2>2. PICK s \in Channels : j \in queue[s]
    BY <1>1, <2>1, LetOutAlongTheWay DEF IInv
  <2> QED
    BY <2>1, <2>2 DEF ExecutionInv, QueuedIsPending
<1>4. pc' = pc /\ task' = task
  BY DEF RunJobs, workers
<1>5. \A w \in Workers : pc[w] # "idle" => task[w] \in Jobs
  BY DEF IInv, TypeOK
<1>6. BusyWithStarted' /\ OneWorkerEach' /\ FinishedIsDone' /\ IdleHasNone'
  BY <1>2, <1>3, <1>4, <1>5
     DEF ExecutionInv, WorkersKnown, BusyWithStarted, OneWorkerEach, FinishedIsDone, IdleHasNone, Busy
<1>7. AskedIsEnqueued'
  <2>1. asked \subseteq Jobs
    BY DEF IInv, TypeOK
  <2> QED
    BY <1>1, <1>2, <1>3, <2>1 DEF ExecutionInv, WorkersKnown, AskedIsEnqueued
<1>8. GoesOn
  BY <1>2, <1>3 DEF GoesOn
<1> QED
  BY <1>6, <1>7, <1>8 DEF WorkersKnown

(* A job that is requeued as dead is nobody's.                             *)
LEMMA DeadExecution ==
    ASSUME IInv, ExecutionInv, NEW j \in Jobs, RequeueDead(j), ~BeingStarted(j)
    PROVE  WorkersKnown' /\ GoesOn
<1> DEFINE state == IF job[j].retry > MaxRetries THEN "failed" ELSE "pending"
<1>1. Becomes(j, state) /\ state \in {"failed", "pending"}
  BY DeadWrites DEF IInv
<1> HIDE DEF state
<1>2. Active(job[j].state) /\ j \notin asked /\ \A w \in Workers : Busy(w) => task[w] # j
  BY DEF RequeueDead, DeadIfUnlocked, Active, BeingStarted, Locked, Busy
<1>3. pc' = pc /\ task' = task /\ asked' = asked
  BY DEF RequeueDead, workers
<1>4. \A w \in Workers : pc[w] # "idle" => task[w] \in Jobs
  BY DEF IInv, TypeOK
<1>5. BusyWithStarted' /\ OneWorkerEach'
  BY <1>1, <1>2, <1>3, <1>4
     DEF ExecutionInv, WorkersKnown, BusyWithStarted, OneWorkerEach, Busy, Becomes
<1>6. FinishedIsDone' /\ IdleHasNone'
  BY <1>1, <1>2, <1>3, <1>4 DEF ExecutionInv, WorkersKnown, FinishedIsDone, IdleHasNone, Becomes, Active
<1>7. AskedIsEnqueued'
  <2>1. asked \subseteq Jobs
    BY DEF IInv, TypeOK
  <2> QED
    BY <1>1, <1>2, <1>3, <2>1 DEF ExecutionInv, WorkersKnown, AskedIsEnqueued, Becomes
<1>8. GoesOn
  BY <1>1, <1>2 DEF GoesOn, Becomes
<1> QED
  BY <1>5, <1>6, <1>7, <1>8 DEF WorkersKnown

(* A worker that gets hold of a job is the only one.                       *)
LEMMA StartExecution ==
    ASSUME IInv, ExecutionInv, NEW w \in Workers, NEW j \in Jobs, Start(w, j)
    PROVE  WorkersKnown' /\ GoesOn
<1>1. Becomes(j, "started") /\ job[j].state = "enqueued"
  BY WorkerWrites DEF IInv, Start
<1>2. \A v \in Workers : Busy(v) \/ pc[v] = "finished" => task[v] # j
  BY <1>1 DEF ExecutionInv, WorkersKnown, BusyWithStarted, FinishedIsDone
<1>3. /\ pc' = [pc EXCEPT ![w] = "starting"] /\ task' = [task EXCEPT ![w] = j]
      /\ asked' = asked \ {j}
  BY DEF Start
<1>4. \A v \in Workers : /\ v # w => pc'[v] = pc[v] /\ task'[v] = task[v]
                         /\ v = w => pc'[v] = "starting" /\ task'[v] = j
  BY <1>3 DEF IInv, TypeOK
<1>5. \A v \in Workers : pc[v] # "idle" => task[v] \in Jobs
  BY DEF IInv, TypeOK
<1>6. BusyWithStarted'
  BY <1>1, <1>2, <1>4, <1>5 DEF ExecutionInv, WorkersKnown, BusyWithStarted, Busy, Becomes
<1>7. OneWorkerEach'
  BY <1>2, <1>4 DEF ExecutionInv, WorkersKnown, OneWorkerEach, Busy
<1>8. FinishedIsDone' /\ IdleHasNone'
  BY <1>1, <1>2, <1>4, <1>5 DEF ExecutionInv, WorkersKnown, FinishedIsDone, IdleHasNone, Becomes
<1>9. AskedIsEnqueued'
  <2>1. asked \subseteq Jobs
    BY DEF IInv, TypeOK
  <2> QED
    BY <1>1, <1>3, <2>1 DEF ExecutionInv, WorkersKnown, AskedIsEnqueued, Becomes
<1>10. GoesOn
  BY <1>1 DEF GoesOn, Becomes, Active
<1> QED
  BY <1>6, <1>7, <1>8, <1>9, <1>10 DEF WorkersKnown

(* A worker ends the execution of its job, in one way or another.          *)
LEMMA EndExecution ==
    ASSUME IInv, ExecutionInv, NEW w \in Workers, Busy(w),
           NEW state \in {"pending", "done", "failed"}, Becomes(task[w], state), asked' = asked,
           \/ pc' = [pc EXCEPT ![w] = "idle"] /\ task' = [task EXCEPT ![w] = NoJob]
           \/ pc' = [pc EXCEPT ![w] = "finished"] /\ task' = task /\ state = "done"
    PROVE  WorkersKnown' /\ GoesOn
<1>1. task[w] \in Jobs /\ job[task[w]].state = "started"
  BY DEF Busy, IInv, TypeOK, ExecutionInv, WorkersKnown, BusyWithStarted
<1>2. \A v \in Workers : /\ v # w => pc'[v] = pc[v] /\ task'[v] = task[v]
                         /\ v = w => \/ pc'[v] = "idle" /\ task'[v] = NoJob
                                     \/ pc'[v] = "finished" /\ task'[v] = task[w] /\ state = "done"
  BY DEF IInv, TypeOK
<1>3. \A v \in Workers : v # w /\ pc[v] # "idle" => task[v] \in Jobs /\ task[v] # task[w]
  <2> SUFFICES ASSUME NEW v \in Workers, v # w, pc[v] # "idle" PROVE task[v] \in Jobs /\ task[v] # task[w]
    OBVIOUS
  <2>1. task[v] \in Jobs /\ (Busy(v) \/ pc[v] = "finished")
    BY DEF IInv, TypeOK, Busy
  <2> QED
    BY <1>1, <2>1 DEF ExecutionInv, WorkersKnown, OneWorkerEach, FinishedIsDone
<1>4. BusyWithStarted' /\ OneWorkerEach'
  BY <1>1, <1>2, <1>3 DEF ExecutionInv, WorkersKnown, BusyWithStarted, OneWorkerEach, Busy, Becomes
<1>5. FinishedIsDone' /\ IdleHasNone'
  BY <1>1, <1>2, <1>3 DEF ExecutionInv, WorkersKnown, FinishedIsDone, IdleHasNone, Becomes
<1>6. AskedIsEnqueued'
  BY <1>1 DEF IInv, TypeOK, ExecutionInv, WorkersKnown, AskedIsEnqueued, Becomes
<1>7. GoesOn
  BY <1>1 DEF GoesOn, Becomes, Active
<1> QED
  BY <1>4, <1>5, <1>6, <1>7 DEF WorkersKnown

(* A worker that goes home leaves the rows to the others.                  *)
LEMMA LeaveExecution ==
    ASSUME IInv, ExecutionInv, NEW w \in Workers, EnqueueWaiting(w) \/ Die(w)
    PROVE  WorkersKnown' /\ GoesOn
<1>1. pc' = [pc EXCEPT ![w] = "idle"] /\ task' = [task EXCEPT ![w] = NoJob] /\ asked' = asked
  BY DEF EnqueueWaiting, Die, Rest
<1>2. \A j \in Jobs : \/ job'[j].state = job[j].state
                      \/ /\ job[j].state = "wait_dependencies" /\ job'[j].state = "pending"
                         /\ \A i \in Parents[j] : job[i].state = "done"
  <2>1. CASE EnqueueWaiting(w)
    <3> DEFINE released == {c \in Dependents(task[w], "done") : job[task[w]].state = "done"}
    <3>1. job' = [c \in Jobs |-> IF c \in released THEN [job[c] EXCEPT !.state = "pending"] ELSE job[c]]
      BY <2>1 DEF EnqueueWaiting
    <3>2. \A j \in Jobs : job'[j].state = IF j \in released THEN "pending" ELSE job[j].state
      BY <3>1 DEF IInv, TypeOK, JobRecord
    <3> QED
      BY <3>2 DEF Dependents
  <2>2. CASE Die(w)
    BY <2>2 DEF Die
  <2> QED
    BY <2>1, <2>2
<1>3. \A v \in Workers : /\ v # w => pc'[v] = pc[v] /\ task'[v] = task[v]
                         /\ v = w => pc'[v] = "idle" /\ task'[v] = NoJob
  BY <1>1 DEF IInv, TypeOK
<1>4. \A v \in Workers : pc[v] # "idle" => task[v] \in Jobs
  BY DEF IInv, TypeOK
<1>5. BusyWithStarted' /\ OneWorkerEach'
  BY <1>2, <1>3, <1>4 DEF ExecutionInv, WorkersKnown, BusyWithStarted, OneWorkerEach, Busy
<1>6. FinishedIsDone' /\ IdleHasNone'
  BY <1>2, <1>3, <1>4 DEF ExecutionInv, WorkersKnown, FinishedIsDone, IdleHasNone
<1>7. AskedIsEnqueued'
  BY <1>1, <1>2 DEF IInv, TypeOK, ExecutionInv, WorkersKnown, AskedIsEnqueued
<1>8. GoesOn
  BY <1>2 DEF GoesOn
<1> QED
  BY <1>5, <1>6, <1>7, <1>8 DEF WorkersKnown

(* The steps of a worker.                                                  *)
LEMMA WorkerExecution ==
    ASSUME IInv, ExecutionInv, NEW w \in Workers, Worker(w)
    PROVE  WorkersKnown' /\ GoesOn
<1>1. CASE LockRow(w) \/ LockGranted(w)
  <2>1. job' = job /\ task' = task /\ asked' = asked
    BY <1>1 DEF LockRow, LockGranted
  <2>2. \A v \in Workers : pc'[v] = pc[v] \/ (pc[v] \in {"starting", "waiting"} /\ pc'[v] \in {"waiting", "running"})
    BY <1>1 DEF LockRow, LockGranted, IInv, TypeOK
  <2>3. BusyWithStarted' /\ OneWorkerEach' /\ FinishedIsDone' /\ IdleHasNone' /\ AskedIsEnqueued'
    BY <2>1, <2>2
       DEF ExecutionInv, WorkersKnown, BusyWithStarted, OneWorkerEach, FinishedIsDone, IdleHasNone,
           AskedIsEnqueued, Busy
  <2> QED
    BY <2>1, <2>3 DEF WorkersKnown, GoesOn
<1>2. CASE LockFails(w) \/ PerformRefused(w) \/ PerformRetries(w)
  <2>1. Busy(w) /\ task[w] \in Jobs
    BY <1>2 DEF LockFails, PerformRefused, PerformRetries, Busy, IInv, TypeOK
  <2>2. PendingState(task[w]) = "pending"
    BY <2>1 DEF PendingState, ExecutionInv, WorkersKnown, BusyWithStarted, ParentsDone
  <2>3. PICK retry : Postpone(w, retry)
    BY <1>2 DEF LockFails, PerformRefused, PerformRetries
  <2>4. Becomes(task[w], "pending")
    BY <2>1, <2>2, <2>3, WorkerWrites DEF IInv
  <2> QED
    BY <2>1, <2>3, <2>4, EndExecution DEF Postpone, Rest
<1>3. CASE Perform(w)
  <2>1. Busy(w) /\ Becomes(task[w], "done")
    BY <1>3, WorkerWrites DEF Perform, Busy, IInv
  <2>2. pc' = [pc EXCEPT ![w] = "finished"] /\ task' = task /\ asked' = asked
    BY <1>3 DEF Perform
  <2> QED
    BY <2>1, <2>2, EndExecution
<1>4. CASE PerformFails(w)
  <2>1. Busy(w) /\ Becomes(task[w], "failed")
    BY <1>4, WorkerWrites DEF PerformFails, Busy, IInv
  <2> QED
    BY <1>4, <2>1, EndExecution DEF PerformFails, Rest
<1> QED
  BY <1>1, <1>2, <1>3, <1>4, StartExecution, LeaveExecution DEF Worker, Performing

(* All steps that do not disturb.                                          *)
LEMMA ExecutionStep ==
    ASSUME IInv, ExecutionInv, Next, Undisturbed'
    PROVE  WorkersKnown' /\ GoesOn
<1>1. CASE \E w \in Workers : Worker(w)
  BY <1>1, WorkerExecution
<1>2. CASE RunJobs
  BY <1>2, RunJobsExecution
<1>3. ASSUME NEW j \in Jobs, RequeueDead(j)
      PROVE  WorkersKnown' /\ GoesOn
  BY <1>3, NotDisturbing, DeadExecution
<1>4. ASSUME \/ Restart
             \/ \E j \in Jobs : Notify(j) \/ EtaComes(j) \/ RequestWasted(j)
             \/ \E c \in Channels : Unpause(c)
      PROVE  WorkersKnown' /\ GoesOn
  <2>1. pc' = pc /\ task' = task /\ asked' \subseteq asked
    BY <1>4 DEF Restart, Notify, EtaComes, RequestWasted, Unpause, workers
  <2>2. \A j \in Jobs : job'[j].state = job[j].state
    BY <1>4 DEF Restart, Notify, EtaComes, RequestWasted, Unpause, IInv, TypeOK, JobRecord
  <2> QED
    BY <2>1, <2>2, QuietExecution DEF ExecutionInv, IInv
<1> QED
  BY <1>1, <1>2, <1>3, <1>4, NotDisturbing DEF Next, Runner

(* What has been done stays done.                                          *)
LEMMA ParentsStayDone ==
    ASSUME ParentsDone, GoesOn
    PROVE  ParentsDone'
<1> SUFFICES ASSUME NEW j \in Jobs, job'[j].state \in {"pending", "enqueued", "started"}, NEW i \in Parents[j]
             PROVE  job'[i].state = "done"
  BY DEF ParentsDone
<1>1. i \in Jobs
  BY JobAssumption
<1>2. job[i].state = "done"
  BY DEF ParentsDone, GoesOn, Active
<1> QED
  BY <1>1, <1>2 DEF GoesOn, Active

(* The runner's queues change with what it reads or sends off only.        *)
LEMMA QueuedStaysPending ==
    ASSUME IInv, IInv', QueuedIsPending, Next, ~Manager, GoesOn
    PROVE  QueuedIsPending'
<1> SUFFICES ASSUME NEW c \in Channels, NEW j \in queue'[c]
             PROVE  job'[j].state = "pending"
  BY DEF QueuedIsPending
<1>1. j \in Jobs /\ ~Active(job'[j].state)
  <2>1. j \in Jobs /\ c \in Path[ChannelOf[j]]
    BY DEF IInv, TypeOK, QueuedOnTheWay
  <2>2. Root \in Path[c] /\ Root \in Path[ChannelOf[j]]
    BY <2>1, ChannelAssumption
  <2>3. j \notin running'[Root]
    BY <2>2 DEF IInv, QueuedOnTheWay
  <2> QED
    BY <2>1, <2>2, <2>3 DEF IInv, ActiveHasPlaces, Active
<1>2. CASE \E d \in Channels : j \in queue[d]
  BY <1>1, <1>2 DEF QueuedIsPending, GoesOn, Active
<1>3. CASE \A d \in Channels : j \notin queue[d]
  <2>1. CASE Restart
    BY <1>1, <2>1 DEF Restart, In
  <2>2. CASE RunJobs
    <3>1. PICK out \in [Channels -> SUBSET Jobs] :
            /\ \A d \in Channels : out[d] \subseteq Inflow(out, d)
            /\ queue' = [d \in Channels |-> Inflow(out, d) \ out[d]]
      BY <2>2, RunJobsChooses DEF IInv
    <3>2. PICK d \in Channels : j \in out[d]
      BY <1>3, <3>1 DEF Inflow, Children
    <3> QED
      BY <1>1, <1>3, <3>1, <3>2, LetOutAlongTheWay DEF IInv
  <2>3. ASSUME NEW i \in Jobs, Notify(i)
        PROVE  job'[j].state = "pending"
    <3>1. job' = job
      BY <2>3 DEF Notify
    <3>2. SetPending(i) /\ job[i].state = "pending"
      BY <1>3, <2>3 DEF Notify, Drop, SetFailed, SetRunning, SetWaiting, Without
    <3>3. queue' = With(Without(queue, i), i)
      BY <1>3, <3>2 DEF SetPending
    <3>4. j = i
      BY <1>3, <3>3 DEF With, Without, IInv, TypeOK
    <3> QED
      BY <3>1, <3>2, <3>4
  <2>4. CASE UNCHANGED queue
    BY <1>3, <2>4
  <2>5. ASSUME \/ \E i \in Jobs : RequeueDead(i) \/ EtaComes(i) \/ RequestWasted(i)
               \/ \E d \in Channels : Unpause(d)
               \/ \E w \in Workers : Worker(w)
        PROVE  UNCHANGED queue
    BY <2>5 DEF RequeueDead, EtaComes, RequestWasted, Unpause, Worker, Performing, Start, LockRow,
                LockFails, LockGranted, Perform, PerformRefused, PerformRetries, PerformFails,
                Postpone, EnqueueWaiting, Die, memory
  <2> QED
    BY <2>1, <2>2, <2>3, <2>4, <2>5 DEF Next, Runner
<1> QED
  BY <1>2, <1>3

(* What the execution of jobs rests on, as long as nothing disturbs it.    *)
THEOREM ExecutionHolds == Spec => [](Undisturbed => ExecutionInv)
<1>1. Init => ExecutionInv
  <2> SUFFICES ASSUME Init PROVE ExecutionInv
    OBVIOUS
  <2>1. WorkersKnown
    BY DEF Init, WorkersKnown, BusyWithStarted, OneWorkerEach, FinishedIsDone, IdleHasNone,
           AskedIsEnqueued, Busy
  <2>2. ParentsDone
    <3> SUFFICES ASSUME NEW j \in Jobs, job[j].state \in {"pending", "enqueued", "started"}
                 PROVE  Parents[j] = {}
      BY DEF ParentsDone
    <3>1. job[j].state = IF Parents[j] = {} THEN "pending" ELSE "wait_dependencies"
      BY DEF Init
    <3> QED
      BY <3>1
  <2>3. QueuedIsPending
    BY DEF Init, QueuedIsPending
  <2> QED
    BY <2>1, <2>2, <2>3 DEF ExecutionInv
<1>2. IInv /\ IInv' /\ (Undisturbed => ExecutionInv) /\ [Next]_vars => (Undisturbed => ExecutionInv)'
  <2> SUFFICES ASSUME IInv, IInv', Undisturbed => ExecutionInv, [Next]_vars, Undisturbed'
               PROVE  ExecutionInv'
    OBVIOUS
  <2>1. CASE UNCHANGED vars
    BY <2>1 DEF vars, memory, workers, Undisturbed, ExecutionInv, WorkersKnown, BusyWithStarted, OneWorkerEach,
                FinishedIsDone, IdleHasNone, AskedIsEnqueued, Busy, ParentsDone, QueuedIsPending
  <2>2. CASE Next
    BY <2>2, NotDisturbing, ExecutionStep, ParentsStayDone, QueuedStaysPending DEF ExecutionInv
  <2> QED
    BY <2>1, <2>2
<1> QED
  BY <1>1, <1>2, PlacesHold, PTL DEF Spec

(* A job that is executed is shown as started, its parents are done, and   *)
(* nobody else executes it (controllers/main.py:84-164, job.py:260-292).   *)
THEOREM ExecutionKnown == Spec => []ExecutionIsKnown
<1>1. IInv /\ (Undisturbed => ExecutionInv) => ExecutionIsKnown
  <2> SUFFICES ASSUME IInv, ExecutionInv, NEW w \in Workers, pc[w] = "running"
               PROVE  /\ job[task[w]].state = "started"
                      /\ \A i \in Parents[task[w]] : job[i].state = "done"
                      /\ \A v \in Workers : task[v] = task[w] => v = w
    BY DEF ExecutionIsKnown, Undisturbed
  <2>1. task[w] \in Jobs /\ Busy(w) /\ job[task[w]].state = "started"
    BY DEF IInv, TypeOK, ExecutionInv, WorkersKnown, BusyWithStarted, Busy
  <2>2. \A i \in Parents[task[w]] : job[i].state = "done"
    BY <2>1 DEF ExecutionInv, ParentsDone
  <2>3. ASSUME NEW v \in Workers, task[v] = task[w]
        PROVE  v = w
    <3>1. pc[v] # "idle"
      BY <2>1, <2>3, JobAssumption DEF ExecutionInv, WorkersKnown, IdleHasNone
    <3>2. pc[v] # "finished"
      BY <2>1, <2>3 DEF ExecutionInv, WorkersKnown, FinishedIsDone
    <3>3. Busy(v)
      BY <3>1, <3>2 DEF IInv, TypeOK, Busy
    <3> QED
      BY <2>1, <2>3, <3>3 DEF ExecutionInv, WorkersKnown, OneWorkerEach
  <2> QED
    BY <2>1, <2>2, <2>3
<1> QED
  BY <1>1, PlacesHold, ExecutionHolds, PTL

-----------------------------------------------------------------------------
(* The order in a sequential channel                                       *)

NoneCancelled == \A j \in Jobs : job[j].state # "cancelled"

(* Of a failed job the runner has been told, or it holds its place.        *)
FailedIsMarked ==
    \A j \in Jobs : job[j].state = "failed" => j \in failed[ChannelOf[j]] \cup running[ChannelOf[j]]

(* A sequential channel lets nothing out past a failed job.                *)
FailedAlone ==
    \A j \in Jobs : ChannelOf[j] \in Sequential /\ job[j].state = "failed" => running[ChannelOf[j]] \subseteq {j}

SequenceInv == NoneCancelled /\ FailedIsMarked /\ FailedAlone

(* A sequential channel has one place.                                     *)
LEMMA OnePlace ==
    ASSUME IInv, NEW c \in Sequential, NEW j \in running[c], NEW i \in running[c]
    PROVE  i = j
<1>1. c \in Channels /\ Capacity[c] = 1
  BY ChannelAssumption
<1>2. IsFiniteSet(running[c]) /\ Cardinality(running[c]) \in Nat /\ Cardinality(running[c]) <= 1
  BY <1>1, MemoryFinite DEF IInv, PlacesLimited
<1>3. Cardinality(running[c]) = 1
  BY <1>2, FS_EmptySet
<1>4. PICK x : running[c] = {x}
  BY <1>2, <1>3, FS_Singleton
<1> QED
  BY <1>4

(* It lets out a job only while it has none running and none failed.       *)
LEMMA LetsOutAlone ==
    ASSUME IInv, NEW c \in Sequential, Room(c) # 0
    PROVE  running[c] = {} /\ failed[c] = {}
<1>1. c \in Channels /\ Capacity[c] = 1
  BY ChannelAssumption
<1>2. ~Blocked(c) /\ Slots(c) # 0
  BY DEF Room, Least
<1>3. IsFiniteSet(running[c]) /\ Cardinality(running[c]) = 0
  BY <1>1, <1>2, MemoryFinite DEF Slots, IInv
<1> QED
  BY <1>2, <1>3, FS_EmptySet DEF Blocked

(* A notification marks a job that has failed, and takes the marks of no   *)
(* other.                                                                  *)
LEMMA NotifyMarks ==
    ASSUME IInv, FailedIsMarked, NEW j \in Jobs, Notify(j)
    PROVE  FailedIsMarked' /\ \A c \in Channels : running'[c] \subseteq running[c]
<1>1. job' = job /\ \A i \in Jobs : ChannelOf[i] \in Channels
  BY ChannelAssumption DEF Notify
<1>2. CASE UNCHANGED <<queue, running, failed>> /\ job[j].state # "failed"
  BY <1>1, <1>2 DEF FailedIsMarked
<1>3. CASE Active(job[j].state)
  <2>1. SetRunning(j)
    BY <1>3 DEF Notify, Active
  <2>2. \A c \in Path[ChannelOf[j]] : j \in running[c] /\ c \in Path[c]
    BY <1>3, ChannelAssumption DEF IInv, ActiveHasPlaces, Active
  <2>3. UNCHANGED <<queue, running, failed>>
    BY <2>1, <2>2 DEF SetRunning, IInv, TypeOK
  <2> QED
    BY <1>2, <1>3, <2>3 DEF Active
<1>4. CASE job[j].state = "failed"
  <2>1. SetFailed(j)
    BY <1>4 DEF Notify
  <2>2. CASE j \in failed[ChannelOf[j]]
    BY <1>1, <2>1, <2>2 DEF SetFailed, FailedIsMarked
  <2>3. CASE j \notin failed[ChannelOf[j]]
    <3>1. running' = Without(running, j) /\ failed' = With(Without(failed, j), j)
      BY <2>1, <2>3 DEF SetFailed
    <3>2. Without(failed, j) \in [Channels -> SUBSET Jobs]
      BY DEF Without, IInv, TypeOK
    <3>3. j \in failed'[ChannelOf[j]]
      BY <1>1, <3>1, <3>2 DEF With
    <3>4. \A c \in Channels : Without(failed, j)[c] \subseteq failed'[c]
      BY <3>1, <3>2 DEF With
    <3>5. \A c \in Channels : /\ running'[c] \subseteq running[c]
                              /\ \A i \in Jobs \ {j} : /\ i \in running[c] => i \in running'[c]
                                                       /\ i \in failed[c] => i \in failed'[c]
      BY <3>1, <3>4 DEF Without
    <3> QED
      BY <1>1, <3>3, <3>5 DEF FailedIsMarked
  <2> QED
    BY <2>2, <2>3
<1>5. CASE /\ running' = Without(running, j) /\ failed' = Without(failed, j)
           /\ job[j].state # "failed"
  <2>1. \A c \in Channels : /\ running'[c] \subseteq running[c]
                            /\ \A i \in Jobs \ {j} : /\ i \in running[c] => i \in running'[c]
                                                     /\ i \in failed[c] => i \in failed'[c]
    BY <1>5 DEF Without
  <2> QED
    BY <1>1, <1>5, <2>1 DEF FailedIsMarked
<1> QED
  BY <1>2, <1>3, <1>4, <1>5 DEF Notify, Active, Drop, SetPending, SetWaiting

(* After a restart the runner reads which jobs have failed.                *)
LEMMA RestartMarks ==
    ASSUME IInv, Restart
    PROVE  FailedIsMarked' /\ \A c \in Channels : running'[c] \subseteq running[c]
<1>1. FailedIsMarked'
  BY ChannelAssumption DEF Restart, FailedIsMarked, Direct, In
<1>2. \A c \in Channels : running'[c] \subseteq running[c]
  BY DEF Restart, IInv, ActiveHasPlaces, Through, ActiveJobs, In
<1> QED
  BY <1>1, <1>2

(* No step takes the mark of a failed job, or leads past it.               *)
LEMMA SequenceStep ==
    ASSUME IInv, SequenceInv, Next, ~Manager, GoesOn
    PROVE  SequenceInv'
<1>1. NoneCancelled'
  BY DEF SequenceInv, NoneCancelled, GoesOn
<1>2. \A j \in Jobs : ChannelOf[j] \in Channels /\ ChannelOf[j] \in Path[ChannelOf[j]]
  BY ChannelAssumption
<1>3. ASSUME job' = job, FailedIsMarked', \A c \in Channels : running'[c] \subseteq running[c]
      PROVE  SequenceInv'
  BY <1>1, <1>2, <1>3 DEF SequenceInv, FailedAlone
<1>4. CASE RunJobs
  <2>1. PICK out \in [Channels -> SUBSET Jobs] :
          /\ \A c \in Channels : /\ IsFiniteSet(out[c])
                                /\ Cardinality(out[c]) \in Nat
                                /\ Cardinality(out[c]) <= Room(c)
          /\ running' = [c \in Channels |-> running[c] \cup out[c]]
          /\ job' = [j \in Jobs |-> IF j \in out[Root] THEN [job[j] EXCEPT !.state = "enqueued"]
                                    ELSE job[j]]
    BY <1>4, RunJobsChooses DEF IInv
  <2>2. \A j \in Jobs : job'[j].state = "failed" => job[j].state = "failed"
    BY <2>1, RunJobsWrites DEF IInv
  <2>3. FailedIsMarked'
    BY <1>2, <1>4, <2>1, <2>2 DEF SequenceInv, FailedIsMarked, RunJobs
  <2>4. FailedAlone'
    <3> SUFFICES ASSUME NEW j \in Jobs, ChannelOf[j] \in Sequential, job[j].state = "failed"
                 PROVE  out[ChannelOf[j]] = {}
      BY <1>2, <2>1, <2>2 DEF SequenceInv, FailedAlone
    <3>1. Room(ChannelOf[j]) = 0
      BY LetsOutAlone DEF SequenceInv, FailedIsMarked
    <3> QED
      BY <1>2, <2>1, <3>1, FS_EmptySet
  <2> QED
    BY <1>1, <2>3, <2>4 DEF SequenceInv
<1>5. CASE UNCHANGED memory
  <2>1. ASSUME NEW j \in Jobs, job'[j].state = "failed", job[j].state # "failed"
        PROVE  j \in running[ChannelOf[j]]
    BY <1>2, <2>1 DEF GoesOn, IInv, ActiveHasPlaces, Active
  <2>2. FailedIsMarked'
    BY <1>5, <2>1 DEF SequenceInv, FailedIsMarked, memory
  <2>3. FailedAlone'
    BY <1>5, <2>1, OnePlace DEF SequenceInv, FailedAlone, memory
  <2> QED
    BY <1>1, <2>2, <2>3 DEF SequenceInv
<1>6. CASE Restart
  BY <1>3, <1>6, RestartMarks DEF Restart
<1>7. ASSUME NEW j \in Jobs, Notify(j)
      PROVE  SequenceInv'
  BY <1>3, <1>7, NotifyMarks DEF Notify, SequenceInv
<1>8. ASSUME NEW c \in Channels, Unpause(c)
      PROVE  SequenceInv'
  BY <1>1, <1>3, <1>8 DEF Unpause, SequenceInv, FailedIsMarked
<1>9. ASSUME \/ \E j \in Jobs : RequeueDead(j) \/ EtaComes(j) \/ RequestWasted(j)
             \/ \E w \in Workers : Worker(w)
      PROVE  UNCHANGED memory
  BY <1>9 DEF RequeueDead, EtaComes, RequestWasted, Worker, Performing, Start, LockRow,
              LockFails, LockGranted, Perform, PerformRefused, PerformRetries, PerformFails,
              Postpone, EnqueueWaiting, Die
<1> QED
  BY <1>4, <1>5, <1>6, <1>7, <1>8, <1>9 DEF Next, Runner

(* What the order in a sequential channel rests on.                        *)
THEOREM SequenceHolds == Spec => [](Undisturbed => SequenceInv)
<1>1. Init => SequenceInv
  <2> SUFFICES ASSUME Init, NEW j \in Jobs PROVE job[j].state \in {"pending", "wait_dependencies"}
    BY DEF SequenceInv, NoneCancelled, FailedIsMarked, FailedAlone
  <2> QED
    BY DEF Init
<1>2. /\ IInv /\ (Undisturbed => ExecutionInv) /\ (Undisturbed => SequenceInv) /\ [Next]_vars
      => (Undisturbed => SequenceInv)'
  <2> SUFFICES ASSUME IInv, Undisturbed => ExecutionInv, Undisturbed => SequenceInv, [Next]_vars, Undisturbed'
               PROVE  SequenceInv'
    OBVIOUS
  <2>1. CASE UNCHANGED vars
    BY <2>1 DEF vars, memory, Undisturbed, SequenceInv, NoneCancelled, FailedIsMarked, FailedAlone
  <2>2. CASE Next
    BY <2>2, NotDisturbing, ExecutionStep, SequenceStep
  <2> QED
    BY <2>1, <2>2
<1> QED
  BY <1>1, <1>2, PlacesHold, ExecutionHolds, PTL DEF Spec

(* A job is let out of its sequential channel alone.                       *)
LEMMA EnqueuedAlone ==
    ASSUME IInv, SequenceInv, RunJobs,
           NEW i \in Jobs, NEW j \in Jobs, i # j,
           ChannelOf[i] = ChannelOf[j], ChannelOf[j] \in Sequential,
           job[j].state # "enqueued", job'[j].state = "enqueued"
    PROVE  job[i].state \in {"wait_dependencies", "pending", "done"}
<1> DEFINE c == ChannelOf[j]
<1>1. c \in Channels /\ c \in Path[c] /\ Root \in Path[c]
  BY ChannelAssumption
<1>2. SUFFICES ASSUME i \in running[c] \/ job[i].state = "failed" PROVE FALSE
  <2>1. job[i].state \in States
    BY DEF IInv, TypeOK, JobRecord
  <2>2. Active(job[i].state) => i \in running[c]
    BY <1>1 DEF IInv, ActiveHasPlaces, Active
  <2> QED
    BY <1>2, <2>1, <2>2 DEF SequenceInv, NoneCancelled, Active, States
<1>3. PICK out \in [Channels -> SUBSET Jobs] :
        /\ \A d \in Channels : /\ out[d] \subseteq Inflow(out, d)
                              /\ Cardinality(out[d]) <= Room(d)
                              /\ IsFiniteSet(out[d])
                              /\ Cardinality(out[d]) \in Nat
        /\ job' = [k \in Jobs |-> IF k \in out[Root] THEN [job[k] EXCEPT !.state = "enqueued"]
                                  ELSE job[k]]
  BY RunJobsChooses DEF IInv
<1>4. j \in out[Root]
  BY <1>3, RunJobsWrites DEF IInv
<1>5. PICK s \in Channels : /\ j \in queue[s] /\ Root \in Path[s]
                            /\ \A e \in Path[s] : Root \in Path[e] => j \in out[e]
  BY <1>3, <1>4, LetOutAlongTheWay, ChannelAssumption DEF IInv
<1>6. CASE c \in Path[s]
  <2>1. j \in out[c]
    BY <1>1, <1>5, <1>6
  <2>2. Room(c) # 0
    BY <1>1, <1>3, <2>1, FS_EmptySet
  <2>3. running[c] = {} /\ failed[c] = {}
    BY <2>2, LetsOutAlone
  <2> QED
    BY <1>2, <2>3 DEF SequenceInv, FailedIsMarked
<1>7. CASE c \notin Path[s]
  <2>1. j \in running[c]
    BY <1>1, <1>5, <1>7 DEF IInv, QueuedOnTheWay
  <2>2. i \notin running[c]
    BY <2>1, OnePlace
  <2> QED
    BY <1>2, <2>1, <2>2 DEF SequenceInv, FailedAlone
<1> QED
  BY <1>6, <1>7

(* A sequential channel does not go past a failed job, nor past one that   *)
(* has still to end (channels.py:335-349, 519-526).                        *)
THEOREM SequenceIsKept == Spec => SequenceKept
<1>1. IInv /\ (Undisturbed => ExecutionInv) /\ (Undisturbed => SequenceInv) /\ [Next]_vars =>
        [\A i, j \in Jobs :
           /\ i < j /\ ChannelOf[i] = ChannelOf[j] /\ ChannelOf[j] \in Sequential
           /\ mishaps \cap {"press", "late"} = {}
           /\ job[j].state # "enqueued" /\ job'[j].state = "enqueued"
           => job[i].state \in {"wait_dependencies", "pending", "done"}]_vars
  <2> SUFFICES ASSUME IInv, Undisturbed, ExecutionInv, SequenceInv, Next, NEW i \in Jobs, NEW j \in Jobs, i < j,
                      ChannelOf[i] = ChannelOf[j], ChannelOf[j] \in Sequential,
                      job[j].state # "enqueued", job'[j].state = "enqueued"
               PROVE  job[i].state \in {"wait_dependencies", "pending", "done"}
    BY DEF Undisturbed
  <2>1. i # j
    BY JobAssumption
  <2>2. CASE RunJobs
    BY <2>1, <2>2, EnqueuedAlone
  <2>3. CASE ~RunJobs
    <3>1. ASSUME NEW k \in Jobs, Requeue(k) \/ SetDone(k) \/ Cancel(k)
          PROVE  FALSE
      BY <3>1, RowState DEF Requeue, SetDone, Cancel, StoreWithDependents, PendingState, IInv, TypeOK, JobRecord
    <3>2. ASSUME NEW k \in Jobs, RequeueDead(k)
          PROVE  FALSE
      BY <3>2, DeadWrites DEF Becomes, IInv
    <3>3. ASSUME NEW w \in Workers, Worker(w)
          PROVE  FALSE
      BY <2>3, <3>3, WorkerExecution DEF GoesOn
    <3>4. ASSUME \/ Restart
                 \/ \E k \in Jobs : Notify(k) \/ EtaComes(k) \/ RequestWasted(k)
                 \/ \E c \in Channels : Unpause(c)
          PROVE  FALSE
      BY <3>4 DEF Restart, Notify, EtaComes, RequestWasted, Unpause, IInv, TypeOK, JobRecord
    <3> QED
      BY <2>3, <3>1, <3>2, <3>3, <3>4 DEF Next, Manager, Runner
  <2> QED
    BY <2>2, <2>3
<1> QED
  BY <1>1, PlacesHold, ExecutionHolds, SequenceHolds, PTL DEF Spec, SequenceKept
=============================================================================
