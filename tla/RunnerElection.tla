--------------------------- MODULE RunnerElection ---------------------------
(***************************************************************************)
(* The job runners of several Odoo servers on the same databases: each     *)
(* tries to take the advisory lock of every database, in the order of      *)
(* their names, and the one that has them all listens, remembers the jobs  *)
(* and asks for them.  A lock belongs to a session, and a session may be   *)
(* cut without either of its ends knowing.  PostgreSQL is external.        *)
(*                                                                         *)
(* One job per database stands for all of them.                            *)
(***************************************************************************)
EXTENDS Naturals, FiniteSets

CONSTANTS
    Servers,      \* Odoo servers with a runner
    Databases,    \* numbers: databases with queue_job, in the order of their names
    MaxTroubles   \* bound: cuts, kills and stops in one behaviour

Nobody == "nobody"

ASSUME ElectionAssumption ==
    Databases \subseteq Nat /\ MaxTroubles \in Nat /\ Nobody \notin Servers

VARIABLES
    phase,     \* of each runner: "off", "starting", "loading", "looping", "sleeping"
    session,   \* of each runner with each database: "none", "open" or "cut"
    master,    \* whose session holds the lock of each database
    inbox,     \* <<runner, database>> that has a notification to read
    known,     \* what a runner remembers of the job of a database
    record,    \* the state of that job
    requests,  \* <<runner, database>>: requests for it on their way to a worker
    troubles   \* how many more may come

electionVars == <<phase, session, master, inbox, known, record, requests, troubles>>

ElectionTypeOK ==
    /\ phase \in [Servers -> {"off", "starting", "loading", "looping", "sleeping"}]
    /\ session \in [Servers -> [Databases -> {"none", "open", "cut"}]]
    /\ master \in [Databases -> Servers \cup {Nobody}]
    /\ inbox \subseteq Servers \X Databases
    /\ known \in [Servers -> [Databases -> {"nothing", "pending", "running"}]]
    /\ record \in [Databases -> {"pending", "enqueued", "done"}]
    /\ requests \subseteq Servers \X Databases
    /\ troubles \in 0 .. MaxTroubles

ElectionInit ==
    /\ phase = [r \in Servers |-> "off"]
    /\ session = [r \in Servers |-> [d \in Databases |-> "none"]]
    /\ master = [d \in Databases |-> Nobody]
    /\ inbox = {}
    /\ known = [r \in Servers |-> [d \in Databases |-> "nothing"]]
    /\ record = [d \in Databases |-> "pending"]
    /\ requests = {}
    /\ troubles = MaxTroubles

Troubled == troubles > 0 /\ troubles' = troubles - 1

-----------------------------------------------------------------------------
(* The rows                                                                *)

(* The trigger notifies the sessions that listen.                          *)
Store(d, state) ==
    /\ record' = [record EXCEPT ![d] = state]
    /\ inbox' = inbox \cup {<<r, d>> : r \in {s \in Servers : session[s][d] = "open"}}

NewJob(d) ==
    /\ record[d] = "done"
    /\ Store(d, "pending")
    /\ UNCHANGED <<phase, session, master, known, requests, troubles>>

(* A worker executes the job, if it is still to be executed.               *)
Serve(r, d) ==
    /\ <<r, d>> \in requests
    /\ requests' = requests \ {<<r, d>>}
    /\ IF record[d] = "enqueued" THEN Store(d, "done") ELSE UNCHANGED <<record, inbox>>
    /\ UNCHANGED <<phase, session, master, known, troubles>>

-----------------------------------------------------------------------------
(* A runner                                                                *)

StartServer(r) ==
    /\ phase[r] = "off"
    /\ phase' = [phase EXCEPT ![r] = "starting"]
    /\ UNCHANGED <<session, master, inbox, known, record, requests, troubles>>

Unconnected(r) == {d \in Databases : session[r][d] = "none"}

(* Faulty: the databases are taken in any order.                           *)
AnyOf(S) == S

(* sorted(): those of S that come first.                                   *)
Sorted(S) == {d \in S : \A e \in S : d <= e}

(* Faulty: the jobs of the databases are kept.                             *)
NothingForgotten(r) == known

(* remove_db.                                                              *)
Forgotten(r) == [known EXCEPT ![r] = [d \in Databases |-> "nothing"]]

(* Every session is closed and what it told is forgotten; the lock of one  *)
(* that has been cut is not free before PostgreSQL has noticed.            *)
CloseDatabases(r) ==
    /\ session' = [session EXCEPT ![r] = [d \in Databases |-> "none"]]
    /\ master' = [d \in Databases |-> IF session[r][d] = "open" THEN Nobody ELSE master[d]]
    /\ inbox' = {m \in inbox : m[1] # r}
    /\ known' = Forgotten(r)

(* Database(): the lock is taken and LISTEN sent.                          *)
Connect(r) ==
    \E d \in Sorted(Unconnected(r)) :
        /\ phase[r] = "starting" /\ master[d] = Nobody
        /\ master' = [master EXCEPT ![d] = r]
        /\ session' = [session EXCEPT ![r][d] = "open"]
        /\ phase' = [phase EXCEPT ![r] = "loading"]
        /\ UNCHANGED <<inbox, known, record, requests, troubles>>

(* MasterElectionLost.                                                     *)
ElectionLost(r) ==
    /\ phase[r] = "starting"
    /\ \E d \in Sorted(Unconnected(r)) : master[d] # Nobody
    /\ CloseDatabases(r)
    /\ phase' = [phase EXCEPT ![r] = "sleeping"]
    /\ UNCHANGED <<record, requests, troubles>>

Memory(state) ==
    CASE state = "pending" -> "pending" [] state = "enqueued" -> "running" [] state = "done" -> "nothing"

(* The database whose session is the youngest.                             *)
Loading(r) ==
    LET connected == Databases \ Unconnected(r)
    IN CHOOSE d \in connected : \A e \in connected : e <= d

(* The rows that are not done are read once the session listens.           *)
LoadJobs(r) ==
    /\ phase[r] = "loading"
    /\ session[r][Loading(r)] = "open"
    /\ known' = IF record[Loading(r)] = "done" THEN known
                ELSE [known EXCEPT ![r][Loading(r)] = Memory(record[Loading(r)])]
    /\ phase' = [phase EXCEPT ![r] = IF Unconnected(r) = {} THEN "looping" ELSE "starting"]
    /\ UNCHANGED <<session, master, inbox, record, requests, troubles>>

ReadNotification(r, d) ==
    /\ phase[r] = "looping" /\ session[r][d] = "open"
    /\ <<r, d>> \in inbox
    /\ inbox' = inbox \ {<<r, d>>}
    /\ known' = [known EXCEPT ![r][d] = Memory(record[d])]
    /\ UNCHANGED <<phase, session, master, record, requests, troubles>>

(* Faulty: the request goes out before the row is written.                 *)
AskedFirst(r, d) == TRUE

(* set_job_enqueued comes before the request, and needs the session.       *)
WritesRow(r, d) == session[r][d] = "open"

AskFor(r, d) ==
    /\ phase[r] = "looping"
    /\ known[r][d] = "pending"
    /\ WritesRow(r, d)
    /\ Store(d, "enqueued")
    /\ known' = [known EXCEPT ![r][d] = "running"]
    /\ requests' = requests \cup {<<r, d>>}
    /\ UNCHANGED <<phase, session, master, troubles>>

(* Nobody executes the job it has asked for: it is dead.                   *)
RequeueLost(r, d) ==
    /\ phase[r] = "looping" /\ session[r][d] = "open"
    /\ record[d] = "enqueued" /\ \A s \in Servers : <<s, d>> \notin requests
    /\ Store(d, "pending")
    /\ UNCHANGED <<phase, session, master, known, requests, troubles>>

(* The next query on a session that has been cut raises.                   *)
QueryFails(r) ==
    /\ \/ phase[r] = "looping" /\ \E d \in Databases : session[r][d] = "cut"
       \/ phase[r] = "loading" /\ session[r][Loading(r)] = "cut"
    /\ CloseDatabases(r)
    /\ phase' = [phase EXCEPT ![r] = "sleeping"]
    /\ UNCHANGED <<record, requests, troubles>>

WakeUp(r) ==
    /\ phase[r] = "sleeping"
    /\ phase' = [phase EXCEPT ![r] = "starting"]
    /\ UNCHANGED <<session, master, inbox, known, record, requests, troubles>>

(* The server is stopped or killed: its sessions end with it.              *)
StopServer(r) ==
    /\ phase[r] # "off"
    /\ Troubled
    /\ CloseDatabases(r)
    /\ phase' = [phase EXCEPT ![r] = "off"]
    /\ UNCHANGED <<record, requests>>

-----------------------------------------------------------------------------
(* PostgreSQL and the network                                              *)

CutSession(r, d) ==
    /\ session[r][d] = "open"
    /\ Troubled
    /\ session' = [session EXCEPT ![r][d] = "cut"]
    /\ UNCHANGED <<phase, master, inbox, known, record, requests>>

SessionExpires(d) ==
    /\ master[d] # Nobody /\ session[master[d]][d] # "open"
    /\ master' = [master EXCEPT ![d] = Nobody]
    /\ UNCHANGED <<phase, session, inbox, known, record, requests, troubles>>

RequestLost(r, d) ==
    /\ <<r, d>> \in requests
    /\ Troubled
    /\ requests' = requests \ {<<r, d>>}
    /\ UNCHANGED <<phase, session, master, inbox, known, record>>

-----------------------------------------------------------------------------
RunnerTurns(r) ==
    \/ StartServer(r) \/ Connect(r) \/ ElectionLost(r) \/ LoadJobs(r) \/ QueryFails(r) \/ WakeUp(r)

ElectionNext ==
    \/ \E d \in Databases : NewJob(d) \/ SessionExpires(d)
    \/ \E r \in Servers : RunnerTurns(r) \/ StopServer(r)
    \/ \E r \in Servers, d \in Databases :
         \/ Serve(r, d) \/ ReadNotification(r, d) \/ AskFor(r, d) \/ RequeueLost(r, d)
         \/ CutSession(r, d) \/ RequestLost(r, d)

(* Runners go on, stopped servers come back, and PostgreSQL notices in the *)
(* end that a session has been cut.                                        *)
ElectionFairness ==
    /\ \A r \in Servers : WF_electionVars(RunnerTurns(r))
    /\ \A d \in Databases : WF_electionVars(SessionExpires(d))

ElectionSpec == ElectionInit /\ [][ElectionNext]_electionVars
ElectionFairSpec == ElectionSpec /\ ElectionFairness

-----------------------------------------------------------------------------
(* A job is asked for by the runner that holds the lock of its database,   *)
(* whatever sessions have been cut unnoticed: the other's count of running *)
(* jobs would not include it (runner.py:256-262, 526-541).                 *)
AskedByMaster ==
    [][\A q \in requests' \ requests : master[q[2]] = q[1]]_electionVars

(* A runner in its loop remembers of every job what its row says, unless a *)
(* notification waits or the session has been cut: nothing that happened   *)
(* while it was not listening is missing, and nothing it knew of a former  *)
(* term is left (runner.py:293-295, 498-519, 543-561).                     *)
MemoryIsCurrent ==
    \A r \in Servers, d \in Databases :
        phase[r] = "looping" /\ session[r][d] = "open" /\ <<r, d>> \notin inbox
            => known[r][d] = Memory(record[d])

(* In the end one runner is the master of all databases, and stays it:     *)
(* those that give way do not do so to each other for ever                 *)
(* (runner.py:508-511, 606-642).                                           *)
MasterEmerges ==
    <>[](\E r \in Servers : phase[r] = "looping" /\ \A d \in Databases : master[d] = r)
=============================================================================
