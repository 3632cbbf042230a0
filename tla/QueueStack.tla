----------------------------- MODULE QueueStack -----------------------------
(***************************************************************************)
(* queue_job as a whole: the graphs of jobs that programs describe, the    *)
(* channels that are configured, the runners that compete for the          *)
(* databases, and the one that has won with its workers.                   *)
(*                                                                         *)
(* Each hands a finished result to the next: JobGraph the Parents of       *)
(* QueueJob, ChannelTree its Path and ChannelOf, RunnerElection the one    *)
(* runner.  They change no state together, so that it is enough that a     *)
(* behaviour exercises one of them; which is chosen at its beginning.      *)
(***************************************************************************)
EXTENDS QueueJob, JobGraph, ChannelTree, RunnerElection

CONSTANT QueueParts  \* bound: the parts a run considers

ASSUME PartsAssumption == QueueParts \subseteq {"rows", "graph", "channels", "election"}

VARIABLE part

StackInit ==
    /\ part \in QueueParts
    /\ Init /\ GraphInit /\ TreeInit /\ ElectionInit

StackNext ==
    /\ \/ /\ part = "rows" /\ Next
          /\ UNCHANGED <<jobGraphVars, treeVars, electionVars>>
       \/ /\ part = "graph" /\ GraphNext
          /\ UNCHANGED <<vars, treeVars, electionVars>>
       \/ /\ part = "channels" /\ TreeNext
          /\ UNCHANGED <<vars, jobGraphVars, electionVars>>
       \/ /\ part = "election" /\ ElectionNext
          /\ UNCHANGED <<vars, jobGraphVars, treeVars>>
    /\ UNCHANGED part

stackVars == <<vars, jobGraphVars, treeVars, electionVars, part>>

StackSpec == StackInit /\ [][StackNext]_stackVars

(* The fairness of QueueJob and of RunnerElection, of the part at work.    *)
Of(p, A) == part = p /\ A

StackFairness ==
    /\ WF_vars(Of("rows", RunJobs))
    /\ \A j \in Jobs : /\ WF_vars(Of("rows", Notify(j))) /\ WF_vars(Of("rows", EtaComes(j)))
                       /\ WF_vars(Of("rows", RequeueDead(j) /\ UNCHANGED left))
                       /\ WF_vars(Of("rows", \E w \in Workers : Start(w, j)))
    /\ \A c \in Channels : WF_vars(Of("rows", Unpause(c)))
    /\ \A w \in Workers : /\ WF_vars(Of("rows", LockRow(w) \/ LockFails(w)))
                          /\ WF_vars(Of("rows", LockGranted(w)))
                          /\ WF_vars(Of("rows", Performing(w)))
                          /\ WF_vars(Of("rows", EnqueueWaiting(w)))
    /\ \A r \in Servers : WF_electionVars(Of("election", RunnerTurns(r)))
    /\ \A d \in Databases : WF_electionVars(Of("election", SessionExpires(d)))

StackFairSpec == StackSpec /\ StackFairness

(* A pending job gets its turn (PendingServed), and one runner becomes the *)
(* master of all databases (MasterEmerges): see there.                     *)
PendingIsServed == part = "rows" => PendingServed
OneMasterEmerges == part = "election" => MasterEmerges

(* The state of each part: the jobs and channels, the graphs and what is   *)
(* configured, the runners.                                                *)
StackTypeOK == TypeOK /\ GraphTypeOK /\ TreeTypeOK /\ ElectionTypeOK
=============================================================================
