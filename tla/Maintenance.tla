------------------------------ MODULE Maintenance ------------------------------
(***************************************************************************)
(* Contracts for periodic maintenance (sa_maintenance) and the visits they *)
(* bring about: the daily job asks for a visit to every property of the    *)
(* contracts that are due, and a button does so at any time.               *)
(*                                                                         *)
(* The job is one transaction over all contracts.  It works on a snapshot; *)
(* when a contract it writes has been written since, all it did is undone, *)
(* and the next day's run starts again.  What becomes of a visit (approval,*)
(* scheduling, work orders) follows no order and is left out.              *)
(***************************************************************************)
EXTENDS Naturals, Sequences

CONSTANTS
    Contracts,  \* sa.maintenance.contract rows
    Sites,      \* how many properties a contract covers; the job takes them in order
    Period,     \* days from one service to the next
    Until,      \* end_date of each contract
    Horizon,    \* bound: days that pass
    MaxVisits   \* bound: visits asked for by the button

ASSUME MaintenanceAssumption ==
    /\ Sites \in Nat \ {0} /\ Period \in Nat \ {0}
    /\ Horizon \in Nat /\ MaxVisits \in Nat
    /\ Until \in [Contracts -> Nat]

VARIABLES
    upkeep,    \* the contracts: state and last_service_date (at first the start_date)
    visits,    \* the visits asked for, per contract and property, in order
    round,     \* the contracts the job under way has found due
    ran,       \* the job has been started today
    broken,    \* contracts a round has stopped half-way through
    day        \* the day

maintenanceVars == <<upkeep, visits, round, ran, broken, day>>

Upkeep == [state : {"draft", "active", "suspended", "expired"}, last : Nat]
Visit  == [day : Nat, by : {"job", "button"}]

MaintenanceTypeOK ==
    /\ upkeep \in [Contracts -> Upkeep]
    /\ visits \in [Contracts -> [1 .. Sites -> Seq(Visit)]]
    /\ round \subseteq Contracts
    /\ ran \in BOOLEAN
    /\ broken \subseteq Contracts
    /\ day \in 0 .. Horizon

InitMaintenance ==
    /\ upkeep = [c \in Contracts |-> [state |-> "draft", last |-> 0]]
    /\ visits = [c \in Contracts |-> [s \in 1 .. Sites |-> <<>>]]
    /\ round = {}
    /\ ran = FALSE
    /\ broken = {}
    /\ day = 0

-----------------------------------------------------------------------------
(* Writing contract c undoes the job when it is about to write it, too.    *)
\* Faulty variant: the job is not undone.
DisturbsNothing(c) == round' = round
Disturbs(c) == round' = IF c \in round THEN {} ELSE round

UpkeepBecomes(c, state) ==
    /\ upkeep' = [upkeep EXCEPT ![c].state = state]
    /\ Disturbs(c)
    /\ UNCHANGED <<visits, ran, broken, day>>

ActivateUpkeep(c) == UpkeepBecomes(c, "active")
SuspendUpkeep(c)  == UpkeepBecomes(c, "suspended")
ExpireUpkeep(c)   == UpkeepBecomes(c, "expired")

(* _generate_request, as far as property n: last_service_date is written   *)
(* when all have got their visit.                                          *)
Visited(c, n, by) ==
    [s \in 1 .. Sites |-> IF s <= n THEN Append(visits[c][s], [day |-> day, by |-> by]) ELSE visits[c][s]]

Served(c, n) == IF n = Sites THEN [upkeep[c] EXCEPT !.last = day] ELSE upkeep[c]

(* action_generate_request_now: all or nothing.                            *)
GenerateRequestNow(c) ==
    /\ upkeep[c].state = "active"
    /\ Len(SelectSeq(visits[c][1], LAMBDA v : v.by = "button")) < MaxVisits
    /\ visits' = [visits EXCEPT ![c] = Visited(c, Sites, "button")]
    /\ upkeep' = [upkeep EXCEPT ![c] = Served(c, Sites)]
    /\ Disturbs(c)
    /\ UNCHANGED <<ran, broken, day>>

(* cron_generate_due_services looks for the contracts that are due ...     *)
DueForService(c) ==
    upkeep[c].state = "active" /\ upkeep[c].last + Period <= day /\ day <= Until[c]

RoundReads ==
    /\ ~ran
    /\ ran' = TRUE
    /\ round' = {c \in Contracts : DueForService(c)}
    /\ UNCHANGED <<upkeep, visits, broken, day>>

(* ... and goes through them; an exception ends one contract's turn, keeps *)
(* what has been created and is swallowed.                                 *)
RoundCommits ==
    /\ round # {}
    /\ \E n \in [round -> 0 .. Sites] :
         /\ visits' = [c \in Contracts |-> IF c \in round THEN Visited(c, n[c], "job") ELSE visits[c]]
         /\ upkeep' = [c \in Contracts |-> IF c \in round THEN Served(c, n[c]) ELSE upkeep[c]]
         /\ broken' = broken \cup {c \in round : n[c] \notin {0, Sites}}
    /\ round' = {}
    /\ UNCHANGED <<ran, day>>

(* A simplification: the job ends on the day it began.                     *)
NextDay ==
    /\ day < Horizon /\ round = {}
    /\ day' = day + 1
    /\ ran' = FALSE
    /\ UNCHANGED <<upkeep, visits, round, broken>>

-----------------------------------------------------------------------------
ContractAction(c) ==
    ActivateUpkeep(c) \/ SuspendUpkeep(c) \/ ExpireUpkeep(c) \/ GenerateRequestNow(c)

NextMaintenance == RoundReads \/ RoundCommits \/ NextDay \/ \E c \in Contracts : ContractAction(c)

MaintenanceSpec == InitMaintenance /\ [][NextMaintenance]_maintenanceVars

-----------------------------------------------------------------------------
(* The job sends nobody to a property that has been visited less than a    *)
(* period ago, whether by the job or by the button a moment ago, unless an *)
(* earlier round has failed between two properties: then the first of them *)
(* is visited again (maintenance_contract.py:127-152, 171-187).            *)
VisitsAPeriodApart ==
    \A c \in Contracts \ broken, s \in 1 .. Sites :
        \A j \in 1 .. Len(visits[c][s]) :
            visits[c][s][j].by = "job" =>
                \A i \in 1 .. j - 1 : visits[c][s][j].day >= visits[c][s][i].day + Period
=============================================================================
