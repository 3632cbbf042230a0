------------------------------- MODULE Tenancies -------------------------------
(***************************************************************************)
(* The tenancies of one property (sa_property_base) and their renewal by a *)
(* wizard or by the daily job (sa_rental_cycle).                           *)
(*                                                                         *)
(* A request is one transaction on a snapshot; when a row it writes has    *)
(* been written since, it is undone.  A renewal reads the tenancy, creates *)
(* the next one and writes the link into the row it has read, in two steps *)
(* here; every other request does all it does to one row at once.  Amounts,*)
(* dates, sa_cycle_state and the deposit, on which no step of these        *)
(* depends, are left out.                                                  *)
(***************************************************************************)
EXTENDS Functions

CONSTANTS
    Tenancies,  \* identities of property.tenancy rows
    NoTenancy,  \* "no tenancy"
    Managers,   \* people at work
    RenewalJob  \* the daily job cron_auto_renew_tenancies

ASSUME TenanciesAssumption ==
    NoTenancy \notin Tenancies /\ RenewalJob \notin Managers

Renewers == Managers \cup {RenewalJob}

VARIABLES
    tenancy,    \* the tenancies
    let,        \* the property's state is 'on_rent', and not 'draft'
    renewal,    \* the tenancy each manager has the renewal wizard open on
    ending,     \* tenancies with auto_renew set and the end renewal_notice_days away
    renewing,   \* the tenancies each renewer has under way
    frozen      \* the city is under a rent freeze; rents are to be raised on renewal

tenancyVars == <<tenancy, let, renewal, ending, renewing, frozen>>

Tenancy == [state : {"absent", "draft", "confirm", "running", "closed", "cancelled"},
            to    : Tenancies \cup {NoTenancy},   \* renewed_to_id
            from  : Tenancies \cup {NoTenancy}]   \* renewed_from_id

TenanciesTypeOK ==
    /\ tenancy \in [Tenancies -> Tenancy]
    /\ let \in BOOLEAN
    /\ renewal \in [Managers -> Tenancies \cup {NoTenancy}]
    /\ ending \subseteq Tenancies
    /\ renewing \in [Renewers -> SUBSET Tenancies]
    /\ frozen \in BOOLEAN
    /\ \A t \in Tenancies : \A s \in {tenancy[t].to, tenancy[t].from} \ {NoTenancy} :
         tenancy[s].state # "absent"  \* the foreign keys

NoneYet == [state |-> "absent", to |-> NoTenancy, from |-> NoTenancy]

InitTenancies ==
    /\ tenancy = [t \in Tenancies |-> NoneYet]
    /\ let = FALSE
    /\ renewal = [m \in Managers |-> NoTenancy]
    /\ ending = {}
    /\ renewing = [w \in Renewers |-> {}]
    /\ frozen = FALSE

-----------------------------------------------------------------------------
Made(t) == tenancy[t].state # "absent"

(* Identities are used again once nothing refers to them.                  *)
Unused(t) == /\ ~Made(t) /\ t \notin ending
             /\ \A m \in Managers : renewal[m] # t
             /\ \A w \in Renewers : t \notin renewing[w]

(* What a step does to the rows ts undoes the renewals under way of them,  *)
(* and what the daily job has done to other rows in the same transaction.  *)
Conflicts(ts) ==
    renewing' = [w \in Renewers |-> IF renewing[w] \cap ts # {} THEN {} ELSE renewing[w]]

-----------------------------------------------------------------------------
(* The life of a tenancy                                                   *)

(* The form, or a lead for which an Ejar contract is drawn up.             *)
Draw(t) ==
    /\ Unused(t)
    /\ tenancy' = [tenancy EXCEPT ![t].state = "draft"]
    /\ UNCHANGED <<let, renewal, ending, renewing, frozen>>

Becomes(t, state) ==
    /\ tenancy' = [tenancy EXCEPT ![t].state = state]
    /\ Conflicts({t})
    /\ UNCHANGED <<renewal, ending, frozen>>

ConfirmTenancy(t) ==
    /\ tenancy[t].state = "draft"
    /\ Becomes(t, "confirm")
    /\ UNCHANGED let

StartTenancy(t) ==
    /\ tenancy[t].state \in {"draft", "confirm"}
    /\ Becomes(t, "running")
    /\ let' = TRUE

(* action_close and action_cancel: the property is free, whichever of its  *)
(* tenancies this is.                                                      *)
EndTenancy(t, state) ==
    /\ Made(t)
    /\ Becomes(t, state)
    /\ let' = FALSE

CloseTenancy(t)  == EndTenancy(t, "closed")   \* and the wizard of sa_rental_cycle
CancelTenancy(t) == EndTenancy(t, "cancelled")

SetToDraft(t) ==
    /\ Made(t)
    /\ Becomes(t, "draft")
    /\ UNCHANGED let

(* Links to a row that is deleted are cleared (ondelete='set null').       *)
\* Faulty variant: they are left as they are.
WithoutClearing(t, link) == link
Without(t, link) == IF link = t THEN NoTenancy ELSE link

Delete(t) ==
    /\ Made(t)
    /\ tenancy' = [s \in Tenancies |->
         IF s = t THEN NoneYet
         ELSE [tenancy[s] EXCEPT !.to = Without(t, @), !.from = Without(t, @)]]
    /\ Conflicts({s \in Tenancies : tenancy'[s] # tenancy[s]})
    /\ ending' = ending \ {t}
    /\ renewal' = [m \in Managers |-> Without(t, renewal[m])]
    /\ UNCHANGED <<let, frozen>>

-----------------------------------------------------------------------------
(* Renewal                                                                 *)

OpenRenewal(m, t) ==
    /\ tenancy[t].to = NoTenancy
    /\ tenancy[t].state \in {"running", "closed"}
    /\ renewal' = [renewal EXCEPT ![m] = t]
    /\ UNCHANGED <<tenancy, let, ending, renewing, frozen>>

Begins(w, ts) ==
    /\ renewing[w] = {}
    /\ renewing' = [renewing EXCEPT ![w] = ts]
    /\ UNCHANGED <<tenancy, let, ending, frozen>>

(* action_renew: whatever has become of the tenancy since the wizard was   *)
(* opened, it must not have been renewed.                                  *)
RenewReads(m) ==
    /\ renewal[m] # NoTenancy
    /\ tenancy[renewal[m]].to = NoTenancy
    /\ Begins(m, {renewal[m]})
    /\ renewal' = [renewal EXCEPT ![m] = NoTenancy]

(* cron_auto_renew_tenancies looks for its candidates.                     *)
Due(t) == /\ t \in ending
          /\ tenancy[t].state = "running"
          /\ tenancy[t].to = NoTenancy

AutoRenewReads ==
    /\ \E t \in Tenancies : Due(t)
    /\ Begins(RenewalJob, {t \in Tenancies : Due(t)})
    /\ UNCHANGED renewal

Renewed(t) == [NoneYet EXCEPT !.state = "draft", !.from = t]

(* The next tenancies are created and the links written.  Under a freeze   *)
(* the constraint on the increase, checked after the insertion, refuses    *)
(* them: a wizard's request is undone, but the job goes on, keeps the new  *)
(* rows and writes no link.  Whatever else may be raised after a creation, *)
(* and is swallowed by the job in the same way, is left out.               *)
Renewals(w, next) ==
    [t \in Tenancies |->
        IF frozen /\ w # RenewalJob THEN tenancy[t]
        ELSE IF t \in DOMAIN next /\ ~frozen THEN [tenancy[t] EXCEPT !.to = next[t]]
        ELSE IF \E s \in DOMAIN next : next[s] = t
               THEN Renewed(CHOOSE s \in DOMAIN next : next[s] = t)
        ELSE tenancy[t]]

\* Faulty variant: the renewals under way of the same rows are not undone.
RenewCommitsAnyhow(w) ==
    /\ renewing[w] # {}
    /\ \E next \in Injection(renewing[w], {n \in Tenancies : Unused(n)}) :
         tenancy' = Renewals(w, next)
    /\ renewing' = [renewing EXCEPT ![w] = {}]
    /\ UNCHANGED <<let, renewal, ending, frozen>>

RenewCommits(w) ==
    /\ renewing[w] # {}
    /\ \E next \in Injection(renewing[w], {n \in Tenancies : Unused(n)}) :
         tenancy' = Renewals(w, next)
    /\ Conflicts(renewing[w])
    /\ UNCHANGED <<let, renewal, ending, frozen>>

-----------------------------------------------------------------------------
(* The calendar and the authorities                                        *)

ComesToEnd(t) ==
    /\ Made(t) /\ t \notin ending
    /\ ending' = ending \cup {t}
    /\ UNCHANGED <<tenancy, let, renewal, renewing, frozen>>

(* A simplification: not while a renewal is under way.                     *)
FreezeRents ==
    /\ ~frozen /\ \A w \in Renewers : renewing[w] = {}
    /\ frozen' = TRUE
    /\ UNCHANGED <<tenancy, let, renewal, ending, renewing>>

-----------------------------------------------------------------------------
TenancyAction(t) ==
    \/ Draw(t) \/ ConfirmTenancy(t) \/ StartTenancy(t) \/ SetToDraft(t)
    \/ CloseTenancy(t) \/ CancelTenancy(t) \/ Delete(t) \/ ComesToEnd(t)

NextTenancies ==
    \/ \E t \in Tenancies : TenancyAction(t)
    \/ \E m \in Managers : RenewReads(m) \/ \E t \in Tenancies : OpenRenewal(m, t)
    \/ \E w \in Renewers : RenewCommits(w)
    \/ AutoRenewReads \/ FreezeRents

TenanciesSpec == InitTenancies /\ [][NextTenancies]_tenancyVars

-----------------------------------------------------------------------------
(* A tenancy is renewed once: two wizards and the daily job that renew it  *)
(* at once make one next tenancy, and the links of the two tenancies agree *)
(* (sa_tenancy_renewal.py:145-160).  It stops holding in a city whose rents*)
(* have been frozen: there the job leaves a draft every day.               *)
RenewedOnce ==
    ~frozen => \A s, t \in Tenancies : tenancy[t].from = s /\ Made(t) <=> tenancy[s].to = t /\ Made(s)
=============================================================================
