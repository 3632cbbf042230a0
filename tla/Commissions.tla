------------------------------ MODULE Commissions ------------------------------
(***************************************************************************)
(* One commission contract with a broker and the lines that pay it         *)
(* (sa_broker_commission).  The state of the contract is derived from its  *)
(* lines, and stored, by whatever changes a line.                          *)
(*                                                                         *)
(* A request is one transaction on a snapshot; when a row it writes has    *)
(* been written since, it is undone.  Requests about different lines meet  *)
(* in the contract's row, or not at all.  A form also lets lines be added, *)
(* removed or rewritten by hand: no method sees that, and it is left out.  *)
(***************************************************************************)
EXTENDS FiniteSets

CONSTANTS
    Lines,        \* identities of sa.broker.commission.line rows
    NoLine,       \* "no line"
    Clerks,       \* people at work
    Instalments   \* the numbers of lines a payment schedule may ask for

ASSUME CommissionsAssumption == NoLine \notin Lines

VARIABLES
    commission,  \* the state of the contract
    line,        \* its lines, with their vendor bills
    request,     \* the request each clerk has under way, with what it has read
    unsettled    \* confirmed over a paid line, and not derived again since

commissionVars == <<commission, line, request, unsettled>>

CommissionStates == {"draft", "confirmed", "partial", "paid", "cancelled"}

(* A bill that has been cancelled counts as none; one that is posted may   *)
(* have been paid, and is not asked unless the line is edited.             *)
Line == [state : {"absent", "pending", "billed", "paid", "cancelled"},
         bill  : {"none", "draft", "posted"}]

Request == [of    : Lines \cup {NoLine},
            to    : {"billed", "paid", "cancelled"},  \* what the line is to become
            paid  : SUBSET Lines,
            state : CommissionStates]

CommissionsTypeOK ==
    /\ commission \in CommissionStates
    /\ line \in [Lines -> Line]
    /\ request \in [Clerks -> Request]
    /\ unsettled \in BOOLEAN

Listed == {l \in Lines : line[l].state # "absent"}
Paid   == {l \in Lines : line[l].state = "paid"}

NoRequest == [of |-> NoLine, to |-> "paid", paid |-> {}, state |-> "draft"]

(* A contract that is copied takes its lines, and their states, along.     *)
Copied == [state : {"absent", "pending", "paid"}, bill : {"none"}]

InitCommissions(lines) ==
    /\ commission = "draft"
    /\ line = lines
    /\ request = [c \in Clerks |-> NoRequest]
    /\ unsettled = FALSE

-----------------------------------------------------------------------------
(* What one request does to the contract's row                             *)

Derived(paid) == IF Listed # {} /\ Listed \subseteq paid THEN "paid"
                 ELSE IF paid # {} THEN "partial" ELSE "confirmed"

PaidAfter(r) == IF r.to = "paid" THEN r.paid \cup {r.of} ELSE r.paid \ {r.of}

(* _refresh_state_from_lines.                                              *)
Refreshed(r) == IF r.state \in {"draft", "cancelled"} THEN r.state ELSE Derived(PaidAfter(r))

(* The row holds the state and paid_amount.                                *)
\* Faulty variant: paid_amount is not stored.
WritesState(r) == r.of # NoLine /\ Refreshed(r) # r.state
WritesContract(r) == r.of # NoLine /\ (Refreshed(r) # r.state \/ PaidAfter(r) # r.paid)

(* The requests about the lines ls are undone, and if the contract has been*)
(* written those that write it, too.                                       *)
Meet(clerks, ls, contract) ==
    request' = [c \in Clerks |->
        IF c \in clerks \/ request[c].of \in ls \/ (contract /\ WritesContract(request[c]))
          THEN NoRequest ELSE request[c]]

-----------------------------------------------------------------------------
(* Requests about a line                                                   *)

Asks(c, l, to) ==
    /\ request[c].of = NoLine
    /\ l \in Listed
    /\ request' = [request EXCEPT ![c] = [of |-> l, to |-> to, paid |-> Paid, state |-> commission]]
    /\ UNCHANGED <<commission, line, unsettled>>

CreateBill(c, l) == line[l].state # "cancelled" /\ line[l].bill = "none" /\ Asks(c, l, "billed")
MarkLinePaid(c, l) == Asks(c, l, "paid")
CancelLine(c, l) == line[l].bill # "posted" /\ Asks(c, l, "cancelled")

(* write(): whatever is changed on a line whose bill has been paid.        *)
EditLine(c, l) == line[l].bill = "posted" /\ line[l].state # "paid" /\ Asks(c, l, "paid")

(* The bill a request creates may fail to be posted.                       *)
RequestCommits(c) ==
    LET r == request[c] IN
    /\ r.of # NoLine
    /\ \E b \in IF r.to = "billed" THEN {"draft", "posted"} ELSE {line[r.of].bill} :
         line' = [line EXCEPT ![r.of] = [state |-> r.to, bill |-> b]]
    /\ commission' = IF Refreshed(r) # r.state THEN Refreshed(r) ELSE commission
    /\ unsettled' = (unsettled /\ r.state \in {"draft", "cancelled"})
    /\ Meet({c}, {r.of}, WritesContract(r))

(* In accounting; the line is not told.                                    *)
BillBecomes(l, bill) ==
    /\ line[l].bill # "none"
    /\ line' = [line EXCEPT ![l].bill = bill]
    /\ UNCHANGED <<commission, request, unsettled>>

PostBill(l)     == BillBecomes(l, "posted")
WithdrawBill(l) == BillBecomes(l, "none")

-----------------------------------------------------------------------------
(* Requests about the contract                                             *)

(* action_confirm: unpaid lines, billed ones included, give way to new     *)
(* ones; lines that are paid stay.                                         *)
ConfirmCommission ==
    /\ commission = "draft"
    /\ \E new \in SUBSET (Lines \ Paid) :
         /\ Cardinality(new) \in Instalments
         /\ line' = [l \in Lines |-> IF l \in Paid THEN line[l]
                                     ELSE IF l \in new THEN [state |-> "pending", bill |-> "none"]
                                     ELSE [state |-> "absent", bill |-> "none"]]
    /\ commission' = "confirmed"
    /\ unsettled' = (Paid # {})
    /\ Meet({}, Lines \ Paid, TRUE)

(* action_cancel and action_set_to_draft.                                  *)
ContractBecomes(state) ==
    /\ Paid = {}
    /\ commission' = state
    /\ Meet({}, {}, TRUE)
    /\ UNCHANGED <<line, unsettled>>

CancelCommission == ContractBecomes("cancelled")
SetCommissionToDraft == ContractBecomes("draft")

-----------------------------------------------------------------------------
LineAction(l) ==
    \/ \E c \in Clerks : CreateBill(c, l) \/ MarkLinePaid(c, l) \/ CancelLine(c, l) \/ EditLine(c, l)
    \/ PostBill(l) \/ WithdrawBill(l)

NextCommissions ==
    \/ \E l \in Lines : LineAction(l)
    \/ \E c \in Clerks : RequestCommits(c)
    \/ ConfirmCommission \/ CancelCommission \/ SetCommissionToDraft

(* A new contract has no lines; one that is a copy has those of the other. *)
CommissionsSpec ==
    (\E lines \in [Lines -> Copied] : InitCommissions(lines)) /\ [][NextCommissions]_commissionVars

-----------------------------------------------------------------------------
(* The contract says what its lines say: requests about its lines, each of *)
(* which derives the state from what it has read, do not leave a contract  *)
(* 'partial' whose last two lines were paid at once, or the reverse        *)
(* (sa_broker_commission.py:229-238, 121-128).                             *)
StateFollowsLines ==
    commission \in {"confirmed", "partial", "paid"} /\ ~unsettled => commission = Derived(Paid)
=============================================================================
