---------------------------- MODULE RentPayments ----------------------------
(***************************************************************************)
(* The payment schedule of one property.tenancy (sa_rental_cycle): its     *)
(* sa.rent.payment rows, the SADAD bills issued for them (sa_sadad) and    *)
(* the invoices and account payments that record them in the books.        *)
(*                                                                         *)
(* A request, a webhook or a scheduled action is one transaction.  Two     *)
(* that write one row do not interleave: the later is refused and run      *)
(* again.  Issuing a bill writes no row another request reads, so what it  *)
(* checked may have changed when it commits.  Pages and wizards may be old *)
(* when they are used: what a button hides, its method often accepts.      *)
(***************************************************************************)
EXTENDS Naturals, Functions

CONSTANTS
    Payments,   \* identities of sa.rent.payment rows
    NoPayment,  \* "no row"
    Users,      \* people at work on the tenancy
    Schedule,   \* the lines of the schedule: records [kind, due]
    Amount,     \* what one line asks for
    MaxPaid,    \* bound: what is recorded as paid on one row
    MaxBills,   \* bound: SADAD bills issued
    Validity,   \* sa_sadad.expiry_days
    LastDay     \* bound: days that pass

ASSUME ScheduleAssumption ==
    /\ NoPayment \notin Payments
    /\ Amount \in Nat \ {0}
    /\ MaxPaid \in Nat /\ Amount <= MaxPaid
    /\ MaxBills \in Nat /\ Validity \in Nat /\ LastDay \in Nat
    /\ Schedule \subseteq [kind : {"rent", "deposit"}, due : Nat]

Bills == 1 .. MaxBills

(* absent: there is no such row, or it has been deleted.                   *)
Open   == {"pending", "overdue", "partial"}
States == {"absent", "paid", "cancelled"} \cup Open

Row == [state  : States,
        kind   : {"rent", "deposit"},
        due    : Nat,
        paid   : Nat,    \* amount_paid
        move   : {"none", "draft", "posted"},  \* the linked invoice
        moves  : Nat,    \* invoices posted for this row, ever
        ledger : Nat]    \* sum of the account payments posted for it

BillStates == {"absent", "pending", "paid", "cancelled", "expired"}

VARIABLES
    row,      \* the rent payments
    bill,     \* the SADAD bills, numbered in the order they are issued
    issued,   \* bills issued so far
    wizard,   \* the row each user has the payment wizard open on
    issuing,  \* the row each user is issuing a bill for
    today     \* the day

vars == <<row, bill, issued, wizard, issuing, today>>

Exists(p) == row[p].state # "absent"

TypeOK ==
    /\ row \in [Payments -> Row]
    /\ bill \in [Bills -> [state : BillStates, of : Payments \cup {NoPayment}, expiry : Nat]]
    /\ issued \in 0 .. MaxBills
    /\ wizard \in [Users -> Payments \cup {NoPayment}]
    /\ issuing \in [Users -> Payments \cup {NoPayment}]
    /\ today \in Nat

Absent == [state |-> "absent", kind |-> "rent", due |-> 0, paid |-> 0,
           move |-> "none", moves |-> 0, ledger |-> 0]

NoBill == [state |-> "absent", of |-> NoPayment, expiry |-> 0]

Init ==
    /\ row = [p \in Payments |-> Absent]
    /\ bill = [b \in Bills |-> NoBill]
    /\ issued = 0
    /\ wizard = [u \in Users |-> NoPayment]
    /\ issuing = [u \in Users |-> NoPayment]
    /\ today = 0

-----------------------------------------------------------------------------
(* The schedule                                                            *)

NewRow(line) == [Absent EXCEPT !.state = "pending", !.kind = line.kind, !.due = line.due]

(* Identities are used again once nothing refers to them.                  *)
Free == {p \in Payments : ~Exists(p) /\ \A u \in Users : wizard[u] # p /\ issuing[u] # p}

(* action_generate_payment_schedule: the unpaid rows are deleted, and their*)
(* bills with them; a row is created for every line of the schedule.       *)
Unpaid(p) == row[p].state \in {"pending", "overdue"}

GenerateSchedule ==
    /\ \E new \in Injection(Schedule, Free) :
         row' = [p \in Payments |->
                   IF \E line \in Schedule : new[line] = p
                     THEN NewRow(CHOOSE line \in Schedule : new[line] = p)
                   ELSE IF Unpaid(p) THEN Absent ELSE row[p]]
    /\ bill' = [b \in Bills |-> IF bill[b].of # NoPayment /\ Unpaid(bill[b].of)
                                THEN NoBill ELSE bill[b]]
    /\ UNCHANGED <<issued, wizard, issuing, today>>

-----------------------------------------------------------------------------
(* Books                                                                   *)

(* action_create_invoice, run inside a caller that catches its exception:  *)
(* the linked invoice stays a draft when it cannot be posted; when there   *)
(* is one already, or none can be prepared, nothing happens.               *)
Invoiced(r) ==
    IF r.move # "none" THEN {r}
    ELSE {r, [r EXCEPT !.move = "draft"], [r EXCEPT !.move = "posted", !.moves = @ + 1]}

(* _create_account_payment_and_reconcile: an account payment for the whole *)
(* of amount_paid, unless the invoice is cleared.  Posting it may fail; so *)
(* may reconciling it, which leaves it posted and the invoice open: an     *)
(* invoice may be open however much has been posted for it.                *)
Reconciled(r) ==
    IF r.move = "posted" /\ r.paid > 0
      THEN {r, [r EXCEPT !.ledger = @ + r.paid]}
      ELSE {r}

-----------------------------------------------------------------------------
(* What users do with a row                                                *)

OpenWizard(u, p) ==
    /\ row[p].state \in Open
    /\ wizard' = [wizard EXCEPT ![u] = p]
    /\ UNCHANGED <<row, bill, issued, issuing, today>>

\* Faulty variant: this payment alone decides the state.
PaymentStateOfLast(total, last) == IF last >= Amount THEN "paid" ELSE "partial"
PaymentState(total, last) == IF total >= Amount THEN "paid" ELSE "partial"

(* sa.payment.wizard.action_register_payment: money is added to whatever   *)
(* the row holds by now, in whatever state it is.                          *)
RegisterPayment(u) ==
    LET p == wizard[u] IN
    /\ p # NoPayment /\ Exists(p)
    /\ \E money \in 1 .. Amount, createInvoice \in BOOLEAN :
         LET total == row[p].paid + money
             r == [row[p] EXCEPT !.paid = total, !.state = PaymentState(total, money)]
         IN /\ total <= MaxPaid
            /\ \E i \in IF createInvoice /\ r.kind = "rent" THEN Invoiced(r) ELSE {r} :
               \E j \in Reconciled(i) : row' = [row EXCEPT ![p] = j]
    /\ wizard' = [wizard EXCEPT ![u] = NoPayment]
    /\ UNCHANGED <<bill, issued, issuing, today>>

CloseWizard(u) ==
    /\ wizard[u] # NoPayment
    /\ wizard' = [wizard EXCEPT ![u] = NoPayment]
    /\ UNCHANGED <<row, bill, issued, issuing, today>>

MarkPaid(p) ==
    /\ Exists(p)
    /\ row[p].state # "cancelled"
    /\ row' = [row EXCEPT ![p].state = "paid", ![p].paid = Amount]
    /\ UNCHANGED <<bill, issued, wizard, issuing, today>>

Cancel(p) ==
    /\ Exists(p)
    /\ row' = [row EXCEPT ![p].state = "cancelled"]
    /\ UNCHANGED <<bill, issued, wizard, issuing, today>>

(* The button: an exception rolls everything back, the draft included.     *)
\* Faulty variant: an invoice that exists already does not stop it.
InvoiceableAlways(p) == Exists(p)
Invoiceable(p) == Exists(p) /\ row[p].move = "none"

CreateInvoice(p) ==
    /\ Invoiceable(p)
    /\ row' = [row EXCEPT ![p].move = "posted", ![p].moves = @ + 1]
    /\ UNCHANGED <<bill, issued, wizard, issuing, today>>

-----------------------------------------------------------------------------
(* SADAD bills                                                             *)

(* action_generate_sadad reads the row and its bills ...                   *)
IssueReads(u, p) ==
    /\ issuing[u] = NoPayment
    /\ row[p].state \in Open
    /\ \A b \in Bills : bill[b].of = p => bill[b].state # "pending"
    /\ issuing' = [issuing EXCEPT ![u] = p]
    /\ UNCHANGED <<row, bill, issued, wizard, today>>

(* ... and its insertion fails only if the row is gone by then.            *)
IssueCommits(u) ==
    /\ issuing[u] # NoPayment
    /\ issuing' = [issuing EXCEPT ![u] = NoPayment]
    /\ IF Exists(issuing[u])
         THEN /\ issued < MaxBills
              /\ issued' = issued + 1
              /\ bill' = [bill EXCEPT ![issued + 1] =
                            [state |-> "pending", of |-> issuing[u], expiry |-> today + Validity]]
         ELSE UNCHANGED <<issued, bill>>
    /\ UNCHANGED <<row, wizard, today>>

CancelBill(b) ==
    /\ bill[b].state \in {"pending", "expired", "cancelled"}
    /\ bill' = [bill EXCEPT ![b].state = "cancelled"]
    /\ UNCHANGED <<row, issued, wizard, issuing, today>>

(* _mark_paid: an open row is paid in full whatever it held, then invoiced *)
(* and reconciled; when it has an invoice already the first of the two     *)
(* raises, so the second is not run.                                       *)
BillPaid(b) ==
    LET p == bill[b].of
        r == [row[p] EXCEPT !.state = "paid", !.paid = Amount]
    IN /\ bill' = [bill EXCEPT ![b].state = "paid"]
       /\ IF row[p].state \in Open
            THEN \/ r.move # "none" /\ row' = [row EXCEPT ![p] = r]
                 \/ /\ r.move = "none"
                    /\ \E i \in Invoiced(r) : \E j \in Reconciled(i) : row' = [row EXCEPT ![p] = j]
            ELSE UNCHANGED row
       /\ UNCHANGED <<issued, wizard, issuing, today>>

(* The bills of one row bear one number: it is made of the row's and the   *)
(* tenant's identities.  A search by number finds the last of them.        *)
Last(b) == \A c \in Bills : bill[c].of = bill[b].of => c <= b

SimulatePayment(b) == bill[b].state = "pending" /\ BillPaid(b)
PayPageConfirm(b)  == bill[b].state = "pending" /\ Last(b) /\ BillPaid(b)
SadadWebhook(b)    == bill[b].state \in {"pending", "expired"} /\ Last(b) /\ BillPaid(b)

-----------------------------------------------------------------------------
(* Days and scheduled actions                                              *)

Tick ==
    /\ today < LastDay
    /\ today' = today + 1
    /\ UNCHANGED <<row, bill, issued, wizard, issuing>>

\* Faulty variant: every row that is not cancelled is flagged.
LateAnyhow(p) == row[p].state \notin {"absent", "cancelled"} /\ row[p].due < today
Late(p) == row[p].state \in {"pending", "partial"} /\ row[p].due < today

MarkOverdue ==
    /\ \E p \in Payments : Late(p)
    /\ row' = [p \in Payments |-> IF Late(p) THEN [row[p] EXCEPT !.state = "overdue"] ELSE row[p]]
    /\ UNCHANGED <<bill, issued, wizard, issuing, today>>

ExpiredBill(b) == bill[b].state = "pending" /\ bill[b].expiry < today

ExpireBills ==
    /\ \E b \in Bills : ExpiredBill(b)
    /\ bill' = [b \in Bills |-> IF ExpiredBill(b) THEN [bill[b] EXCEPT !.state = "expired"] ELSE bill[b]]
    /\ UNCHANGED <<row, issued, wizard, issuing, today>>

-----------------------------------------------------------------------------
UserAction(u) ==
    \/ \E p \in Payments : OpenWizard(u, p) \/ IssueReads(u, p)
    \/ RegisterPayment(u) \/ CloseWizard(u) \/ IssueCommits(u)

RowAction(p)  == MarkPaid(p) \/ Cancel(p) \/ CreateInvoice(p)
BillAction(b) == CancelBill(b) \/ SimulatePayment(b) \/ PayPageConfirm(b) \/ SadadWebhook(b)

Next ==
    \/ GenerateSchedule
    \/ \E u \in Users : UserAction(u)
    \/ \E p \in Payments : RowAction(p)
    \/ \E b \in Bills : BillAction(b)
    \/ Tick \/ MarkOverdue \/ ExpireBills

Spec == Init /\ [][Next]_vars

-----------------------------------------------------------------------------
(* The state of a row says how much of it has been paid, whichever of the  *)
(* wizard, the button, the SADAD bills and the daily flagging wrote last:  *)
(* the portal, the dashboard and the end-of-tenancy check trust the state  *)
(* (sa_payment_wizard.py:54-59, sa_sadad_invoice.py:204-220).              *)
StateMatchesBalance ==
    \A p \in Payments :
        /\ row[p].state = "pending" => row[p].paid = 0
        /\ row[p].state = "partial" => row[p].paid \in 1 .. Amount - 1
        /\ row[p].state = "overdue" => row[p].paid < Amount
        /\ row[p].state = "paid" => row[p].paid >= Amount

(* However often and from wherever invoicing is tried again, a row is      *)
(* invoiced at most once (sa_rent_payment.py:275-279).                     *)
InvoicedOnce == \A p \in Payments : row[p].moves <= 1

(* A row that is paid stays paid, unless it is cancelled: no old wizard, no*)
(* second bill and no scheduled action opens it again                      *)
(* (sa_rent_payment.py:153-161, 478-481).                                  *)
PaidStaysPaid ==
    [][\A p \in Payments :
         row[p].state = "paid" => row'[p].state \in {"paid", "cancelled"}]_vars

(* What is registered in the books for a row does not exceed what has been *)
(* paid on it.  The code keeps to it only where no row that is in the books*)
(* is paid again: each account payment is for the whole of amount_paid     *)
(* (sa_rent_payment.py:327-341).                                           *)
BooksMatch == \A p \in Payments : row[p].ledger <= row[p].paid
=============================================================================
