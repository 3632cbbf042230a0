------------------------- MODULE RentPaymentsProofs -------------------------
(* Proofs about RentPayments, for every set of rows, users and lines and   *)
(* for every bound.                                                        *)
EXTENDS RentPayments, TLAPS

(* What holds of one row.  The balance is StateMatchesBalance; that a row  *)
(* without a posted invoice never had one is what makes InvoicedOnce       *)
(* inductive: the buttons look at the link, not at the count.              *)
Balanced(r) ==
    /\ r.state = "pending" => r.paid = 0
    /\ r.state = "partial" => r.paid \in 1 .. Amount - 1
    /\ r.state = "overdue" => r.paid < Amount
    /\ r.state = "paid" => r.paid >= Amount

Linked(r) == r.moves <= 1 /\ (r.move # "posted" => r.moves = 0)

RowOK(r) == r \in Row /\ Balanced(r) /\ Linked(r)

(* A bill that can still be paid names a row.                              *)
BillsNameRows == \A b \in Bills : bill[b].state # "absent" => bill[b].of \in Payments

Rest ==
    /\ bill \in [Bills -> [state : BillStates, of : Payments \cup {NoPayment}, expiry : Nat]]
    /\ issued \in 0 .. MaxBills
    /\ wizard \in [Users -> Payments \cup {NoPayment}]
    /\ issuing \in [Users -> Payments \cup {NoPayment}]
    /\ today \in Nat

RowsOK == row \in [Payments -> Row] /\ \A p \in Payments : RowOK(row[p])

IInv == RowsOK /\ Rest /\ BillsNameRows

-----------------------------------------------------------------------------
(* Invoicing and reconciling a row                                         *)

(* Whether it succeeds, leaves a draft or fails, invoicing keeps a row     *)
(* consistent and does not touch its state (action_create_invoice).        *)
LEMMA InvoicedOK ==
    ASSUME NEW r, RowOK(r), NEW i \in Invoiced(r)
    PROVE  RowOK(i) /\ i.state = r.state
<1>1. CASE i = r  BY <1>1
<1>2. CASE r.move = "none" /\ i = [r EXCEPT !.move = "draft"]
  BY <1>2 DEF RowOK, Row, Balanced, Linked
<1>3. CASE r.move = "none" /\ i = [r EXCEPT !.move = "posted", !.moves = @ + 1]
  <2>1. r \in Row /\ r.moves = 0  BY <1>3 DEF RowOK, Linked
  <2>2. i = [r EXCEPT !.move = "posted", !.moves = 1]  BY <1>3, <2>1 DEF Row
  <2>3. i \in Row /\ i.moves = 1 /\ i.move = "posted"  BY <2>1, <2>2 DEF Row
  <2>4. i.state = r.state /\ i.paid = r.paid  BY <2>1, <2>2 DEF Row
  <2> QED BY <2>3, <2>4 DEF RowOK, Balanced, Linked
<1> QED BY <1>1, <1>2, <1>3 DEF Invoiced

(* Nor does registering the payment in the books                           *)
(* (_create_account_payment_and_reconcile).                                *)
LEMMA ReconciledOK ==
    ASSUME NEW r, RowOK(r), NEW j \in Reconciled(r)
    PROVE  RowOK(j) /\ j.state = r.state
<1>1. CASE j = r  BY <1>1
<1>2. CASE j = [r EXCEPT !.ledger = @ + r.paid]
  BY <1>2 DEF RowOK, Row, Balanced, Linked
<1> QED BY <1>1, <1>2 DEF Reconciled

(* Storing a consistent row keeps all of them consistent.                  *)
LEMMA StoreOK ==
    ASSUME RowsOK, NEW p \in Payments, NEW r, RowOK(r), row' = [row EXCEPT ![p] = r]
    PROVE  RowsOK'
BY DEF RowsOK, RowOK

-----------------------------------------------------------------------------
(* What each action does to the rows                                       *)

(* A new row owes everything.                                              *)
LEMMA NewRowOK ==
    ASSUME NEW line \in Schedule
    PROVE  RowOK(NewRow(line))
<1>1. line.kind \in {"rent", "deposit"} /\ line.due \in Nat  BY ScheduleAssumption
<1>2. Absent \in Row /\ Absent.paid = 0 /\ Absent.moves = 0
  BY DEF Absent, Row, States
<1>3. /\ NewRow(line) \in Row /\ NewRow(line).state = "pending"
      /\ NewRow(line).paid = 0 /\ NewRow(line).moves = 0
  BY <1>1, <1>2 DEF NewRow, Row, States, Open
<1> QED BY <1>3 DEF RowOK, Balanced, Linked

(* There is nothing to say of a row that does not exist.                   *)
LEMMA AbsentOK == RowOK(Absent)
BY DEF Absent, RowOK, Row, Balanced, Linked, States

(* The rows of a new schedule take identities nothing holds, so no row that*)
(* exists is overwritten (action_generate_payment_schedule).               *)
LEMMA GenerateRows ==
    ASSUME RowsOK, GenerateSchedule
    PROVE  /\ RowsOK'
           /\ \A p \in Payments : row[p].state = "paid" => row'[p] = row[p]
<1>1. PICK new \in Injection(Schedule, Free) :
        row' = [p \in Payments |->
                  IF \E line \in Schedule : new[line] = p
                    THEN NewRow(CHOOSE line \in Schedule : new[line] = p)
                  ELSE IF Unpaid(p) THEN Absent ELSE row[p]]
  BY DEF GenerateSchedule
<1>2. \A line \in Schedule : new[line] \in Free
  BY <1>1 DEF Injection
<1>3. ASSUME NEW p \in Payments
      PROVE  RowOK(row'[p]) /\ (row[p].state = "paid" => row'[p] = row[p])
  <2>1. CASE \E line \in Schedule : new[line] = p
    <3>1. (CHOOSE line \in Schedule : new[line] = p) \in Schedule  BY <2>1
    <3>2. row'[p] = NewRow(CHOOSE line \in Schedule : new[line] = p)  BY <1>1, <2>1
    <3>3. RowOK(row'[p])  BY <3>1, <3>2, NewRowOK
    <3>4. row[p].state = "absent"  BY <1>2, <2>1 DEF Free, Exists
    <3> QED BY <3>3, <3>4
  <2>2. CASE ~(\E line \in Schedule : new[line] = p) /\ Unpaid(p)
    <3>1. row'[p] = Absent  BY <1>1, <2>2
    <3> QED BY <3>1, <2>2, AbsentOK DEF Unpaid
  <2>3. CASE ~(\E line \in Schedule : new[line] = p) /\ ~Unpaid(p)
    BY <1>1, <2>3 DEF RowsOK
  <2> QED BY <2>1, <2>2, <2>3
<1> QED BY <1>1, <1>3 DEF RowsOK, RowOK

(* What every other action does to the one row it touches.                 *)
RowStep(p) ==
    \E r : /\ RowOK(r)
           /\ row[p].state = "paid" => r.state \in {"paid", "cancelled"}
           /\ row' = [row EXCEPT ![p] = r]

LEMMA RowStepOK ==
    ASSUME RowsOK, NEW p \in Payments, RowStep(p)
    PROVE  /\ RowsOK'
           /\ \A q \in Payments : row[q].state = "paid" => row'[q].state \in {"paid", "cancelled"}
<1>1. PICK r : /\ RowOK(r)
               /\ row[p].state = "paid" => r.state \in {"paid", "cancelled"}
               /\ row' = [row EXCEPT ![p] = r]
  BY DEF RowStep
<1>2. RowsOK'  BY <1>1, StoreOK
<1>3. \A q \in Payments : row'[q] = IF q = p THEN r ELSE row[q]  BY <1>1 DEF RowsOK
<1> QED BY <1>1, <1>2, <1>3

(* The wizard adds to what is there, so a row that was paid is paid still: *)
(* this is where the balance of the state is needed                        *)
(* (sa.payment.wizard.action_register_payment).                            *)
LEMMA RegisterRow ==
    ASSUME RowsOK, Rest, NEW u \in Users, RegisterPayment(u)
    PROVE  \E p \in Payments : RowStep(p)
<1> DEFINE p == wizard[u]
<1>1. p \in Payments  BY DEF RegisterPayment, Rest
<1>2. RowOK(row[p])  BY <1>1 DEF RowsOK
<1>3. PICK money \in 1 .. Amount, createInvoice \in BOOLEAN :
        LET total == row[p].paid + money
            r == [row[p] EXCEPT !.paid = total, !.state = PaymentState(total, money)]
        IN \E i \in IF createInvoice /\ r.kind = "rent" THEN Invoiced(r) ELSE {r} :
           \E j \in Reconciled(i) : row' = [row EXCEPT ![p] = j]
  BY DEF RegisterPayment
<1> DEFINE total == row[p].paid + money
           r == [row[p] EXCEPT !.paid = total, !.state = PaymentState(total, money)]
<1>4. total \in Nat \ {0}  BY <1>2, ScheduleAssumption DEF RowOK, Row
<1>5. RowOK(r) /\ r.state = PaymentState(total, money)
  <2>1. row[p] \in Row  BY <1>2 DEF RowOK
  <2>2. PaymentState(total, money) \in States  BY DEF PaymentState, States, Open
  <2>3. /\ r \in Row /\ r.state = PaymentState(total, money) /\ r.paid = total
        /\ r.move = row[p].move /\ r.moves = row[p].moves
    BY <1>4, <2>1, <2>2 DEF Row
  <2>4. Balanced(r)  BY <1>4, <2>3, ScheduleAssumption DEF Balanced, PaymentState
  <2> QED BY <1>2, <2>3, <2>4 DEF RowOK, Linked
<1>6. PICK i \in IF createInvoice /\ r.kind = "rent" THEN Invoiced(r) ELSE {r} :
        \E j \in Reconciled(i) : row' = [row EXCEPT ![p] = j]
  BY <1>3
<1>7. RowOK(i) /\ i.state = r.state  BY <1>5, <1>6, InvoicedOK
<1>8. PICK j \in Reconciled(i) : row' = [row EXCEPT ![p] = j]  BY <1>6
<1>9. RowOK(j) /\ j.state = PaymentState(total, money)  BY <1>5, <1>7, <1>8, ReconciledOK
<1>10. row[p].state = "paid" => j.state = "paid"
  <2>1. SUFFICES ASSUME row[p].state = "paid" PROVE total >= Amount
    BY <1>9 DEF PaymentState
  <2>2. row[p].paid >= Amount /\ row[p].paid \in Nat  BY <1>2, <2>1 DEF RowOK, Balanced, Row
  <2> QED BY <2>2, ScheduleAssumption
<1> QED BY <1>1, <1>8, <1>9, <1>10 DEF RowStep

(* A bill touches an open row only, and pays it in full                    *)
(* (sa.sadad.invoice._mark_paid).                                          *)
LEMMA BillRow ==
    ASSUME RowsOK, BillsNameRows, NEW b \in Bills, bill[b].state # "absent", BillPaid(b)
    PROVE  UNCHANGED row \/ \E p \in Payments : RowStep(p)
<1> DEFINE p == bill[b].of
           r == [row[p] EXCEPT !.state = "paid", !.paid = Amount]
<1>1. p \in Payments  BY DEF BillsNameRows
<1>2. RowOK(row[p])  BY <1>1 DEF RowsOK
<1>3. RowOK(r)
  <2>1. row[p] \in Row  BY <1>2 DEF RowOK
  <2>2. /\ r \in Row /\ r.state = "paid" /\ r.paid = Amount
        /\ r.move = row[p].move /\ r.moves = row[p].moves
    BY <2>1, ScheduleAssumption DEF Row, States, Open
  <2> QED BY <1>2, <2>2, ScheduleAssumption DEF RowOK, Linked, Balanced
<1>4. CASE row[p].state \in Open
  <2>1. row[p].state # "paid"  BY <1>4 DEF Open
  <2>2. CASE row' = [row EXCEPT ![p] = r]  BY <1>1, <1>3, <2>1, <2>2 DEF RowStep
  <2>3. CASE \E i \in Invoiced(r) : \E j \in Reconciled(i) : row' = [row EXCEPT ![p] = j]
    <3>1. PICK i \in Invoiced(r) : \E j \in Reconciled(i) : row' = [row EXCEPT ![p] = j]
      BY <2>3
    <3>2. PICK j \in Reconciled(i) : row' = [row EXCEPT ![p] = j]  BY <3>1
    <3>3. RowOK(i)  BY <1>3, <3>1, InvoicedOK
    <3>4. RowOK(j)  BY <3>2, <3>3, ReconciledOK
    <3> QED BY <1>1, <2>1, <3>2, <3>4 DEF RowStep
  <2> QED BY <1>4, <2>2, <2>3 DEF BillPaid
<1> QED BY <1>4 DEF BillPaid

(* The three buttons of a row.                                             *)
LEMMA ButtonRow ==
    ASSUME RowsOK, NEW p \in Payments, RowAction(p)
    PROVE  RowStep(p)
<1>1. RowOK(row[p]) /\ row[p] \in Row  BY DEF RowsOK
<1>2. CASE MarkPaid(p)
  <2> DEFINE r == [row[p] EXCEPT !.state = "paid", !.paid = Amount]
  <2>1. row' = [row EXCEPT ![p] = r]  BY <1>2 DEF MarkPaid, RowsOK
  <2>2. /\ r \in Row /\ r.state = "paid" /\ r.paid = Amount
        /\ r.move = row[p].move /\ r.moves = row[p].moves
    BY <1>1, ScheduleAssumption DEF Row, States, Open
  <2>3. RowOK(r)  BY <1>1, <2>2, ScheduleAssumption DEF RowOK, Linked, Balanced
  <2> QED BY <2>1, <2>2, <2>3 DEF RowStep
<1>3. CASE Cancel(p)
  <2> DEFINE r == [row[p] EXCEPT !.state = "cancelled"]
  <2>1. row' = [row EXCEPT ![p] = r]  BY <1>3 DEF Cancel, RowsOK
  <2>2. /\ r \in Row /\ r.state = "cancelled"
        /\ r.move = row[p].move /\ r.moves = row[p].moves
    BY <1>1 DEF Row, States
  <2>3. RowOK(r)  BY <1>1, <2>2 DEF RowOK, Linked, Balanced
  <2> QED BY <2>1, <2>2, <2>3 DEF RowStep
<1>4. CASE CreateInvoice(p)
  <2> DEFINE r == [row[p] EXCEPT !.move = "posted", !.moves = @ + 1]
  <2>1. row' = [row EXCEPT ![p] = r]  BY <1>4 DEF CreateInvoice, RowsOK
  <2>2. row[p].move = "none"  BY <1>4 DEF CreateInvoice, Invoiceable
  <2>3. r \in Invoiced(row[p])  BY <2>2 DEF Invoiced
  <2>4. RowOK(r) /\ r.state = row[p].state  BY <1>1, <2>3, InvoicedOK
  <2> QED BY <2>1, <2>4 DEF RowStep
<1> QED BY <1>2, <1>3, <1>4 DEF RowAction

-----------------------------------------------------------------------------
(* What the actions do to everything else                                  *)

LEMMA RestGenerate ==
    ASSUME IInv, GenerateSchedule
    PROVE  Rest' /\ BillsNameRows'
<1>1. NoBill \in [state : BillStates, of : Payments \cup {NoPayment}, expiry : Nat]
  BY DEF NoBill, BillStates
<1>2. \A b \in Bills : bill'[b] = bill[b] \/ bill'[b] = NoBill
  BY DEF GenerateSchedule
<1>3. bill' \in [Bills -> [state : BillStates, of : Payments \cup {NoPayment}, expiry : Nat]]
  BY <1>1 DEF IInv, Rest, GenerateSchedule
<1>4. BillsNameRows'
  BY <1>2 DEF IInv, BillsNameRows, NoBill
<1> QED BY <1>3, <1>4 DEF IInv, Rest, GenerateSchedule

LEMMA RestUser ==
    ASSUME IInv, NEW u \in Users, UserAction(u)
    PROVE  Rest' /\ BillsNameRows'
<1> USE DEF IInv
<1>1. CASE \E p \in Payments : OpenWizard(u, p) \/ IssueReads(u, p)
  BY <1>1 DEF OpenWizard, IssueReads, Rest, BillsNameRows
<1>2. CASE RegisterPayment(u) \/ CloseWizard(u)
  BY <1>2 DEF RegisterPayment, CloseWizard, Rest, BillsNameRows
<1>3. CASE IssueCommits(u)
  <2> DEFINE new == [state |-> "pending", of |-> issuing[u], expiry |-> today + Validity]
  <2>1. issuing[u] \in Payments  BY <1>3 DEF IssueCommits, Rest
  <2>2. CASE Exists(issuing[u])
    <3>1. issued + 1 \in Bills /\ issued' \in 0 .. MaxBills
      BY <1>3, <2>2, ScheduleAssumption DEF IssueCommits, Rest, Bills
    <3>2. new \in [state : BillStates, of : Payments \cup {NoPayment}, expiry : Nat]
      BY <2>1, ScheduleAssumption DEF BillStates, Rest
    <3>3. bill' = [bill EXCEPT ![issued + 1] = new]  BY <1>3, <2>2 DEF IssueCommits
    <3>4. new.of \in Payments  BY <2>1
    <3>5. bill' \in [Bills -> [state : BillStates, of : Payments \cup {NoPayment}, expiry : Nat]]
      BY <3>1, <3>2, <3>3 DEF Rest
    <3>6. BillsNameRows'  BY <3>1, <3>3, <3>4 DEF Rest, BillsNameRows
    <3>7. issuing' \in [Users -> Payments \cup {NoPayment}] /\ UNCHANGED <<wizard, today>>
      BY <1>3 DEF IssueCommits, Rest
    <3>8. wizard' \in [Users -> Payments \cup {NoPayment}] /\ today' \in Nat
      BY <3>7 DEF Rest
    <3> QED BY <3>1, <3>5, <3>6, <3>7, <3>8 DEF Rest
  <2>3. CASE ~Exists(issuing[u])
    BY <1>3, <2>3 DEF IssueCommits, Rest, BillsNameRows
  <2> QED BY <2>2, <2>3
<1> QED BY <1>1, <1>2, <1>3 DEF UserAction

(* A bill only ever changes its state once it is issued.                   *)
LEMMA BillState ==
    ASSUME Rest, BillsNameRows, NEW b \in Bills, bill[b].state # "absent",
           NEW s \in BillStates, bill' = [bill EXCEPT ![b].state = s]
    PROVE  /\ bill' \in [Bills -> [state : BillStates, of : Payments \cup {NoPayment}, expiry : Nat]]
           /\ BillsNameRows'
<1>1. bill' \in [Bills -> [state : BillStates, of : Payments \cup {NoPayment}, expiry : Nat]]
  BY DEF Rest
<1>2. \A c \in Bills : bill'[c].of = bill[c].of /\ (c # b => bill'[c] = bill[c])
  BY DEF Rest
<1> QED BY <1>1, <1>2 DEF BillsNameRows

LEMMA RestBill ==
    ASSUME IInv, NEW b \in Bills, BillAction(b)
    PROVE  Rest' /\ BillsNameRows'
<1> USE DEF IInv
<1>1. bill[b].state # "absent"
  BY DEF BillAction, CancelBill, SimulatePayment, PayPageConfirm, SadadWebhook
<1>2. PICK s \in BillStates : bill' = [bill EXCEPT ![b].state = s]
  BY DEF BillAction, CancelBill, SimulatePayment, PayPageConfirm, SadadWebhook, BillPaid, BillStates
<1>3. UNCHANGED <<issued, wizard, issuing, today>>
  BY DEF BillAction, CancelBill, SimulatePayment, PayPageConfirm, SadadWebhook, BillPaid
<1> QED BY <1>1, <1>2, <1>3, BillState DEF Rest

LEMMA RestExpire ==
    ASSUME IInv, ExpireBills
    PROVE  Rest' /\ BillsNameRows'
<1>1. Rest /\ BillsNameRows  BY DEF IInv
<1>2. bill' \in [Bills -> [state : BillStates, of : Payments \cup {NoPayment}, expiry : Nat]]
  BY <1>1 DEF ExpireBills, Rest, BillStates
<1>3. ASSUME NEW b \in Bills PROVE bill'[b].state # "absent" => bill'[b].of \in Payments
  <2>1. bill[b].state # "absent" => bill[b].of \in Payments  BY <1>1 DEF BillsNameRows
  <2>2. CASE ExpiredBill(b)
    <3>1. bill'[b] = [bill[b] EXCEPT !.state = "expired"] /\ bill[b].state = "pending"
      BY <2>2 DEF ExpireBills, ExpiredBill
    <3>2. bill'[b].of = bill[b].of  BY <1>1, <3>1 DEF Rest
    <3> QED BY <2>1, <3>1, <3>2
  <2>3. CASE ~ExpiredBill(b)
    <3>1. bill'[b] = bill[b]  BY <2>3 DEF ExpireBills
    <3> QED BY <2>1, <3>1
  <2> QED BY <2>2, <2>3
<1> QED BY <1>1, <1>2, <1>3 DEF ExpireBills, Rest, BillsNameRows

-----------------------------------------------------------------------------
(* The invariant                                                           *)

LEMMA Initially == Init => IInv
<1> SUFFICES ASSUME Init PROVE IInv  OBVIOUS
<1>1. Absent \in Row  BY AbsentOK DEF RowOK
<1>2. RowsOK  BY <1>1, AbsentOK DEF Init, RowsOK
<1>3. NoBill \in [state : BillStates, of : Payments \cup {NoPayment}, expiry : Nat]
  BY DEF NoBill, BillStates
<1>4. Rest  BY <1>3, ScheduleAssumption DEF Init, Rest
<1>5. BillsNameRows  BY DEF Init, BillsNameRows, NoBill
<1> QED BY <1>2, <1>4, <1>5 DEF IInv

KeepsPaid == \A p \in Payments : row[p].state = "paid" => row'[p].state \in {"paid", "cancelled"}

(* One step of the schedule, of a user, a row, a bill or a scheduled       *)
(* action keeps the invariant and opens no paid row.                       *)
LEMMA Step == IInv /\ [Next]_vars => IInv' /\ KeepsPaid
<1> SUFFICES ASSUME IInv, [Next]_vars PROVE IInv' /\ KeepsPaid  OBVIOUS
<1>a. RowsOK /\ Rest /\ BillsNameRows  BY DEF IInv
<1>b. ASSUME UNCHANGED row PROVE RowsOK' /\ KeepsPaid
  BY <1>a, <1>b DEF RowsOK, RowOK, KeepsPaid
<1>1. CASE GenerateSchedule
  <2>1. RowsOK' /\ KeepsPaid  BY <1>1, <1>a, GenerateRows DEF KeepsPaid
  <2> QED BY <1>1, <2>1, RestGenerate DEF IInv
<1>2. ASSUME NEW u \in Users, UserAction(u) PROVE IInv' /\ KeepsPaid
  <2>1. RowsOK' /\ KeepsPaid
    <3>1. CASE RegisterPayment(u)
      BY <1>a, <3>1, RegisterRow, RowStepOK DEF KeepsPaid
    <3>2. CASE ~RegisterPayment(u)
      <4>1. UNCHANGED row
        BY <1>2, <3>2 DEF UserAction, OpenWizard, IssueReads, CloseWizard, IssueCommits
      <4> QED BY <1>b, <4>1
    <3> QED BY <3>1, <3>2
  <2> QED BY <1>2, <2>1, RestUser DEF IInv
<1>3. ASSUME NEW p \in Payments, RowAction(p) PROVE IInv' /\ KeepsPaid
  <2>1. RowsOK' /\ KeepsPaid  BY <1>3, <1>a, ButtonRow, RowStepOK DEF KeepsPaid
  <2>2. UNCHANGED <<bill, issued, wizard, issuing, today>>
    BY <1>3 DEF RowAction, MarkPaid, Cancel, CreateInvoice
  <2>3. Rest' /\ BillsNameRows'  BY <1>a, <2>2 DEF Rest, BillsNameRows
  <2> QED BY <2>1, <2>3 DEF IInv
<1>4. ASSUME NEW b \in Bills, BillAction(b) PROVE IInv' /\ KeepsPaid
  <2>1. UNCHANGED row \/ \E p \in Payments : RowStep(p)
    <3>1. CASE BillPaid(b)
      <4>1. bill[b].state # "absent"
        BY <1>4 DEF BillAction, CancelBill, SimulatePayment, PayPageConfirm, SadadWebhook
      <4> QED BY <1>a, <3>1, <4>1, BillRow
    <3>2. CASE ~BillPaid(b)
      BY <1>4, <3>2 DEF BillAction, CancelBill, SimulatePayment, PayPageConfirm, SadadWebhook
    <3> QED BY <3>1, <3>2
  <2>2. RowsOK' /\ KeepsPaid  BY <1>a, <1>b, <2>1, RowStepOK DEF KeepsPaid
  <2> QED BY <1>4, <2>2, RestBill DEF IInv
<1>5. CASE Tick
  <2>1. UNCHANGED <<row, bill, issued, wizard, issuing>> /\ today' = today + 1  BY <1>5 DEF Tick
  <2>2. Rest' /\ BillsNameRows'  BY <1>a, <2>1 DEF Rest, BillsNameRows
  <2> QED BY <1>b, <2>1, <2>2 DEF IInv
<1>6. CASE MarkOverdue
  <2>1. ASSUME NEW p \in Payments
        PROVE  RowOK(row'[p]) /\ (row[p].state = "paid" => row'[p].state = "paid")
    <3> DEFINE r == [row[p] EXCEPT !.state = "overdue"]
    <3>1. RowOK(row[p]) /\ row[p] \in Row  BY <1>a DEF RowsOK
    <3>2. row'[p] = IF Late(p) THEN r ELSE row[p]  BY <1>6 DEF MarkOverdue
    <3>3. CASE Late(p)
      <4>1. /\ r \in Row /\ r.state = "overdue" /\ r.paid = row[p].paid
            /\ r.move = row[p].move /\ r.moves = row[p].moves
        BY <3>1 DEF Row, States, Open
      <4>2. row[p].paid < Amount  BY <3>1, <3>3, ScheduleAssumption DEF Late, RowOK, Balanced
      <4>3. RowOK(r)  BY <3>1, <4>1, <4>2 DEF RowOK, Balanced, Linked
      <4> QED BY <3>2, <3>3, <4>3 DEF Late
    <3>4. CASE ~Late(p)  BY <3>1, <3>2, <3>4
    <3> QED BY <3>3, <3>4
  <2>2. RowsOK' /\ KeepsPaid  BY <1>6, <2>1 DEF RowsOK, RowOK, KeepsPaid, MarkOverdue
  <2>3. Rest' /\ BillsNameRows'  BY <1>6, <1>a DEF MarkOverdue, Rest, BillsNameRows
  <2> QED BY <2>2, <2>3 DEF IInv
<1>7. CASE ExpireBills
  <2>1. UNCHANGED row  BY <1>7 DEF ExpireBills
  <2> QED BY <1>7, <1>b, <2>1, RestExpire DEF IInv
<1>8. CASE UNCHANGED vars
  <2>1. Rest' /\ BillsNameRows'  BY <1>a, <1>8 DEF vars, Rest, BillsNameRows
  <2> QED BY <1>8, <1>b, <2>1 DEF IInv, vars
<1> QED BY <1>1, <1>2, <1>3, <1>4, <1>5, <1>6, <1>7, <1>8 DEF Next

LEMMA Always == Spec => []IInv
BY Initially, Step, PTL DEF Spec

(* Every row, bill and wizard stays of its type.                           *)
THEOREM TypeCorrect == Spec => []TypeOK
<1>1. IInv => TypeOK  BY DEF IInv, RowsOK, Rest, TypeOK
<1> QED BY <1>1, Always, PTL

(* Whatever old wizard, button, bill or scheduled action wrote last, the   *)
(* state of a row says how much of it has been paid.                       *)
THEOREM BalanceTold == Spec => []StateMatchesBalance
<1>1. IInv => StateMatchesBalance
  BY DEF IInv, RowsOK, RowOK, Balanced, StateMatchesBalance
<1> QED BY <1>1, Always, PTL

(* No number of attempts invoices a row twice (action_create_invoice and   *)
(* its three callers).                                                     *)
THEOREM NeverInvoicedTwice == Spec => []InvoicedOnce
<1>1. IInv => InvoicedOnce  BY DEF IInv, RowsOK, RowOK, Linked, InvoicedOnce
<1> QED BY <1>1, Always, PTL

(* A paid row is never opened again; regeneration leaves it alone.         *)
THEOREM PaidIsPaid == Spec => PaidStaysPaid
<1>1. IInv /\ [Next]_vars => [KeepsPaid]_vars  BY Step
<1>2. Spec => [][KeepsPaid]_vars  BY <1>1, Always, PTL DEF Spec
<1> QED BY <1>2 DEF PaidStaysPaid, KeepsPaid

-----------------------------------------------------------------------------
(* When the books match                                                    *)

(* No row that is in the books is paid again, nor told it was paid         *)
(* otherwise.  A row that is deleted takes its balance with it.            *)
Settled == \A p \in Payments : row[p].ledger > 0 /\ Exists(p)' => row'[p].paid = row[p].paid

(* An account payment is for all that is paid, and is posted only when     *)
(* more, or less, has been paid than before.                               *)
LedgerMoves(p) ==
    \/ row'[p] = row[p]
    \/ row'[p].ledger = row[p].ledger /\ row'[p].state # "absent"
    \/ row'[p].ledger = row[p].ledger + row'[p].paid /\ row'[p].paid # row[p].paid
                                                     /\ row'[p].state # "absent"
    \/ row'[p].ledger = 0

LEMMA StoredMoves ==
    ASSUME RowsOK, NEW p \in Payments, NEW r, row' = [row EXCEPT ![p] = r],
           r.state # "absent",
           \/ r.ledger = row[p].ledger
           \/ r.ledger = row[p].ledger + r.paid /\ r.paid # row[p].paid
    PROVE  \A q \in Payments : LedgerMoves(q)
<1>1. \A q \in Payments : row'[q] = IF q = p THEN r ELSE row[q]  BY DEF RowsOK
<1> QED BY <1>1 DEF LedgerMoves

(* Invoicing touches neither what is paid nor the books; reconciling posts *)
(* all that is paid, or nothing.                                           *)
LEMMA BooksOf ==
    ASSUME NEW r, RowOK(r), NEW i, i = r \/ i \in Invoiced(r), NEW j \in Reconciled(i)
    PROVE  /\ j.state = r.state /\ j.paid = r.paid
           /\ j.ledger \in {r.ledger, r.ledger + r.paid}
<1>1. r \in Row  BY DEF RowOK
<1>2. RowOK(i) /\ i.state = r.state  BY InvoicedOK
<1>3. i.paid = r.paid /\ i.ledger = r.ledger
  <2>1. CASE i = r  BY <2>1
  <2>2. CASE i = [r EXCEPT !.move = "draft"]  BY <1>1, <2>2 DEF Row
  <2>3. CASE i = [r EXCEPT !.move = "posted", !.moves = @ + 1]  BY <1>1, <2>3 DEF Row
  <2> QED BY <2>1, <2>2, <2>3 DEF Invoiced
<1>4. i \in Row  BY <1>2 DEF RowOK
<1>5. CASE j = i  BY <1>2, <1>3, <1>5
<1>6. CASE j = [i EXCEPT !.ledger = @ + i.paid]
  <2>1. j.state = i.state /\ j.paid = i.paid /\ j.ledger = i.ledger + i.paid  BY <1>4, <1>6 DEF Row
  <2> QED BY <1>2, <1>3, <2>1
<1> QED BY <1>5, <1>6 DEF Reconciled

LEMMA RegisterMoves ==
    ASSUME RowsOK, Rest, NEW u \in Users, RegisterPayment(u)
    PROVE  \A q \in Payments : LedgerMoves(q)
<1> DEFINE p == wizard[u]
<1>1. p \in Payments /\ Exists(p)  BY DEF RegisterPayment, Rest
<1>2. RowOK(row[p]) /\ row[p] \in Row  BY <1>1 DEF RowsOK, RowOK
<1>3. PICK money \in 1 .. Amount, createInvoice \in BOOLEAN :
        LET total == row[p].paid + money
            r == [row[p] EXCEPT !.paid = total, !.state = PaymentState(total, money)]
        IN \E i \in IF createInvoice /\ r.kind = "rent" THEN Invoiced(r) ELSE {r} :
           \E j \in Reconciled(i) : row' = [row EXCEPT ![p] = j]
  BY DEF RegisterPayment
<1> DEFINE total == row[p].paid + money
           r == [row[p] EXCEPT !.paid = total, !.state = PaymentState(total, money)]
<1>4. total \in Nat /\ total # row[p].paid /\ total # 0
  <2>1. row[p].paid \in Nat /\ money \in Nat /\ money # 0  BY <1>2, ScheduleAssumption DEF Row
  <2> QED BY <2>1
<1>5. /\ r \in Row /\ r.paid = total /\ r.ledger = row[p].ledger
      /\ r.state = PaymentState(total, money) /\ r.state # "absent"
      /\ r.move = row[p].move /\ r.moves = row[p].moves
  <2>1. PaymentState(total, money) \in {"paid", "partial"}  BY DEF PaymentState
  <2>2. {"paid", "partial"} \subseteq States /\ "absent" \notin {"paid", "partial"}  BY DEF States, Open
  <2> QED BY <1>2, <1>4, <2>1, <2>2 DEF Row
<1>6. RowOK(r)
  <2>1. Balanced(r)
    <3>1. money <= Amount /\ Amount \in Nat  BY ScheduleAssumption
    <3> QED BY <1>4, <1>5, <3>1 DEF Balanced, PaymentState
  <2> QED BY <1>2, <1>5, <2>1 DEF RowOK, Linked
<1>7. PICK i : /\ i = r \/ i \in Invoiced(r)
               /\ \E j \in Reconciled(i) : row' = [row EXCEPT ![p] = j]
  BY <1>3
<1>8. PICK j \in Reconciled(i) : row' = [row EXCEPT ![p] = j]  BY <1>7
<1>9. j.state = r.state /\ j.paid = r.paid /\ j.ledger \in {r.ledger, r.ledger + r.paid}
  <2> HIDE DEF r
  <2> QED BY <1>6, <1>7, BooksOf
<1>10. /\ j.state # "absent"
       /\ j.ledger = row[p].ledger \/ (j.ledger = row[p].ledger + j.paid /\ j.paid # row[p].paid)
  BY <1>4, <1>5, <1>9
<1> HIDE DEF p, r, total
<1> QED BY <1>1, <1>8, <1>10, StoredMoves

LEMMA BillMoves ==
    ASSUME RowsOK, BillsNameRows, NEW b \in Bills, bill[b].state # "absent", BillPaid(b)
    PROVE  \A q \in Payments : LedgerMoves(q)
<1> DEFINE p == bill[b].of
           r == [row[p] EXCEPT !.state = "paid", !.paid = Amount]
<1>1. p \in Payments  BY DEF BillsNameRows
<1>2. RowOK(row[p]) /\ row[p] \in Row  BY <1>1 DEF RowsOK, RowOK
<1>3. /\ r \in Row /\ r.state = "paid" /\ r.paid = Amount /\ r.ledger = row[p].ledger
      /\ r.move = row[p].move /\ r.moves = row[p].moves
  BY <1>2, ScheduleAssumption DEF Row, States, Open
<1>4. RowOK(r)  BY <1>2, <1>3, ScheduleAssumption DEF RowOK, Linked, Balanced
<1>5. CASE row[p].state \in Open
  <2>1. row[p].paid < Amount /\ row[p].paid \in Nat
    BY <1>2, <1>5, ScheduleAssumption DEF RowOK, Balanced, Open, Row
  <2>2. CASE row' = [row EXCEPT ![p] = r]
    <3> HIDE DEF p, r
    <3> QED BY <1>1, <1>3, <2>2, StoredMoves
  <2>3. CASE \E i \in Invoiced(r) : \E j \in Reconciled(i) : row' = [row EXCEPT ![p] = j]
    <3> HIDE DEF p, r
    <3>1. PICK i \in Invoiced(r) : \E j \in Reconciled(i) : row' = [row EXCEPT ![p] = j]
      BY <2>3
    <3>2. PICK j \in Reconciled(i) : row' = [row EXCEPT ![p] = j]  BY <3>1
    <3>3. j.state = r.state /\ j.paid = r.paid /\ j.ledger \in {r.ledger, r.ledger + r.paid}
      BY <1>4, <3>1, BooksOf
    <3>4. /\ j.state # "absent" /\ j.paid # row[p].paid
          /\ j.ledger = row[p].ledger \/ j.ledger = row[p].ledger + j.paid
      BY <1>3, <2>1, <3>3, ScheduleAssumption
    <3> QED BY <1>1, <3>2, <3>4, StoredMoves
  <2> QED BY <1>5, <2>2, <2>3 DEF BillPaid
<1>6. CASE row[p].state \notin Open
  BY <1>6 DEF BillPaid, LedgerMoves
<1> QED BY <1>5, <1>6

LEMMA ButtonMoves ==
    ASSUME RowsOK, NEW p \in Payments, RowAction(p)
    PROVE  \A q \in Payments : LedgerMoves(q)
<1>1. row[p] \in Row  BY DEF RowsOK
<1>2. CASE MarkPaid(p)
  <2> DEFINE r == [row[p] EXCEPT !.state = "paid", !.paid = Amount]
  <2>1. row' = [row EXCEPT ![p] = r]  BY <1>2 DEF MarkPaid, RowsOK
  <2>2. r.state # "absent" /\ r.ledger = row[p].ledger  BY <1>1 DEF Row
  <2> HIDE DEF r
  <2> QED BY <2>1, <2>2, StoredMoves
<1>3. CASE Cancel(p)
  <2> DEFINE r == [row[p] EXCEPT !.state = "cancelled"]
  <2>1. row' = [row EXCEPT ![p] = r]  BY <1>3 DEF Cancel, RowsOK
  <2>2. r.state # "absent" /\ r.ledger = row[p].ledger  BY <1>1 DEF Row
  <2> HIDE DEF r
  <2> QED BY <2>1, <2>2, StoredMoves
<1>4. CASE CreateInvoice(p)
  <2> DEFINE r == [row[p] EXCEPT !.move = "posted", !.moves = @ + 1]
  <2>1. row' = [row EXCEPT ![p] = r]  BY <1>4 DEF CreateInvoice, RowsOK
  <2>2. r.state = row[p].state /\ r.ledger = row[p].ledger  BY <1>1 DEF Row
  <2>3. r.state # "absent"  BY <1>4, <2>2 DEF CreateInvoice, Invoiceable, Exists
  <2> HIDE DEF r
  <2> QED BY <2>1, <2>2, <2>3, StoredMoves
<1> QED BY <1>2, <1>3, <1>4 DEF RowAction

LEMMA BooksMove == IInv /\ [Next]_vars => \A q \in Payments : LedgerMoves(q)
<1> SUFFICES ASSUME IInv, [Next]_vars PROVE \A q \in Payments : LedgerMoves(q)  OBVIOUS
<1>a. RowsOK /\ Rest /\ BillsNameRows  BY DEF IInv
<1>b. ASSUME UNCHANGED row PROVE \A q \in Payments : LedgerMoves(q)  BY <1>b DEF LedgerMoves
<1>1. CASE GenerateSchedule
  <2>1. PICK new \in Injection(Schedule, Free) :
          row' = [p \in Payments |->
                    IF \E line \in Schedule : new[line] = p
                      THEN NewRow(CHOOSE line \in Schedule : new[line] = p)
                    ELSE IF Unpaid(p) THEN Absent ELSE row[p]]
    BY <1>1 DEF GenerateSchedule
  <2>2. \A line \in Schedule : NewRow(line).ledger = 0  BY DEF NewRow, Absent
  <2>3. Absent.ledger = 0  BY DEF Absent
  <2> SUFFICES ASSUME NEW q \in Payments PROVE row'[q] = row[q] \/ row'[q].ledger = 0
    BY DEF LedgerMoves
  <2>4. CASE \E line \in Schedule : new[line] = q
    <3> DEFINE made == CHOOSE line \in Schedule : new[line] = q
    <3>1. made \in Schedule  BY <2>4
    <3>2. row'[q] = NewRow(made)  BY <2>1, <2>4
    <3> HIDE DEF made
    <3> QED BY <2>2, <3>1, <3>2
  <2>5. CASE ~\E line \in Schedule : new[line] = q
    <3>1. row'[q] = Absent \/ row'[q] = row[q]  BY <2>1, <2>5
    <3> QED BY <2>3, <3>1
  <2> QED BY <2>4, <2>5
<1>2. ASSUME NEW u \in Users, UserAction(u) PROVE \A q \in Payments : LedgerMoves(q)
  <2>1. CASE RegisterPayment(u)  BY <1>a, <2>1, RegisterMoves
  <2>2. CASE ~RegisterPayment(u)
    <3>1. UNCHANGED row
      BY <1>2, <2>2 DEF UserAction, OpenWizard, IssueReads, CloseWizard, IssueCommits
    <3> QED BY <1>b, <3>1
  <2> QED BY <2>1, <2>2
<1>3. ASSUME NEW p \in Payments, RowAction(p) PROVE \A q \in Payments : LedgerMoves(q)
  BY <1>3, <1>a, ButtonMoves
<1>4. ASSUME NEW b \in Bills, BillAction(b) PROVE \A q \in Payments : LedgerMoves(q)
  <2>1. CASE BillPaid(b)
    <3>1. bill[b].state # "absent"
      BY <1>4 DEF BillAction, CancelBill, SimulatePayment, PayPageConfirm, SadadWebhook
    <3> QED BY <1>a, <2>1, <3>1, BillMoves
  <2>2. CASE ~BillPaid(b)
    <3>1. UNCHANGED row
      BY <1>4, <2>2 DEF BillAction, CancelBill, SimulatePayment, PayPageConfirm, SadadWebhook
    <3> QED BY <1>b, <3>1
  <2> QED BY <2>1, <2>2
<1>5. CASE MarkOverdue
  <2> SUFFICES ASSUME NEW q \in Payments
               PROVE  \/ row'[q] = row[q]
                      \/ row'[q].ledger = row[q].ledger /\ row'[q].state # "absent"
    BY DEF LedgerMoves
  <2>1. row[q] \in Row  BY <1>a DEF RowsOK
  <2>2. row'[q] = row[q] \/ row'[q] = [row[q] EXCEPT !.state = "overdue"]  BY <1>5 DEF MarkOverdue
  <2> QED BY <2>1, <2>2 DEF Row
<1>6. CASE Tick \/ ExpireBills \/ UNCHANGED vars
  <2>1. UNCHANGED row  BY <1>6 DEF Tick, ExpireBills, vars
  <2> QED BY <1>b, <2>1
<1> QED BY <1>1, <1>2, <1>3, <1>4, <1>5, <1>6 DEF Next

(* The books do not outgrow the rows as long as no row that has something  *)
(* in the books is paid again, or marked as paid after more than its       *)
(* amount was paid: they then hold no more than what was paid              *)
(* (sa_rent_payment.py:143-151, 317-370, sa_payment_wizard.py:36-81).      *)
THEOREM BooksMatchIfSettled == Spec /\ [][Settled]_vars => []BooksMatch
<1>1. Init => BooksMatch
  <2>1. Absent.ledger = 0 /\ Absent.paid = 0  BY DEF Absent
  <2> QED BY <2>1 DEF Init, BooksMatch
<1>2. IInv /\ IInv' /\ BooksMatch /\ [Next]_vars /\ [Settled]_vars => BooksMatch'
  <2> SUFFICES ASSUME IInv, IInv', BooksMatch, [Next]_vars, [Settled]_vars, NEW p \in Payments
               PROVE  row'[p].ledger <= row'[p].paid
    BY DEF BooksMatch
  <2>1. /\ row[p].ledger \in Nat /\ row[p].paid \in Nat
        /\ row'[p].ledger \in Nat /\ row'[p].paid \in Nat
    <3>1. row[p] \in Row /\ row'[p] \in Row  BY DEF IInv, RowsOK
    <3> QED BY <3>1 DEF Row
  <2>2. row[p].ledger <= row[p].paid  BY DEF BooksMatch
  <2>3. LedgerMoves(p)  BY BooksMove
  <2>4. row[p].ledger > 0 /\ row'[p].state # "absent" => row'[p].paid = row[p].paid
    BY DEF Settled, Exists, vars
  <2>5. CASE row'[p] = row[p]  BY <2>2, <2>5
  <2>6. CASE row'[p].ledger = row[p].ledger /\ row'[p].state # "absent"
    BY <2>1, <2>2, <2>4, <2>6
  <2>7. CASE /\ row'[p].ledger = row[p].ledger + row'[p].paid /\ row'[p].paid # row[p].paid
             /\ row'[p].state # "absent"
    <3>1. row[p].ledger = 0  BY <2>1, <2>4, <2>7
    <3> QED BY <2>1, <2>7, <3>1
  <2>8. CASE row'[p].ledger = 0  BY <2>1, <2>8
  <2> QED BY <2>3, <2>5, <2>6, <2>7, <2>8 DEF LedgerMoves
<1>3. IInv /\ [Next]_vars => IInv'  BY Step
<1> QED BY <1>1, <1>2, <1>3, Initially, PTL DEF Spec
=============================================================================
