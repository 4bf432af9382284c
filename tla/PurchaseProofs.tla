---------------------------- MODULE PurchaseProofs ----------------------------
(***************************************************************************)
(* Theorems about the transition table and the books of a plan change, for *)
(* every set of plans, number of rows and environment: rows are well       *)
(* typed, an invoice that is marked paid was charged for, the whole flow   *)
(* implements Purchase, and when processes take turns a paid invoice stays *)
(* paid.                                                                   *)
(***************************************************************************)
EXTENDS PlanChange, TLAPS, FiniteSetTheorems

\* "The rule is symmetry": every state that may enter pending_payment can be
\* returned to from it (TRANSITIONS, QUI-676).
THEOREM SymmetricParking ==
  \A s \in States : Legal(s, Parked) => Legal(Parked, s)
BY DEF States, Transitions, Legal, Parked

\* ensureOperational finds a route from every state: its no-path error is dead
\* code as long as the table stays as it is.
THEOREM EveryStateHasRoute == \A s \in States : HasRoute(s)
BY DEF States, Transitions, Legal, HasRoute, Operational

LEMMA NamedStates ==
  /\ {"trial", "active", "cancelled", "expired", "no_plan", "grace_soft", "grace_hard", "suspended"} \subseteq States
  /\ Parked \in States /\ NoState \notin States
BY DEF States, Transitions, Parked, NoState

-----------------------------------------------------------------------------
(* Rows are numbered as they are created *)

\* A non-empty set of rows has a newest one.
LEMMA NewestIsThere ==
  ASSUME NEW n \in Nat, NEW S \in SUBSET (1..n), S # {}
  PROVE  Newest(S) \in S
<1> DEFINE T == {k \in Nat : n - k \in S}
<1>1. T # {}
  <2>1. PICK j \in S : TRUE
    OBVIOUS
  <2>2. n - j \in Nat /\ n - (n - j) = j
    BY <2>1
  <2> QED
    BY <2>1, <2>2
<1>2. PICK k \in T : \A l \in T : <<l, k>> \notin OpToRel(<, Nat)
  BY <1>1, WFMin, NatLessThanWellFounded, Zenon
<1>3. \A l \in T : ~(l < k)
  BY <1>2, Zenon DEF OpToRel
<1>4. \A j \in S : j <= n - k
  <2> SUFFICES ASSUME NEW j \in S PROVE j <= n - k
    OBVIOUS
  <2>1. n - j \in Nat /\ n - (n - j) = j
    OBVIOUS
  <2> QED
    BY <1>3, <2>1
<1>5. \E i \in S : \A j \in S : j <= i
  BY <1>4
<1> QED
  BY <1>5 DEF Newest

\* Rows without a gap are the first ones, and there is room for the next.
LEMMA RowsInOrder ==
  ASSUME NEW n \in Nat, NEW R \in SUBSET (1..n), \A i \in R : 1..i \subseteq R
  PROVE  /\ Cardinality(R) \in Nat /\ Cardinality(R) <= n
         /\ R = 1..Cardinality(R)
<1>1. /\ IsFiniteSet(R) /\ Cardinality(R) \in Nat /\ Cardinality(R) <= n
  <2>1. IsFiniteSet(1..n) /\ Cardinality(1..n) = n
    BY FS_Interval
  <2>2. IsFiniteSet(R) /\ Cardinality(R) <= n
    BY <2>1, FS_Subset
  <2> QED
    BY <2>2, FS_CardinalityType
<1>2. ASSUME NEW j \in R PROVE j <= Cardinality(R)
  <2>1. 1..j \in SUBSET R
    OBVIOUS
  <2>2. Cardinality(1..j) <= Cardinality(R)
    BY <1>1, <2>1, FS_Subset
  <2>3. Cardinality(1..j) = j
    BY FS_Interval
  <2> QED
    BY <2>2, <2>3
<1>3. ASSUME NEW j \in 1..Cardinality(R), j \notin R PROVE FALSE
  <2>1. \A i \in R : i < j
    <3> SUFFICES ASSUME NEW i \in R, ~(i < j) PROVE FALSE
      OBVIOUS
    <3>1. j \in 1..i
      OBVIOUS
    <3> QED
      BY <1>3, <3>1
  <2>2. R \in SUBSET (1..(j-1))
    BY <2>1
  <2>3. IsFiniteSet(1..(j-1)) /\ Cardinality(1..(j-1)) = j - 1
    <3>1. 1 \in Int /\ j - 1 \in Int
      OBVIOUS
    <3> QED
      BY <3>1, FS_Interval
  <2>4. Cardinality(R) <= Cardinality(1..(j-1))
    BY <2>2, <2>3, FS_Subset
  <2> QED
    BY <1>1, <2>3, <2>4
<1>4. R \subseteq 1..Cardinality(R)
  BY <1>1, <1>2
<1>5. 1..Cardinality(R) \subseteq R
  BY <1>3
<1> QED
  BY <1>1, <1>4, <1>5, Zenon

-----------------------------------------------------------------------------
(* The books: invoices and payments *)

InvoiceRow == [state: {"none", "issued", "paid", "void"}, plan: SomePlan, to: SomePlan]
PaymentRow == [state: {"none", "pending"} \union Terminal, inv: Invoices \union {NoInvoice}, by: Means]

\* Rows have no gap, and a payment is of an invoice that exists.
Books ==
  /\ inv \in [Invoices -> InvoiceRow] /\ pay \in [Payments -> PaymentRow]
  /\ \A i \in Rows(inv) : 1..i \subseteq Rows(inv)
  /\ \A p \in Rows(pay) : 1..p \subseteq Rows(pay)
  /\ \A p \in Rows(pay) : pay[p].inv \in Rows(inv)

\* The gateway took a charge for the invoice.
ChargedFor(i) == \E p \in PaymentsOf(i) : Taken(p)

\* A row stays, an invoice keeps its target plan, a payment its invoice.
Grows ==
  /\ \A i \in Rows(inv) : i \in Rows(inv)' /\ inv'[i].to = inv[i].to
  /\ \A p \in Rows(pay) : p \in Rows(pay)' /\ pay'[p].inv = pay[p].inv

\* What every step does to the books: only an invoice charged for becomes paid.
Entered ==
  /\ Books' /\ Grows
  /\ \A i \in Invoices : inv'[i].state = "paid" => inv[i].state = "paid" \/ ChargedFor(i)'

LEMMA RowsAreNumbers ==
  ASSUME Books
  PROVE  /\ Rows(inv) \in SUBSET Invoices /\ Rows(pay) \in SUBSET Payments
         /\ \A i \in Invoices : i \in Rows(inv) <=> inv[i].state # "none"
         /\ \A p \in Payments : p \in Rows(pay) <=> pay[p].state # "none"
BY DEF Books, Rows

LEMMA NextPaymentIsFree ==
  ASSUME Books, HasPaymentSlot
  PROVE  /\ NextPayment \in Payments /\ NextPayment \notin Rows(pay)
         /\ \A j \in Payments : j < NextPayment => j \in Rows(pay)
<1>1. MaxPayments \in Nat /\ Rows(pay) \in SUBSET (1..MaxPayments)
  BY BoundsAssumption, RowsAreNumbers DEF Payments
<1>2. /\ Cardinality(Rows(pay)) \in Nat
      /\ Rows(pay) = 1..Cardinality(Rows(pay))
  BY <1>1, RowsInOrder, Zenon DEF Books
<1> QED
  BY <1>1, <1>2 DEF HasPaymentSlot, NextPayment, Payments

LEMMA NextInvoiceIsFree ==
  ASSUME Books, HasSlot
  PROVE  /\ NextInvoice \in Invoices /\ NextInvoice \notin Rows(inv)
         /\ \A j \in Invoices : j < NextInvoice => j \in Rows(inv)
<1>1. MaxInvoices \in Nat /\ Rows(inv) \in SUBSET (1..MaxInvoices)
  BY BoundsAssumption, RowsAreNumbers DEF Invoices
<1>2. /\ Cardinality(Rows(inv)) \in Nat
      /\ Rows(inv) = 1..Cardinality(Rows(inv))
  BY <1>1, RowsInOrder, Zenon DEF Books
<1> QED
  BY <1>1, <1>2 DEF HasSlot, NextInvoice, Invoices

LEMMA SameBooks ==
  ASSUME Books, UNCHANGED <<inv, pay>> PROVE Entered
BY DEF Books, Entered, Grows, Rows

\* A change that keeps the rows, the target plans and the invoices of payments.
LEMMA SameRows ==
  ASSUME Books, inv' \in [Invoices -> InvoiceRow], pay' \in [Payments -> PaymentRow],
         \A i \in Invoices : (inv'[i].state = "none") = (inv[i].state = "none") /\ inv'[i].to = inv[i].to,
         \A p \in Payments : (pay'[p].state = "none") = (pay[p].state = "none") /\ pay'[p].inv = pay[p].inv
  PROVE  Books' /\ Grows
<1>1. Rows(inv)' = Rows(inv) /\ Rows(pay)' = Rows(pay)
  BY DEF Books, Rows
<1> QED
  BY <1>1, RowsAreNumbers DEF Books, Grows

LEMMA VoidEnters ==
  ASSUME Books, NEW i \in Rows(inv), inv' = Void(i), UNCHANGED pay PROVE Entered
<1>1. i \in Invoices /\ inv[i].state # "none" /\ inv \in [Invoices -> InvoiceRow]
  BY RowsAreNumbers DEF Books
<1>2. /\ inv' \in [Invoices -> InvoiceRow]
      /\ \A j \in Invoices : inv'[j].to = inv[j].to /\ (j # i => inv'[j] = inv[j])
      /\ inv'[i].state = "void"
  BY <1>1 DEF Void, InvoiceRow
<1>3. Books' /\ Grows
  BY <1>1, <1>2, SameRows DEF Books
<1> QED
  BY <1>2, <1>3 DEF Entered

LEMMA SettleEnters ==
  ASSUME Books, NEW p \in Rows(pay), Settle(p), Taken(p)'
  PROVE  Entered /\ \A i : i = pay[p].inv => ChargedFor(i)'
<1>0. PICK i \in Rows(inv) : i = pay[p].inv
  BY DEF Books
<1>1. /\ p \in Payments /\ pay[p].state # "none" /\ pay \in [Payments -> PaymentRow]
      /\ i \in Invoices /\ inv[i].state # "none" /\ inv \in [Invoices -> InvoiceRow]
  BY RowsAreNumbers DEF Books
<1>2. /\ inv' \in [Invoices -> InvoiceRow]
      /\ \A j \in Invoices : inv'[j].to = inv[j].to /\ (j # i => inv'[j] = inv[j])
      /\ inv'[i].state = "paid"
  BY <1>0, <1>1 DEF Settle, InvoiceRow
<1>3. /\ pay' \in [Payments -> PaymentRow]
      /\ \A q \in Payments : pay'[q].inv = pay[q].inv /\ (q # p => pay'[q] = pay[q])
      /\ pay'[p].state = "succeeded"
  BY <1>1 DEF Settle, PaymentRow, Terminal
<1>4. Books' /\ Grows
  BY <1>1, <1>2, <1>3, SameRows
<1>5. ChargedFor(i)'
  BY <1>0, <1>1, <1>3 DEF ChargedFor, PaymentsOf
<1> QED
  BY <1>0, <1>2, <1>4, <1>5 DEF Entered

LEMMA FailureEnters ==
  ASSUME Books, NEW p \in Rows(pay), ChargeFailure(p) PROVE Entered
<1>1. p \in Payments /\ pay[p].state # "none" /\ pay \in [Payments -> PaymentRow]
  BY RowsAreNumbers DEF Books
<1>2. /\ pay' \in [Payments -> PaymentRow]
      /\ \A q \in Payments : pay'[q].inv = pay[q].inv /\ (q # p => pay'[q] = pay[q])
      /\ pay'[p].state = "failed"
  BY <1>1 DEF ChargeFailure, PaymentRow, Terminal
<1>3. inv' = inv
  BY DEF ChargeFailure
<1>4. Books' /\ Grows
  BY <1>1, <1>2, <1>3, SameRows DEF Books
<1> QED
  BY <1>3, <1>4 DEF Entered

\* A new payment, of whatever state, on an invoice that exists.
LEMMA NewPaymentKeepsBooks ==
  ASSUME Books, HasPaymentSlot, NEW i \in Rows(inv), NEW s \in {"pending", "succeeded", "failed"},
         NEW by \in Means, pay' = [pay EXCEPT ![NextPayment] = [state |-> s, inv |-> i, by |-> by]],
         inv' \in [Invoices -> InvoiceRow],
         \A j \in Invoices : (inv'[j].state = "none") = (inv[j].state = "none") /\ inv'[j].to = inv[j].to
  PROVE  Books' /\ Grows
<1> DEFINE n == NextPayment
<1>1. n \in Payments /\ n \notin Rows(pay) /\ \A j \in Payments : j < n => j \in Rows(pay)
  BY NextPaymentIsFree
<1>2. i \in Invoices /\ Rows(inv)' = Rows(inv)
  BY RowsAreNumbers DEF Books, Rows
<1>3. pay' \in [Payments -> PaymentRow]
  BY <1>1, <1>2 DEF Books, PaymentRow, Terminal
<1>4. pay'[n].inv = i /\ pay'[n].state # "none" /\ \A q \in Payments : q # n => pay'[q] = pay[q]
  BY <1>1 DEF Books
<1>5. Rows(pay)' = Rows(pay) \union {n}
  BY <1>1, <1>3, <1>4, RowsAreNumbers DEF Books, Rows
<1>6. 1..n \subseteq Rows(pay)'
  <2> SUFFICES ASSUME NEW j \in 1..n PROVE j \in Rows(pay)'
    OBVIOUS
  <2>1. MaxPayments \in Nat /\ n \in 1..MaxPayments
    BY <1>1, BoundsAssumption DEF Payments
  <2> HIDE DEF n
  <2>2. j \in 1..MaxPayments /\ (j = n \/ j < n)
    BY <2>1
  <2> QED
    BY <1>1, <1>5, <2>2 DEF Payments
<1> QED
  BY <1>1, <1>2, <1>3, <1>4, <1>5, <1>6, RowsAreNumbers DEF Books, Grows

LEMMA ChargeEnters ==
  ASSUME Books, HasPaymentSlot, NEW i \in Rows(inv), Charge(i), UNCHANGED inv PROVE Entered
<1>1. Books' /\ Grows
  BY NewPaymentKeepsBooks DEF Charge, Books, Means
<1> QED
  BY <1>1 DEF Entered

LEMMA NewestIssued ==
  ASSUME Books, Issued # {} PROVE Newest(Issued) \in Rows(inv)
<1>1. MaxInvoices \in Nat /\ Issued \in SUBSET (1..MaxInvoices)
  BY BoundsAssumption DEF Issued, Invoices
<1>2. Newest(Issued) \in Issued
  BY <1>1, NewestIsThere
<1> QED
  BY <1>2, RowsAreNumbers DEF Issued

LEMMA LastPayment ==
  ASSUME Books, NEW i, PaymentsOf(i) # {}
  PROVE  Last(i) \in Rows(pay) /\ pay[Last(i)].inv = i /\ Last(i) \in PaymentsOf(i)
<1>1. MaxPayments \in Nat /\ PaymentsOf(i) \in SUBSET (1..MaxPayments)
  BY BoundsAssumption DEF PaymentsOf, Payments
<1>2. Newest(PaymentsOf(i)) \in PaymentsOf(i)
  BY <1>1, NewestIsThere
<1> QED
  BY <1>2, RowsAreNumbers DEF PaymentsOf, Last

\* An emission reuses an open invoice or adds one; what it replaces is voided.
LEMMA IssueEnters ==
  ASSUME Books, NEW i \in Invoices, NEW onPlan \in SomePlan, NEW to \in SomePlan, NEW prorated,
         Issue(i, onPlan, to, prorated)
  PROVE  Entered /\ i \in Rows(inv)'
<1>1. CASE Reusable(prorated) # {}
  <2>1. i \in Reusable(prorated) /\ UNCHANGED <<inv, pay>>
    BY <1>1 DEF Issue
  <2>2. Issued # {} /\ i = Newest(Issued)
    BY <1>1, <2>1 DEF Reusable
  <2> QED
    BY <2>1, <2>2, NewestIssued, SameBooks DEF Rows
<1>2. CASE Reusable(prorated) = {}
  <2>1. /\ HasSlot /\ i = NextInvoice
        /\ inv' = [j \in Invoices |->
                     IF j = i THEN [state |-> "issued", plan |-> onPlan, to |-> to]
                     ELSE IF j \in Replaced(prorated) THEN [inv[j] EXCEPT !.state = "void"]
                     ELSE inv[j]]
        /\ pay' = [p \in Payments |->
                     IF pay[p].state = "pending" /\ pay[p].inv \in Replaced(prorated)
                     THEN [pay[p] EXCEPT !.state = "failed"] ELSE pay[p]]
    BY <1>2, Zenon DEF Issue
  <2>2. i \notin Rows(inv) /\ \A j \in Invoices : j < i => j \in Rows(inv)
    BY <2>1, NextInvoiceIsFree
  <2>3. Replaced(prorated) \subseteq Rows(inv)
    BY NewestIssued DEF Replaced
  <2>4. /\ inv' \in [Invoices -> InvoiceRow] /\ inv'[i].state = "issued"
        /\ \A j \in Invoices : j # i => /\ (inv'[j].state = "none") = (inv[j].state = "none")
                                        /\ inv'[j].to = inv[j].to
                                        /\ inv'[j].state = "paid" => inv[j].state = "paid"
    BY <2>1, <2>3, RowsAreNumbers DEF Books, InvoiceRow
  <2>5. /\ pay' \in [Payments -> PaymentRow]
        /\ \A p \in Payments : (pay'[p].state = "none") = (pay[p].state = "none") /\ pay'[p].inv = pay[p].inv
    BY <2>1 DEF Books, PaymentRow, Terminal
  <2>6. Rows(inv)' = Rows(inv) \union {i} /\ Rows(pay)' = Rows(pay)
    BY <2>4, <2>5, RowsAreNumbers DEF Books, Rows
  <2>7. 1..i \subseteq Rows(inv)'
    <3>1. MaxInvoices \in Nat /\ i \in 1..MaxInvoices
      BY BoundsAssumption DEF Invoices
    <3> SUFFICES ASSUME NEW j \in 1..i PROVE j \in Rows(inv)'
      OBVIOUS
    <3>2. j \in 1..MaxInvoices /\ (j = i \/ j < i)
      BY <3>1
    <3> QED
      BY <2>2, <2>6, <3>2 DEF Invoices
  <2>8. Books' /\ Grows
    BY <2>2, <2>4, <2>5, <2>6, <2>7, RowsAreNumbers DEF Books, Grows
  <2> QED
    BY <2>4, <2>6, <2>8 DEF Entered
<1> QED
  BY <1>1, <1>2

-----------------------------------------------------------------------------
(* The row of the store *)

\* The three pending columns are set and cleared together, and name an invoice
\* that exists.
RowSound ==
  /\ state \in States /\ revert \in States \union {NoState}
  /\ plan \in SomePlan /\ paid \in SomePlan /\ pending \in SomePlan
  /\ pinv \in Rows(inv) \union {NoInvoice}
  /\ (pinv = NoInvoice) = (pending = NoPlan) /\ (pinv = NoInvoice) = (revert = NoState)

\* paid_plan_id is kept, or becomes the target of an invoice charged for.
Granted ==
  paid' = paid \/ \E i \in Rows(inv) : ChargedFor(i)' /\ paid' = inv[i].to /\ paid' \in Plans

\* What every step does to the row and the books.
StepSound == Entered /\ RowSound' /\ Granted

LEMMA PendingKeptIsSound ==
  ASSUME RowSound, Grows, KeepPending, state' \in States, plan' \in SomePlan, paid' \in SomePlan
  PROVE  RowSound'
BY DEF RowSound, Grows, KeepPending

LEMMA PendingClearedIsSound ==
  ASSUME RowSound, ClearPending, state' \in States, plan' \in SomePlan, paid' \in SomePlan
  PROVE  RowSound'
BY PlansAssumption DEF RowSound, ClearPending, SomePlan

LEMMA OperateIsSound == ASSUME RowSound, Operate PROVE state' \in States
BY NamedStates DEF RowSound, Operate

LEMMA ConfirmIsSound ==
  ASSUME RowSound, Grows, NEW i \in Rows(inv), ChargedFor(i)', Confirm(i)
  PROVE  RowSound' /\ Granted
<1>1. CASE Matches(i)
  <2>1. /\ plan' = pending /\ paid' = pending /\ ClearPending /\ Operate
        /\ pending # NoPlan /\ pending = inv[i].to /\ pending \in Plans
    BY <1>1 DEF Confirm, Matches, RowSound, SomePlan
  <2>2. RowSound'
    BY <2>1, OperateIsSound, PendingClearedIsSound DEF SomePlan
  <2> QED
    BY <2>1, <2>2 DEF Granted
<1>2. CASE ~Matches(i)
  BY <1>2, PendingKeptIsSound DEF Confirm, row, KeepPending, RowSound, Granted
<1> QED
  BY <1>1, <1>2

LEMMA SuccessIsSound ==
  ASSUME Books, RowSound, NEW p \in Rows(pay), Taken(p)', ChargeSuccess(p)
  PROVE  StepSound
<1>0. PICK i \in Rows(inv) : i = pay[p].inv
  BY DEF Books
<1>1. Entered /\ ChargedFor(i)'
  BY <1>0, SettleEnters DEF ChargeSuccess
<1>2. CASE inv[i].to # NoPlan
  <2>1. Confirm(i)
    BY <1>0, <1>2 DEF ChargeSuccess
  <2> QED
    BY <1>1, <2>1, ConfirmIsSound DEF StepSound, Entered
<1>3. CASE inv[i].to = NoPlan
  <2>1. Operate /\ UNCHANGED <<plan, paid, pending, pinv, revert>>
    BY <1>0, <1>3 DEF ChargeSuccess
  <2> QED
    BY <1>1, <2>1, OperateIsSound, PendingKeptIsSound DEF StepSound, Entered, KeepPending, RowSound, Granted
<1> QED
  BY <1>2, <1>3

LEMMA FailureIsSound ==
  ASSUME Books, RowSound, NEW p \in Rows(pay), ChargeFailure(p)
  PROVE  StepSound
<1>1. Entered /\ UNCHANGED <<plan, paid>>
  BY FailureEnters DEF ChargeFailure
<1>2. state' \in States /\ (ClearPending \/ KeepPending)
  BY DEF ChargeFailure, RowSound, KeepPending
<1>3. RowSound'
  BY <1>1, <1>2, PendingKeptIsSound, PendingClearedIsSound DEF Entered, RowSound
<1> QED
  BY <1>1, <1>3 DEF StepSound, Granted

LEMMA CreditIsSound ==
  ASSUME Books, RowSound, NEW i \in Rows(inv), Credited(i), UNCHANGED txns, Credit(i)
  PROVE  StepSound
<1>1. PICK p \in Rows(pay) : p = Last(i) /\ pay[p].inv = i /\ "approved" \in txns[p]
  BY LastPayment DEF Credited, Answered
<1>0. Taken(p)'
  BY <1>1 DEF Taken
<1>2. CASE inv[i].state = "void" /\ inv[i].to = NoPlan
  BY <1>0, <1>1, <1>2, SuccessIsSound DEF Credit, ReopenAndConfirm
<1>3. CASE inv[i].state = "void" /\ inv[i].to # NoPlan
  <2>1. /\ Settle(p) /\ ClearPending /\ Operate
        /\ plan' = inv[i].to /\ paid' = inv[i].to
    BY <1>1, <1>3 DEF Credit, ReopenAndConfirm
  <2>2. inv[i].to \in Plans
    BY <1>3, RowsAreNumbers DEF Books, InvoiceRow, SomePlan
  <2>3. Entered /\ ChargedFor(i)'
    BY <1>0, <1>1, <2>1, SettleEnters
  <2>4. RowSound'
    BY <2>1, <2>2, OperateIsSound, PendingClearedIsSound DEF SomePlan
  <2> QED
    BY <2>1, <2>2, <2>3, <2>4 DEF StepSound, Granted
<1>4. CASE inv[i].state # "void"
  <2>1. Settle(p)
    BY <1>1, <1>4 DEF Credit
  <2>2. Entered /\ ChargedFor(i)'
    BY <1>0, <1>1, <2>1, SettleEnters
  <2>3. CASE inv[i].to # NoPlan /\ Matches(i)
    BY <1>4, <2>2, <2>3, ConfirmIsSound DEF Credit, StepSound, Entered
  <2>4. CASE ~(inv[i].to # NoPlan /\ Matches(i))
    BY <1>4, <2>2, <2>4, NamedStates, PendingKeptIsSound
       DEF Credit, StepSound, Entered, KeepPending, RowSound, Granted
  <2> QED
    BY <2>3, <2>4
<1> QED
  BY <1>2, <1>3, <1>4

-----------------------------------------------------------------------------
(* The gateway, and what each process carries *)

\* A reference is answered only once its payment exists.
GateSound ==
  /\ txns \in [Payments -> SUBSET Statuses] /\ sealed \subseteq Payments \X Answers
  /\ \A p \in Payments : txns[p] # {} => p \in Rows(pay)

CheckoutSound ==
  ck = Idle \/ /\ ck \in Checkouts
               /\ ck.pc \in {"void", "stamp", "widget"} => ck.inv \in Rows(inv)
CancelSound ==
  cx = Idle \/ /\ cx \in [pc: {"read"}, pinv: Invoices \union {NoInvoice}, revert: States]
               /\ cx.pinv \in Rows(inv) \union {NoInvoice}
HookSound ==
  hook = Idle \/ /\ hook \in [pc: {"read", "done"}, pay: Payments, answer: Answers, live: BOOLEAN]
                 /\ hook.answer \in txns[hook.pay]
\* The job confirms an invoice only when it read it as paid.
JobSound ==
  rec = Idle \/ /\ rec \in [pc: {"selected", "void"}, inv: Invoices, seen: {"issued", "paid", "void"},
                            revert: States \union {NoState}]
                /\ rec.inv \in Rows(inv) /\ (rec.seen = "paid" => ChargedFor(rec.inv))

Ledger ==
  /\ Books /\ RowSound /\ GateSound /\ PaidInvoiceWasTaken
  /\ CheckoutSound /\ CancelSound /\ HookSound /\ JobSound

\* The gateway does not take an answer back.
AnswersGrow == \A p \in Rows(pay) : txns[p] \subseteq txns'[p]

\* A step keeps the books, and each process keeps or renews what it carries.
LedgerStep ==
  /\ StepSound /\ GateSound' /\ AnswersGrow
  /\ ck' = ck \/ CheckoutSound'
  /\ cx' = cx \/ CancelSound'
  /\ hook' = hook \/ HookSound'
  /\ rec' = rec \/ JobSound'
QuietStep == LedgerStep /\ UNCHANGED txns

LEMMA ChargeStays ==
  ASSUME Books, Entered, AnswersGrow, NEW i, ChargedFor(i) PROVE ChargedFor(i)'
<1>1. PICK p \in PaymentsOf(i) : Taken(p)
  BY DEF ChargedFor
<1>2. p \in Rows(pay) /\ pay[p].inv = i
  BY <1>1, RowsAreNumbers DEF PaymentsOf
<1>3. p \in Rows(pay)' /\ pay'[p].inv = i
  BY <1>2 DEF Entered, Grows
<1>4. p \in PaymentsOf(i)'
  BY <1>3 DEF PaymentsOf, Rows, Entered, Books
<1>5. Taken(p)'
  BY <1>1, <1>2 DEF AnswersGrow, Taken
<1> QED
  BY <1>4, <1>5 DEF ChargedFor

LEMMA StepKeepsLedger == ASSUME Ledger, LedgerStep PROVE Ledger'
<1>1. Books /\ Entered /\ Books' /\ RowSound' /\ GateSound' /\ AnswersGrow /\ Grows
  BY DEF Ledger, LedgerStep, StepSound, Entered
<1>2. PaidInvoiceWasTaken'
  <2> SUFFICES ASSUME NEW i \in Invoices, inv'[i].state = "paid" PROVE ChargedFor(i)'
    BY DEF PaidInvoiceWasTaken, ChargedFor
  <2>1. CASE inv[i].state = "paid"
    <3>1. ChargedFor(i)
      BY <2>1 DEF Ledger, PaidInvoiceWasTaken, ChargedFor
    <3> QED
      BY <1>1, <3>1, ChargeStays
  <2>2. CASE inv[i].state # "paid"
    BY <1>1, <2>2 DEF Entered
  <2> QED
    BY <2>1, <2>2
<1>3. \A i \in Rows(inv) : i \in Rows(inv)'
  BY <1>1 DEF Grows
<1>4. CheckoutSound'
  BY <1>3 DEF Ledger, LedgerStep, CheckoutSound
<1>5. CancelSound'
  BY <1>3 DEF Ledger, LedgerStep, CancelSound
<1>6. HookSound'
  <2>1. ASSUME hook' = hook, hook # Idle PROVE hook.answer \in txns'[hook.pay]
    <3>1. hook.pay \in Payments /\ hook.answer \in txns[hook.pay]
      BY <2>1 DEF Ledger, HookSound
    <3>2. hook.pay \in Rows(pay)
      BY <3>1 DEF Ledger, GateSound
    <3> QED
      BY <1>1, <3>1, <3>2 DEF AnswersGrow
  <2> QED
    BY <2>1 DEF Ledger, LedgerStep, HookSound
<1>7. JobSound'
  <2>1. CASE rec' = rec /\ rec # Idle
    <3>1. PICK i : i = rec.inv
      OBVIOUS
    <3>2. i \in Rows(inv)' /\ (rec.seen = "paid" => ChargedFor(i)')
      BY <1>1, <1>3, <2>1, <3>1, ChargeStays DEF Ledger, JobSound
    <3>3. rec'.inv = i
      BY <2>1, <3>1
    <3>4. rec'.seen = "paid" => ChargedFor(rec.inv)'
      BY <2>1, <3>2, <3>3 DEF ChargedFor
    <3> QED
      BY <2>1, <3>2, <3>3, <3>4 DEF Ledger, JobSound
  <2> QED
    BY <2>1 DEF Ledger, LedgerStep, JobSound
<1> QED
  BY <1>1, <1>2, <1>4, <1>5, <1>6, <1>7 DEF Ledger

\* A step that the gateway has no part in.
LEMMA QuietGate ==
  ASSUME Ledger, Entered, UNCHANGED txns, sealed' \subseteq Payments \X Answers
  PROVE  GateSound' /\ AnswersGrow
BY DEF Ledger, GateSound, AnswersGrow, Entered, Grows

\* A step that leaves row and books alone.
LEMMA RowsKept == ASSUME Ledger, UNCHANGED rows PROVE StepSound
<1>1. Entered
  BY SameBooks DEF Ledger, rows
<1>2. RowSound' /\ Granted
  BY DEF Ledger, rows, row, RowSound, Rows, Granted
<1> QED
  BY <1>1, <1>2 DEF StepSound

-----------------------------------------------------------------------------
(* The checkout *)

LEMMA CommitReadQuiet ==
  ASSUME Ledger, NEW to \in Plans, NEW live \in BOOLEAN, CommitRead(to, live)
  PROVE  QuietStep
<1>1. UNCHANGED <<rows, txns, cx, hook, rec, sealed>>
  BY DEF CommitRead
<1>2. StepSound
  BY <1>1, RowsKept
<1>3. CheckoutSound'
  <2>1. PICK pc, kind, assign, prorated, i :
          /\ ck' = [pc |-> pc, to |-> to, kind |-> kind, from |-> state, assign |-> assign,
                    prorated |-> prorated, inv |-> i]
          /\ pc \in {"void", "park", "assign", "issue", "widget"}
          /\ kind \in {"park", "resume", "mid"} /\ assign \in BOOLEAN /\ prorated \in BOOLEAN
          /\ i \in {pinv, NoInvoice} /\ (pc \in {"void", "widget"} => i = pinv /\ pinv # NoInvoice)
    <3> DEFINE kind == IF state \in {"cancelled", "expired", "no_plan"} \/ (state = "trial" /\ live) THEN "park"
                       ELSE IF state = Parked THEN "resume" ELSE "mid"
               from == IF paid = NoPlan THEN plan ELSE paid
               retried == pending = to /\ pinv # NoInvoice /\ inv[pinv].state = "issued"
               stale == pending \notin {NoPlan, to} /\ pinv # NoInvoice
               pc == IF retried THEN "widget" ELSE IF stale THEN "void" ELSE First(kind, plan # to)
               prorated == kind = "mid" /\ state # "trial" /\ <<from, to>> \in Upgrades
               i == IF retried \/ stale THEN pinv ELSE NoInvoice
    <3>1. ck' = [pc |-> pc, to |-> to, kind |-> kind, from |-> state, assign |-> plan # to,
                 prorated |-> prorated, inv |-> i]
      BY Zenon DEF CommitRead
    <3>2. kind \in {"park", "resume", "mid"} /\ (plan # to) \in BOOLEAN /\ prorated \in BOOLEAN
      OBVIOUS
    <3>3. First(kind, plan # to) \in {"park", "assign", "issue"}
      BY <3>2 DEF First
    <3>4. /\ pc \in {"void", "park", "assign", "issue", "widget"}
          /\ i \in {pinv, NoInvoice} /\ (pc \in {"void", "widget"} => i = pinv /\ pinv # NoInvoice)
      <4> HIDE DEF kind, prorated
      <4> QED
        BY <3>3
    <3> HIDE DEF pc, kind, prorated, i
    <3> QED
      BY <3>1, <3>2, <3>4, Zenon
  <2>2. pinv \in Rows(inv) \union {NoInvoice} /\ state \in States /\ Rows(inv)' = Rows(inv)
        /\ Rows(inv) \subseteq Invoices
    BY <1>1, RowsAreNumbers DEF Ledger, RowSound, rows, Rows
  <2>3. ck' \in Checkouts
    BY <2>1, <2>2 DEF Checkouts
  <2> QED
    BY <2>1, <2>2, <2>3 DEF CheckoutSound
<1> QED
  BY <1>1, <1>2, <1>3, QuietGate DEF QuietStep, LedgerStep, StepSound, Ledger, GateSound

\* A request that goes on is still sound.
LEMMA CheckoutNext ==
  ASSUME Ledger, Entered, ck # Idle,
         NEW pc \in {"void", "park", "assign", "issue", "stamp", "widget"},
         NEW i \in Invoices \union {NoInvoice},
         ck' = [ck EXCEPT !.pc = pc, !.inv = i],
         pc \in {"void", "stamp", "widget"} => i \in Rows(inv)'
  PROVE  CheckoutSound'
<1>1. ck \in Checkouts
  BY DEF Ledger, CheckoutSound
<1>2. ck' \in Checkouts /\ ck'.pc = pc /\ ck'.inv = i
  BY <1>1 DEF Checkouts
<1> QED
  BY <1>2 DEF CheckoutSound

\* What is known of a request under way.
LEMMA CheckoutKnows ==
  ASSUME Ledger, NEW pcs, ck.pc \in pcs, "idle" \notin pcs
  PROVE  /\ ck # Idle /\ ck \in Checkouts
         /\ ck.pc \in {"void", "stamp", "widget"} => ck.inv \in Rows(inv)
         /\ ck.to \in Plans /\ ck.from \in States /\ ck.inv \in Invoices \union {NoInvoice}
         /\ First(ck.kind, ck.assign) \in {"park", "assign", "issue"}
<1>1. ck # Idle
  BY DEF Idle
<1>2. ck \in Checkouts /\ (ck.pc \in {"void", "stamp", "widget"} => ck.inv \in Rows(inv))
  BY <1>1 DEF Ledger, CheckoutSound
<1> QED
  BY <1>1, <1>2 DEF Checkouts, First

LEMMA CommitVoidQuiet == ASSUME Ledger, CommitVoid PROVE QuietStep
<1>1. ck # Idle /\ ck.inv \in Rows(inv) /\ First(ck.kind, ck.assign) \in {"park", "assign", "issue"}
  BY CheckoutKnows DEF CommitVoid
<1>2. Entered
  BY <1>1, VoidEnters DEF CommitVoid, Ledger
<1>3. RowSound' /\ Granted
  BY PendingClearedIsSound DEF CommitVoid, Ledger, RowSound, Granted
<1>4. CheckoutSound'
  BY <1>1, <1>2, CheckoutNext DEF CommitVoid
<1> QED
  BY <1>2, <1>3, <1>4, QuietGate DEF CommitVoid, QuietStep, LedgerStep, StepSound, Ledger, GateSound

LEMMA CommitParkQuiet == ASSUME Ledger, CommitPark PROVE QuietStep
<1>1. ck # Idle /\ ck \in Checkouts /\ ck.inv \in Invoices \union {NoInvoice}
  BY CheckoutKnows DEF CommitPark
<1>2. Entered
  BY SameBooks DEF CommitPark, Ledger
<1>3. RowSound' /\ Granted
  BY <1>2, NamedStates, PendingKeptIsSound DEF CommitPark, Park, Ledger, RowSound, Granted, KeepPending, Entered
<1>4. CheckoutSound'
  <2>1. ck' = Idle \/ ck' = [ck EXCEPT !.pc = "assign", !.inv = ck.inv]
    BY <1>1 DEF CommitPark, Checkouts
  <2> QED
    BY <1>1, <1>2, <2>1, CheckoutNext DEF CheckoutSound
<1> QED
  BY <1>2, <1>3, <1>4, QuietGate DEF CommitPark, QuietStep, LedgerStep, StepSound, Ledger, GateSound

LEMMA CommitAssignQuiet == ASSUME Ledger, CommitAssign PROVE QuietStep
<1>1. ck # Idle /\ ck \in Checkouts /\ ck.to \in Plans /\ ck.inv \in Invoices \union {NoInvoice}
  BY CheckoutKnows DEF CommitAssign
<1>2. Entered
  BY SameBooks DEF CommitAssign, Ledger
<1>3. RowSound' /\ Granted
  BY <1>1, <1>2, PendingKeptIsSound
     DEF CommitAssign, Ledger, RowSound, Granted, KeepPending, Entered, SomePlan
<1>4. CheckoutSound'
  <2>1. ck' = [ck EXCEPT !.pc = "issue", !.inv = ck.inv]
    BY <1>1 DEF CommitAssign, Checkouts
  <2> QED
    BY <1>1, <1>2, <2>1, CheckoutNext
<1> QED
  BY <1>2, <1>3, <1>4, QuietGate DEF CommitAssign, QuietStep, LedgerStep, StepSound, Ledger, GateSound

LEMMA CommitIssueQuiet == ASSUME Ledger, CommitIssue PROVE QuietStep
<1>1. ck # Idle /\ ck.to \in SomePlan /\ plan \in SomePlan
  BY CheckoutKnows DEF CommitIssue, SomePlan, Ledger, RowSound
<1>2. PICK i \in Invoices :
        /\ Issue(i, IF ck.kind = "mid" /\ ~ck.prorated THEN ck.to ELSE plan, ck.to, ck.prorated)
        /\ ck' = [ck EXCEPT !.pc = "stamp", !.inv = i]
  BY DEF CommitIssue
<1>3. Entered /\ i \in Rows(inv)'
  <2>1. (IF ck.kind = "mid" /\ ~ck.prorated THEN ck.to ELSE plan) \in SomePlan
    BY <1>1
  <2> QED
    BY <1>1, <1>2, <2>1, IssueEnters, Zenon DEF Ledger
<1>4. UNCHANGED <<row, txns, cx, hook, rec, sealed>>
  BY DEF CommitIssue
<1>5. RowSound' /\ Granted
  BY <1>3, <1>4, PendingKeptIsSound DEF row, Ledger, RowSound, Granted, KeepPending, Entered
<1>6. CheckoutSound'
  BY <1>1, <1>2, <1>3, CheckoutNext
<1> QED
  BY <1>3, <1>4, <1>5, <1>6, QuietGate DEF QuietStep, LedgerStep, StepSound, Ledger, GateSound

LEMMA CommitStampQuiet == ASSUME Ledger, CommitStamp PROVE QuietStep
<1>1. /\ ck # Idle /\ ck \in Checkouts /\ ck.to \in Plans /\ ck.from \in States
      /\ ck.inv \in Rows(inv) /\ ck.inv \in Invoices
  BY CheckoutKnows, RowsAreNumbers DEF CommitStamp, Ledger
<1>2. Entered
  BY SameBooks DEF CommitStamp, Ledger
<1>3. state' \in States /\ UNCHANGED <<plan, paid, inv, pay, txns, cx, hook, rec, sealed>>
  BY NamedStates DEF CommitStamp, Park, Ledger, RowSound
<1>4. \/ KeepPending /\ ck' = Idle
      \/ /\ \E back \in States : StampPending(ck.to, ck.inv, back)
         /\ ck' = [ck EXCEPT !.pc = "widget"]
  BY <1>1, NamedStates DEF CommitStamp, WayBack
<1>5. RowSound'
  <2>1. CASE KeepPending
    BY <1>2, <1>3, <2>1, PendingKeptIsSound DEF Ledger, RowSound, Entered
  <2>2. CASE \E back \in States : StampPending(ck.to, ck.inv, back)
    <3>1. ck.inv # NoInvoice /\ ck.to # NoPlan /\ NoState \notin States
      BY <1>1, BoundsAssumption, PlansAssumption, NamedStates DEF Invoices, NoInvoice
    <3> QED
      BY <1>1, <1>3, <2>2, <3>1 DEF Ledger, RowSound, StampPending, SomePlan, Rows
  <2> QED
    BY <1>4, <2>1, <2>2
<1>6. CheckoutSound'
  <2>1. ck' = Idle \/ ck' = [ck EXCEPT !.pc = "widget", !.inv = ck.inv]
    BY <1>1, <1>4 DEF Checkouts
  <2>2. ck.inv \in Rows(inv)'
    BY <1>1, <1>2 DEF Entered, Grows
  <2>3. PICK i : i = ck.inv
    OBVIOUS
  <2> QED
    BY <1>1, <1>2, <2>1, <2>2, <2>3, CheckoutNext DEF CheckoutSound
<1> QED
  BY <1>2, <1>3, <1>5, <1>6, QuietGate DEF QuietStep, LedgerStep, StepSound, Granted, Ledger, GateSound

LEMMA CommitWidgetQuiet == ASSUME Ledger, CommitWidget PROVE QuietStep
<1>1. ck.inv \in Rows(inv)
  BY CheckoutKnows DEF CommitWidget
<1>2. Entered
  BY <1>1, SameBooks, ChargeEnters DEF CommitWidget, Ledger
<1>3. RowSound' /\ Granted
  BY <1>2, PendingKeptIsSound DEF CommitWidget, row, Ledger, RowSound, Granted, KeepPending, Entered
<1> QED
  BY <1>2, <1>3, QuietGate
     DEF CommitWidget, QuietStep, LedgerStep, StepSound, CheckoutSound, Ledger, GateSound

LEMMA CommitDiesQuiet == ASSUME Ledger, CommitDies PROVE QuietStep
BY RowsKept, QuietGate DEF CommitDies, QuietStep, LedgerStep, StepSound, CheckoutSound, Ledger, GateSound

LEMMA RetryPaymentQuiet == ASSUME Ledger, RetryPayment PROVE QuietStep
<1>1. Entered
  BY NewestIssued, ChargeEnters DEF RetryPayment, Ledger
<1>2. RowSound' /\ Granted
  BY <1>1, PendingKeptIsSound DEF RetryPayment, row, Ledger, RowSound, Granted, KeepPending, Entered
<1> QED
  BY <1>1, <1>2, QuietGate DEF RetryPayment, procs, QuietStep, LedgerStep, StepSound, Ledger, GateSound

-----------------------------------------------------------------------------
(* The cancellation of a change *)

LEMMA CancelReadQuiet == ASSUME Ledger, CancelRead PROVE QuietStep
<1>1. StepSound
  BY RowsKept DEF CancelRead
<1>2. CancelSound'
  <2>1. PICK back \in States : cx' = [pc |-> "read", pinv |-> pinv, revert |-> back]
    BY NamedStates DEF CancelRead, Ledger, RowSound
  <2>2. pinv \in Rows(inv)' \union {NoInvoice} /\ pinv \in Invoices \union {NoInvoice}
    BY RowsAreNumbers DEF CancelRead, rows, Rows, Ledger, RowSound
  <2> QED
    BY <2>1, <2>2 DEF CancelSound
<1> QED
  BY <1>1, <1>2, QuietGate DEF CancelRead, QuietStep, LedgerStep, StepSound, Ledger, GateSound

LEMMA CancelCommitQuiet == ASSUME Ledger, CancelCommit PROVE QuietStep
<1>1. cx # Idle
  BY DEF CancelCommit, Idle
<1>2. cx.revert \in States /\ cx.pinv \in Rows(inv) \union {NoInvoice}
  BY <1>1 DEF Ledger, CancelSound
<1>3. Entered
  <2>1. UNCHANGED pay /\ (UNCHANGED inv \/ (cx.pinv # NoInvoice /\ inv' = Void(cx.pinv)))
    BY DEF CancelCommit
  <2> QED
    BY <1>2, <2>1, VoidEnters, SameBooks DEF Ledger
<1>4. /\ UNCHANGED <<plan, paid>> /\ state' \in States
      /\ ClearPending \/ KeepPending
  BY <1>2 DEF CancelCommit, KeepPending, Ledger, RowSound
<1>5. RowSound' /\ Granted
  BY <1>3, <1>4, PendingKeptIsSound, PendingClearedIsSound DEF Ledger, RowSound, Granted, Entered
<1> QED
  BY <1>3, <1>5, QuietGate DEF CancelCommit, CancelSound, QuietStep, LedgerStep, StepSound, Ledger, GateSound

-----------------------------------------------------------------------------
(* The gateway and its webhook *)

\* The gateway decides a reference it was given.
Decides(p, a) == WidgetPays(p, a) \/ CardSettles(p, a)

LEMMA DecidesSound ==
  ASSUME Ledger, NEW p \in Payments, NEW a \in Answers, Decides(p, a)
  PROVE  LedgerStep /\ p \in Rows(pay) /\ UNCHANGED rows
<1>1. UNCHANGED <<rows, procs, sealed>> /\ txns' = [txns EXCEPT ![p] = @ \union {a}]
  BY DEF Decides, WidgetPays, CardSettles
<1>2. StepSound /\ p \in Rows(pay)
  BY <1>1, RowsKept, RowsAreNumbers DEF Decides, WidgetPays, CardSettles, Ledger, GateSound
<1>3. /\ txns' \in [Payments -> SUBSET Statuses]
      /\ \A q \in Payments : txns[q] \subseteq txns'[q] /\ (q # p => txns'[q] = txns[q])
  BY <1>1 DEF Ledger, GateSound, Statuses
<1>4. Rows(pay)' = Rows(pay)
  BY <1>1 DEF rows, Rows
<1>5. GateSound' /\ AnswersGrow
  BY <1>1, <1>2, <1>3, <1>4, RowsAreNumbers DEF Ledger, GateSound, AnswersGrow
<1> QED
  BY <1>1, <1>2, <1>5 DEF procs, LedgerStep

LEMMA HookReadQuiet ==
  ASSUME Ledger, NEW p \in Payments, NEW a \in Answers, HookRead(p, a)
  PROVE  QuietStep
<1>1. StepSound
  BY RowsKept DEF HookRead
<1>2. HookSound'
  <2>1. PICK live \in BOOLEAN : hook' = [pc |-> "read", pay |-> p, answer |-> a, live |-> live]
    BY DEF HookRead
  <2>2. a \in txns'[p]
    BY DEF HookRead
  <2> QED
    BY <2>1, <2>2 DEF HookSound
<1> QED
  BY <1>1, <1>2, QuietGate DEF HookRead, QuietStep, LedgerStep, StepSound, Ledger, GateSound

\* The payment a worker is at work on exists.
LEMMA HookKnows ==
  ASSUME Ledger, hook # Idle
  PROVE  /\ hook \in [pc: {"read", "done"}, pay: Payments, answer: Answers, live: BOOLEAN]
         /\ hook.pay \in Rows(pay) /\ hook.pay \in Payments
         /\ hook.answer \in Answers /\ hook.answer \in txns[hook.pay]
BY DEF Ledger, HookSound, GateSound

LEMMA HookCommitQuiet == ASSUME Ledger, HookCommit PROVE QuietStep
<1>1. hook # Idle
  BY DEF HookCommit, Idle
<1>2. UNCHANGED <<txns, ck, cx, rec, sealed>> /\ hook' = [hook EXCEPT !.pc = "done"]
  BY DEF HookCommit
<1>3. PICK p \in Rows(pay) : p = hook.pay /\ hook.answer \in txns'[p]
  BY <1>1, <1>2, HookKnows
<1>4. StepSound
  <2>1. CASE ~hook.live
    BY <2>1, RowsKept DEF HookCommit
  <2>2. CASE hook.live /\ hook.answer = "approved"
    <3>1. ChargeSuccess(p)
      BY <1>3, <2>2 DEF HookCommit
    <3> QED
      BY <1>3, <2>2, <3>1, SuccessIsSound DEF Ledger, Taken
  <2>3. CASE hook.live /\ hook.answer # "approved"
    <3>1. ChargeFailure(p)
      BY <1>3, <2>3 DEF HookCommit
    <3> QED
      BY <3>1, FailureIsSound DEF Ledger
  <2> QED
    BY <2>1, <2>2, <2>3
<1>5. HookSound'
  <2>1. /\ hook' \in [pc: {"read", "done"}, pay: Payments, answer: Answers, live: BOOLEAN]
        /\ hook'.answer = hook.answer /\ hook'.pay = hook.pay
    BY <1>1, <1>2, HookKnows
  <2> QED
    BY <1>3, <2>1 DEF HookSound
<1> QED
  BY <1>2, <1>4, <1>5, QuietGate DEF QuietStep, LedgerStep, StepSound, Ledger, GateSound

LEMMA HookSealQuiet == ASSUME Ledger, HookSeal PROVE QuietStep
<1>1. hook # Idle
  BY DEF HookSeal, Idle
<1>2. UNCHANGED <<plan, paid, pending, pinv, revert, inv, pay, txns, ck, cx, rec>> /\ hook' = Idle
  BY DEF HookSeal
<1>3. sealed' \subseteq Payments \X Answers
  <2>1. sealed' = sealed \union {<<hook.pay, hook.answer>>}
    BY DEF HookSeal
  <2>2. hook.pay \in Payments /\ hook.answer \in Answers
    BY <1>1, HookKnows
  <2> QED
    BY <2>1, <2>2 DEF Ledger, GateSound
<1>4. Entered
  BY <1>2, SameBooks DEF Ledger
<1>5. state' \in States
  BY NamedStates DEF HookSeal, Promote, Ledger, RowSound
<1>6. RowSound' /\ Granted
  BY <1>2, <1>4, <1>5, PendingKeptIsSound DEF Ledger, RowSound, Granted, KeepPending, Entered
<1> QED
  BY <1>2, <1>3, <1>4, <1>6, QuietGate DEF HookSound, QuietStep, LedgerStep, StepSound

LEMMA HookDiesQuiet == ASSUME Ledger, HookDies PROVE QuietStep
BY RowsKept, QuietGate DEF HookDies, QuietStep, LedgerStep, StepSound, HookSound, Ledger, GateSound

\* What the gateway says of an invoice, whoever asks.
LEMMA AnswerIsSound ==
  ASSUME Ledger, NEW i \in Rows(inv), Answered(i), UNCHANGED txns,
         \/ Credited(i) /\ Credit(i)
         \/ ~Credited(i) /\ ChargeFailure(Last(i))
  PROVE  StepSound
BY LastPayment, CreditIsSound, FailureIsSound DEF Answered, Ledger

LEMMA SyncQuiet == ASSUME Ledger, NEW i \in Invoices, Sync(i) PROVE QuietStep
<1>1. i \in Rows(inv)
  BY RowsAreNumbers DEF Sync, Ledger
<1>2. UNCHANGED <<txns, procs, sealed>> /\ StepSound
  BY <1>1, AnswerIsSound DEF Sync
<1> QED
  BY <1>2, QuietGate DEF procs, QuietStep, LedgerStep, StepSound, Ledger, GateSound

-----------------------------------------------------------------------------
(* The reconcile job *)

LEMMA JobKnows ==
  ASSUME Ledger, rec # Idle
  PROVE  /\ rec \in [pc: {"selected", "void"}, inv: Invoices, seen: {"issued", "paid", "void"},
                     revert: States \union {NoState}]
         /\ rec.inv \in Rows(inv) /\ rec.revert \in States \union {NoState}
         /\ rec.seen = "paid" => ChargedFor(rec.inv)
BY DEF Ledger, JobSound

LEMMA RecSelectQuiet == ASSUME Ledger, RecSelect PROVE QuietStep
<1>1. StepSound /\ UNCHANGED <<rows, txns, ck, cx, hook, sealed>>
  BY RowsKept DEF RecSelect
<1>2. PICK i \in Rows(inv) : i = pinv
  BY DEF RecSelect, Ledger, RowSound
<1>3. i \in Invoices /\ inv[i].state \in {"issued", "paid", "void"}
  BY RowsAreNumbers DEF Ledger, Books, InvoiceRow
<1>4. rec' = [pc |-> "selected", inv |-> i, seen |-> inv[i].state, revert |-> revert]
  BY <1>2 DEF RecSelect
<1>5. inv[i].state = "paid" => ChargedFor(i)'
  BY <1>1, <1>3 DEF Ledger, PaidInvoiceWasTaken, ChargedFor, PaymentsOf, Taken, rows
<1>6. JobSound'
  <2>1. rec'.inv = i /\ rec'.seen = inv[i].state /\ i \in Rows(inv)'
    BY <1>1, <1>4 DEF rows, Rows
  <2>2. rec'.seen = "paid" => ChargedFor(rec.inv)'
    BY <1>5, <2>1 DEF ChargedFor
  <2>3. revert \in States \union {NoState}
    BY DEF Ledger, RowSound
  <2> QED
    BY <1>3, <1>4, <2>1, <2>2, <2>3 DEF JobSound
<1> QED
  BY <1>1, <1>6, QuietGate DEF QuietStep, LedgerStep, StepSound, Ledger, GateSound

LEMMA RecAskQuiet == ASSUME Ledger, RecAsk PROVE QuietStep
<1>1. rec # Idle /\ rec.seen = "issued"
  <2>1. rec.pc = "selected" /\ rec.seen = "issued"
    BY Zenon DEF RecAsk
  <2> QED
    BY <2>1 DEF Idle
<1>2. UNCHANGED <<txns, ck, cx, hook, sealed>>
  BY Zenon DEF RecAsk
<1>3. PICK i \in Rows(inv) : i = rec.inv
  BY <1>1, JobKnows
<1>4. \/ UNCHANGED rows
      \/ Answered(i) /\ Credited(i) /\ Credit(i)
      \/ Answered(i) /\ ~Credited(i) /\ ChargeFailure(Last(i))
  BY <1>3, Zenon DEF RecAsk
<1>5. StepSound
  BY <1>2, <1>4, RowsKept, AnswerIsSound
<1>6. rec' = Idle \/ rec' = [rec EXCEPT !.pc = "void"]
  <2>1. CASE inv[rec.inv].state = "paid"
    BY <2>1, Zenon DEF RecAsk
  <2>2. CASE inv[rec.inv].state # "paid" /\ Answered(rec.inv)
    BY <2>2, Zenon DEF RecAsk
  <2>3. CASE inv[rec.inv].state # "paid" /\ ~Answered(rec.inv)
    BY <2>3, Zenon DEF RecAsk
  <2> QED
    BY <2>1, <2>2, <2>3
<1>7. JobSound'
  <2>1. CASE rec' = [rec EXCEPT !.pc = "void"]
    <3>1. /\ rec' \in [pc: {"selected", "void"}, inv: Invoices, seen: {"issued", "paid", "void"},
                       revert: States \union {NoState}]
          /\ rec'.inv = i /\ rec'.seen = "issued"
      BY <1>1, <1>3, <2>1, JobKnows
    <3>2. i \in Rows(inv)'
      BY <1>5 DEF StepSound, Entered, Grows
    <3> QED
      BY <3>1, <3>2 DEF JobSound
  <2> QED
    BY <1>6, <2>1 DEF JobSound
<1> QED
  BY <1>2, <1>5, <1>7, QuietGate DEF QuietStep, LedgerStep, StepSound, Ledger, GateSound

LEMMA RecDefersQuiet == ASSUME Ledger, RecDefers PROVE QuietStep
BY RowsKept, QuietGate DEF RecDefers, QuietStep, LedgerStep, StepSound, JobSound, Ledger, GateSound

LEMMA RecUndoesQuiet == ASSUME Ledger, RecVoid \/ RecCleanup PROVE QuietStep
<1>1. rec # Idle
  BY DEF RecVoid, RecCleanup, Idle
<1>2. rec.inv \in Rows(inv) /\ rec.revert \in States \union {NoState}
  BY <1>1, JobKnows
<1>3. /\ UNCHANGED <<plan, paid, pay, txns, ck, cx, hook, sealed>> /\ rec' = Idle
      /\ UNCHANGED inv \/ inv' = Void(rec.inv)
  BY DEF RecVoid, RecCleanup
<1>4. Entered
  BY <1>2, <1>3, VoidEnters, SameBooks DEF Ledger
<1>5. state' \in States /\ (ClearPending \/ KeepPending)
  BY <1>2, NamedStates DEF RecVoid, RecCleanup, KeepPending, Ledger, RowSound
<1>6. RowSound' /\ Granted
  BY <1>3, <1>4, <1>5, PendingKeptIsSound, PendingClearedIsSound DEF Ledger, RowSound, Granted, Entered
<1> QED
  BY <1>3, <1>4, <1>6, QuietGate DEF JobSound, QuietStep, LedgerStep, StepSound, Ledger, GateSound

LEMMA RecConfirmQuiet == ASSUME Ledger, RecConfirm PROVE QuietStep
<1>1. rec # Idle
  BY DEF RecConfirm, Idle
<1>2. UNCHANGED <<inv, pay, txns, ck, cx, hook, sealed>> /\ rec' = Idle
  BY DEF RecConfirm
<1>3. PICK i \in Rows(inv) : i = rec.inv /\ ChargedFor(i) /\ Confirm(i)
  BY <1>1, JobKnows DEF RecConfirm
<1>4. Entered /\ ChargedFor(i)'
  BY <1>2, <1>3, SameBooks DEF Ledger, ChargedFor, PaymentsOf, Taken
<1>5. RowSound' /\ Granted
  BY <1>3, <1>4, ConfirmIsSound DEF Ledger, Entered
<1> QED
  BY <1>2, <1>4, <1>5, QuietGate DEF JobSound, QuietStep, LedgerStep, StepSound, Ledger, GateSound

LEMMA StateMovesQuiet ==
  ASSUME Ledger, RecLegacy \/ \E to \in States : Lapse(to) PROVE QuietStep
<1>1. /\ UNCHANGED <<plan, paid, pending, pinv, revert, inv, pay, txns, procs, sealed>>
      /\ state' \in States
  BY OperateIsSound DEF RecLegacy, Lapse, Ledger
<1>2. Entered
  BY <1>1, SameBooks DEF Ledger
<1>3. RowSound' /\ Granted
  BY <1>1, <1>2, PendingKeptIsSound DEF Ledger, RowSound, Granted, KeepPending, Entered
<1> QED
  BY <1>1, <1>2, <1>3, QuietGate DEF procs, QuietStep, LedgerStep, StepSound, Ledger, GateSound

-----------------------------------------------------------------------------
(* The nightly jobs *)

LEMMA RenewQuiet == ASSUME Ledger, Renew PROVE QuietStep
<1>1. UNCHANGED <<row, txns, procs, sealed>> /\ \E i \in Invoices : Issue(i, plan, NoPlan, FALSE)
  BY DEF Renew
<1>2. Entered
  BY <1>1, IssueEnters DEF Ledger, RowSound, SomePlan
<1>3. RowSound' /\ Granted
  BY <1>1, <1>2, PendingKeptIsSound DEF row, Ledger, RowSound, Granted, KeepPending, Entered
<1> QED
  BY <1>1, <1>2, <1>3, QuietGate DEF procs, QuietStep, LedgerStep, StepSound, Ledger, GateSound

\* The card is charged on an invoice that was open, by a new payment.
LEMMA ChargeCardSound ==
  ASSUME Ledger, NEW a \in Statuses, ChargeCard(a)
  PROVE  /\ LedgerStep
         /\ \E i \in Rows(inv), n \in Payments \ Rows(pay) :
              /\ n \in Rows(pay)' /\ pay'[n].inv = i /\ txns' = [txns EXCEPT ![n] = {a}]
              /\ paid' \in {paid, inv[i].to}
<1>1. PICK i \in Rows(inv) : i = Newest(Issued)
  BY NewestIssued DEF ChargeCard, Ledger
<1>2. PICK n \in Payments : n = NextPayment /\ n \notin Rows(pay)
  BY NextPaymentIsFree DEF ChargeCard, Ledger
<1>3. PICK s \in {"succeeded", "failed"} :
        pay' = [pay EXCEPT ![NextPayment] = [state |-> s, inv |-> i, by |-> "card"]]
  BY <1>1 DEF ChargeCard
<1>4. txns' = [txns EXCEPT ![n] = {a}] /\ UNCHANGED <<procs, sealed>> /\ HasPaymentSlot
  BY <1>2 DEF ChargeCard
<1>5. IF a # "declined"
      THEN /\ inv' = [inv EXCEPT ![i].state = "paid"]
           /\ IF inv[i].to # NoPlan THEN Confirm(i)
              ELSE Operate /\ UNCHANGED <<plan, paid, pending, pinv, revert>>
      ELSE UNCHANGED <<inv, row>>
  BY <1>1 DEF ChargeCard
<1>6. /\ inv' \in [Invoices -> InvoiceRow]
      /\ \A j \in Invoices : /\ (inv'[j].state = "none") = (inv[j].state = "none")
                             /\ inv'[j].to = inv[j].to
                             /\ j # i => inv'[j] = inv[j]
  BY <1>5, RowsAreNumbers DEF Ledger, Books, InvoiceRow
<1>7. Books' /\ Grows
  BY <1>3, <1>4, <1>6, NewPaymentKeepsBooks DEF Ledger, Means
<1>8. n \in Rows(pay)' /\ pay'[n].inv = i /\ pay'[n].state # "none"
  BY <1>2, <1>3 DEF Ledger, Books, Rows
<1>9. GateSound' /\ AnswersGrow
  <2>1. txns \in [Payments -> SUBSET Statuses]
    BY DEF Ledger, GateSound
  <2>2. txns' \in [Payments -> SUBSET Statuses] /\ \A q \in Payments : q # n => txns'[q] = txns[q]
    BY <1>4, <2>1
  <2>3. \A q \in Payments : txns'[q] # {} => q \in Rows(pay)'
    BY <1>7, <1>8, <2>2 DEF Ledger, GateSound, Grows
  <2>4. sealed' \subseteq Payments \X Answers
    BY <1>4 DEF Ledger, GateSound
  <2> QED
    BY <1>2, <2>2, <2>3, <2>4, RowsAreNumbers DEF GateSound, AnswersGrow, Ledger
<1>10. a # "declined" => ChargedFor(i)'
  <2>1. txns'[n] = {a}
    BY <1>4 DEF Ledger, GateSound
  <2> QED
    BY <1>8, <2>1 DEF ChargedFor, PaymentsOf, Taken, Statuses, Answers
<1>11. Entered
  BY <1>5, <1>6, <1>7, <1>10 DEF Entered
<1>12. RowSound' /\ Granted /\ paid' \in {paid, inv[i].to}
  <2>1. CASE a = "declined"
    BY <1>5, <1>7, <2>1, PendingKeptIsSound DEF row, Ledger, RowSound, Granted, KeepPending
  <2>2. CASE a # "declined" /\ inv[i].to = NoPlan
    BY <1>5, <1>7, <2>2, OperateIsSound, PendingKeptIsSound DEF Ledger, RowSound, Granted, KeepPending
  <2>3. CASE a # "declined" /\ inv[i].to # NoPlan
    <3>1. Confirm(i)
      BY <1>5, <2>3
    <3>2. paid' \in {paid, inv[i].to}
      BY <3>1 DEF Confirm, Matches, row
    <3> QED
      BY <1>7, <1>10, <2>3, <3>1, <3>2, ConfirmIsSound DEF Ledger
  <2> QED
    BY <2>1, <2>2, <2>3
<1>13. LedgerStep
  BY <1>4, <1>9, <1>11, <1>12 DEF procs, LedgerStep, StepSound
<1> QED
  BY <1>2, <1>4, <1>8, <1>12, <1>13

-----------------------------------------------------------------------------
(* The invariant *)

LEMMA StartIsLedger == Init => Ledger
<1> SUFFICES ASSUME Init PROVE Ledger
  OBVIOUS
<1>1. 1 \in Invoices /\ 1 \in Payments /\ OldPlan \in SomePlan /\ NoPlan \in SomePlan /\ NoInvoice \notin Invoices
  BY BoundsAssumption, PlansAssumption DEF Invoices, Payments, SomePlan, NoInvoice
<1>2. inv \in [Invoices -> InvoiceRow] /\ pay \in [Payments -> PaymentRow]
  BY <1>1 DEF Init, InvoiceRow, PaymentRow, Terminal, Means
<1>3. Rows(inv) = (IF state = "trial" THEN {} ELSE {1}) /\ Rows(pay) = Rows(inv)
  BY <1>1, <1>2 DEF Init, Rows
<1>4. state # "trial" => pay[1].inv = 1 /\ txns[1] = {"approved"} /\ pay[1].state = "succeeded"
  BY <1>1 DEF Init
<1>5. \A p \in Payments : (p = 1 /\ state # "trial") \/ (pay[p].state = "none" /\ txns[p] = {})
  BY <1>1 DEF Init
<1>6. Books
  BY <1>2, <1>3, <1>4 DEF Books
<1>7. RowSound
  BY <1>1, NamedStates DEF Init, RowSound
<1>8. GateSound
  <2>1. txns \in [Payments -> SUBSET Statuses]
    BY DEF Init, Statuses, Answers
  <2>2. sealed \subseteq Payments \X Answers
    BY DEF Init, Settled, Answers
  <2> QED
    BY <1>3, <1>5, <2>1, <2>2 DEF GateSound
<1>9. PaidInvoiceWasTaken
  <2> SUFFICES ASSUME NEW i \in Invoices, inv[i].state = "paid"
               PROVE  \E p \in PaymentsOf(i) : Taken(p)
    BY DEF PaidInvoiceWasTaken
  <2>1. i = 1 /\ state # "trial"
    BY DEF Init
  <2>2. 1 \in PaymentsOf(1)
    BY <1>1, <1>4, <2>1 DEF PaymentsOf
  <2> QED
    BY <1>4, <2>1, <2>2 DEF Taken
<1> QED
  BY <1>6, <1>7, <1>8, <1>9 DEF Init, Ledger, CheckoutSound, CancelSound, HookSound, JobSound

LEMMA StutterIsQuiet == ASSUME Ledger, UNCHANGED vars PROVE QuietStep
BY RowsKept, QuietGate DEF vars, rows, row, QuietStep, LedgerStep, StepSound, Ledger, GateSound

\* The gateway decides a reference or a card is charged; all else is quiet.
LEMMA EveryStep ==
  ASSUME Ledger, [Next]_vars
  PROVE  \/ QuietStep
         \/ \E p \in Payments, a \in Answers : Decides(p, a)
         \/ \E a \in Statuses : ChargeCard(a)
<1>1. CASE UNCHANGED vars
  BY <1>1, StutterIsQuiet
<1>2. CASE Commit
  BY <1>2, CommitVoidQuiet, CommitParkQuiet, CommitAssignQuiet, CommitIssueQuiet,
     CommitStampQuiet, CommitWidgetQuiet DEF Commit
<1>3. CASE Reconcile
  BY <1>3, RecAskQuiet, RecUndoesQuiet, RecConfirmQuiet DEF Reconcile
<1> QED
  BY <1>1, <1>2, <1>3, CommitReadQuiet, CommitDiesQuiet, RetryPaymentQuiet, CancelReadQuiet,
     CancelCommitQuiet, HookReadQuiet, HookCommitQuiet, HookSealQuiet, HookDiesQuiet, SyncQuiet,
     RecSelectQuiet, RecDefersQuiet, StateMovesQuiet, RenewQuiet DEF Next, Decides

LEMMA LedgerIsKept == Ledger /\ [Next]_vars => Ledger'
<1> SUFFICES ASSUME Ledger, [Next]_vars PROVE Ledger'
  OBVIOUS
<1>1. LedgerStep
  BY EveryStep, DecidesSound, ChargeCardSound DEF QuietStep
<1> QED
  BY <1>1, StepKeepsLedger

\* The history follows the state.
OriginTyped == origin \in States \union {NoState}

LEMMA OriginFollows == ASSUME [Next]_vars PROVE origin' \in {origin, state}
<1>1. CASE Commit \/ CommitDies \/ RetryPayment \/ CancelRead \/ CancelCommit
  BY <1>1 DEF Commit, CommitVoid, CommitPark, CommitAssign, CommitIssue, CommitStamp, CommitWidget, Park,
              CommitDies, RetryPayment, CancelRead, CancelCommit
<1>2. CASE \/ \E to \in Plans, live \in BOOLEAN : CommitRead(to, live)
           \/ \E p \in Payments, a \in Answers : WidgetPays(p, a) \/ HookRead(p, a) \/ CardSettles(p, a)
  BY <1>2 DEF CommitRead, WidgetPays, HookRead, CardSettles
<1>3. CASE HookCommit \/ HookSeal \/ HookDies \/ \E i \in Invoices : Sync(i)
  BY <1>3 DEF HookCommit, HookSeal, HookDies, Sync
<1>4. CASE RecSelect \/ Reconcile \/ RecDefers \/ RecLegacy
  BY <1>4, Zenon DEF RecSelect, Reconcile, RecAsk, RecVoid, RecConfirm, RecCleanup, RecDefers, RecLegacy
<1>5. CASE (\E to \in States : Lapse(to)) \/ Renew \/ (\E s \in Statuses : ChargeCard(s))
  BY <1>5 DEF Lapse, Renew, ChargeCard
<1> QED
  BY <1>1, <1>2, <1>3, <1>4, <1>5 DEF Next, vars

LEMMA LedgerIsTyped == Ledger /\ OriginTyped => TypeOK
<1> SUFFICES ASSUME Ledger, OriginTyped PROVE TypeOK
  OBVIOUS
<1>1. pinv \in Invoices \union {NoInvoice}
  BY RowsAreNumbers DEF Ledger, RowSound
<1>2. inv \in [Invoices -> [state: {"none", "issued", "paid", "void"}, plan: SomePlan, to: SomePlan]]
      /\ pay \in [Payments -> [state: {"none", "pending"} \union Terminal,
                           inv: Invoices \union {NoInvoice}, by: Means]]
  BY DEF Ledger, Books, InvoiceRow, PaymentRow
<1> QED
  BY <1>1, <1>2 DEF Ledger, RowSound, GateSound, CheckoutSound, CancelSound, HookSound, JobSound, TypeOK, OriginTyped

\* Row, invoices, payments and what requests, workers and jobs carry are well
\* typed, and the three pending columns are set and cleared together.
THEOREM TypeCorrect == Spec => []TypeOK
<1>1. Init => OriginTyped
  BY DEF Init, OriginTyped
<1>2. Ledger /\ OriginTyped /\ [Next]_vars => OriginTyped'
  BY OriginFollows DEF OriginTyped, Ledger, RowSound
<1> QED
  BY <1>1, <1>2, StartIsLedger, LedgerIsKept, LedgerIsTyped, PTL DEF Spec

\* No interleaving of requests, webhooks, polling, card charges and jobs marks an
\* invoice paid that the gateway took no charge for.
THEOREM PaidInvoiceWasTakenHolds == Spec => []PaidInvoiceWasTaken
<1>1. Ledger => PaidInvoiceWasTaken
  BY DEF Ledger
<1> QED
  BY <1>1, StartIsLedger, LedgerIsKept, PTL DEF Spec

-----------------------------------------------------------------------------
(* The refinement *)

\* The payment of a charged plan exists, and so does its invoice.
LEMMA TakenRows ==
  ASSUME Ledger, NEW q \in Payments, Taken(q)
  PROVE  q \in Rows(pay) /\ pay[q].inv \in Rows(inv) /\ inv[pay[q].inv].to \in SomePlan
<1>1. q \in Rows(pay) /\ pay[q].inv \in Rows(inv)
  BY DEF Ledger, GateSound, Books, Taken
<1> QED
  BY <1>1, RowsAreNumbers DEF Ledger, Books, InvoiceRow

\* What was charged for stays so, for the same plan.
LEMMA ChargeKept ==
  ASSUME Ledger, LedgerStep, NEW q \in Payments, Taken(q)
  PROVE  Taken(q)' /\ inv'[pay'[q].inv].to = inv[pay[q].inv].to
<1>1. Taken(q)'
  BY TakenRows DEF LedgerStep, AnswersGrow, Taken
<1> QED
  BY <1>1, TakenRows DEF LedgerStep, StepSound, Entered, Grows

LEMMA GrantedIsCharged ==
  ASSUME Ledger, LedgerStep PROVE paid' = paid \/ (paid' \in Charged' /\ paid' \in Plans)
<1>1. SUFFICES ASSUME NEW i \in Rows(inv), ChargedFor(i)', paid' = inv[i].to, paid' \in Plans
               PROVE  paid' \in Charged'
  BY DEF LedgerStep, StepSound, Granted
<1>2. PICK p \in Payments : Taken(p)' /\ p \in PaymentsOf(i)'
  BY <1>1 DEF ChargedFor, PaymentsOf
<1>3. pay'[p].inv = i
  BY <1>2 DEF PaymentsOf
<1>4. inv'[i].to = inv[i].to
  BY DEF LedgerStep, StepSound, Entered, Grows
<1> QED
  BY <1>1, <1>2, <1>3, <1>4, PlansAssumption DEF Charged

PurchaseStep == [Bought!Next]_<<Charged, paid>>

LEMMA QuietIsGrant == ASSUME Ledger, QuietStep PROVE PurchaseStep
<1>1. \A q \in Payments : Taken(q) =>
        Taken(q)' /\ inv'[pay'[q].inv].to = inv[pay[q].inv].to
  BY ChargeKept DEF QuietStep
<1>2. txns' = txns
  BY DEF QuietStep
<1>3. Charged' = Charged
  BY <1>1, <1>2 DEF Charged, Taken
<1>4. paid' = paid \/ (paid' \in Charged' /\ paid' \in Plans)
  BY GrantedIsCharged DEF QuietStep
<1> QED
  BY <1>3, <1>4 DEF PurchaseStep, Bought!Next, Bought!Grant

\* One more plan, at most, is charged for, and it may be granted at once.
LEMMA ChargeIsPurchase ==
  ASSUME Ledger, LedgerStep, NEW x \in SomePlan,
         Charged' = Charged \union ({x} \ {NoPlan}), paid' \in {paid, x}
  PROVE  PurchaseStep
<1>1. paid' = paid \/ (paid' \in Charged' /\ paid' \in Plans)
  BY GrantedIsCharged
<1>2. CASE x = NoPlan
  BY <1>1, <1>2 DEF PurchaseStep, Bought!Next, Bought!Grant
<1>3. CASE x # NoPlan
  <2>1. x \in Plans /\ Charged' = Charged \union {x}
    BY <1>3 DEF SomePlan
  <2>2. Bought!Charge(x) \/ Bought!Buy(x)
    BY <2>1 DEF Bought!Charge, Bought!Buy
  <2> QED
    BY <2>1, <2>2 DEF PurchaseStep, Bought!Next
<1> QED
  BY <1>2, <1>3

\* A reference gets an answer; whatever is not a decline charges.
LEMMA AnswerIsPurchase ==
  ASSUME Ledger, LedgerStep, NEW p \in Payments, NEW a \in Statuses, NEW x \in SomePlan,
         p \in Rows(pay)', inv'[pay'[p].inv].to = x,
         txns'[p] \in {{a}, txns[p] \union {a}},
         \A q \in Payments : q # p => txns'[q] = txns[q],
         paid' \in {paid, x}
  PROVE  PurchaseStep
<1>1. \A q \in Payments : Taken(q) =>
        Taken(q)' /\ inv'[pay'[q].inv].to = inv[pay[q].inv].to
  BY ChargeKept
<1>0. \A q \in Payments : q # p => (Taken(q)' <=> Taken(q))
  BY DEF Taken
<1>2. CASE a # "declined"
  <2>1. Taken(p)'
    BY <1>2 DEF Taken, Statuses, Answers
  <2>2. Charged' = Charged \union ({x} \ {NoPlan})
    BY <1>0, <1>1, <2>1 DEF Charged
  <2> QED
    BY <2>2, ChargeIsPurchase
<1>3. CASE a = "declined"
  <2>1. \A q \in Payments : Taken(q)' <=> Taken(q)
    <3>1. Taken(p)' => Taken(p)
      BY <1>3 DEF Taken
    <3> QED
      BY <1>0, <1>1, <3>1
  <2>2. Charged' = Charged
    BY <1>1, <2>1 DEF Charged
  <2> QED
    BY <2>2, GrantedIsCharged DEF PurchaseStep, Bought!Next, Bought!Grant
<1> QED
  BY <1>2, <1>3

LEMMA StepIsPurchase == Ledger /\ [Next]_vars => PurchaseStep
<1> SUFFICES ASSUME Ledger, [Next]_vars PROVE PurchaseStep
  OBVIOUS
<1>1. ASSUME NEW p \in Payments, NEW a \in Answers, Decides(p, a) PROVE PurchaseStep
  <2>1. LedgerStep /\ p \in Rows(pay)
    BY <1>1, DecidesSound
  <2>2. UNCHANGED rows
    BY <1>1, DecidesSound
  <2>3. txns'[p] = txns[p] \union {a} /\ \A q \in Payments : q # p => txns'[q] = txns[q]
    BY <1>1 DEF Decides, WidgetPays, CardSettles, Ledger, GateSound
  <2>4. PICK x \in SomePlan : inv'[pay'[p].inv].to = x
    <3>1. pay[p].inv \in Rows(inv)
      BY <2>1 DEF Ledger, Books
    <3> QED
      BY <2>2, <3>1, RowsAreNumbers DEF rows, Ledger, Books, InvoiceRow
  <2>5. p \in Rows(pay)' /\ paid' = paid
    BY <2>1, <2>2 DEF rows, row, Rows
  <2> QED
    BY <2>1, <2>2, <2>3, <2>4, <2>5, AnswerIsPurchase DEF Statuses
<1>2. ASSUME NEW a \in Statuses, ChargeCard(a) PROVE PurchaseStep
  <2>1. LedgerStep
    BY <1>2, ChargeCardSound
  <2>2. PICK i \in Rows(inv), n \in Payments \ Rows(pay) :
          /\ n \in Rows(pay)' /\ pay'[n].inv = i /\ txns' = [txns EXCEPT ![n] = {a}]
          /\ paid' \in {paid, inv[i].to}
    BY <1>2, ChargeCardSound
  <2>3. txns[n] = {} /\ txns'[n] = {a} /\ \A q \in Payments : q # n => txns'[q] = txns[q]
    BY <2>2 DEF Ledger, GateSound
  <2>4. inv'[i].to = inv[i].to /\ inv[i].to \in SomePlan
    BY <2>1, <2>2, RowsAreNumbers DEF LedgerStep, StepSound, Entered, Grows, Ledger, Books, InvoiceRow
  <2> QED
    BY <2>1, <2>2, <2>3, <2>4, AnswerIsPurchase
<1> QED
  BY <1>1, <1>2, EveryStep, QuietIsGrant

LEMMA StartIsPurchase == Init => Bought!Init
<1> SUFFICES ASSUME Init PROVE Bought!Init
  OBVIOUS
<1>1. \A q \in Payments : Taken(q) => inv[pay[q].inv].to \in SomePlan
  BY StartIsLedger, TakenRows
<1>2. Charged \subseteq Plans
  BY <1>1 DEF Charged, SomePlan
<1>3. paid \in Charged \union {NoPlan}
  <2>1. CASE state = "trial"
    BY <2>1 DEF Init
  <2>2. CASE state # "trial"
    <3>1. 1 \in Invoices /\ 1 \in Payments
      BY BoundsAssumption DEF Invoices, Payments
    <3>2. Taken(1) /\ inv[pay[1].inv].to = OldPlan /\ paid = OldPlan
      BY <2>2, <3>1 DEF Init, Taken
    <3> QED
      BY <3>1, <3>2, PlansAssumption DEF Charged
  <2> QED
    BY <2>1, <2>2
<1> QED
  BY <1>2, <1>3 DEF Bought!Init

\* However requests, webhooks, polling, card charges and jobs interleave, crash
\* and repeat, the plan a store has paid for only becomes one that the gateway
\* took a charge for.
THEOREM PlanChangeIsPurchase == Spec => ImplementsPurchase
BY StartIsPurchase, StartIsLedger, LedgerIsKept, StepIsPurchase, PTL
   DEF Spec, ImplementsPurchase, Bought!Spec, PurchaseStep

LEMMA BoughtStaysCharged ==
  /\ Bought!Init => Bought!BoughtIsCharged
  /\ Bought!BoughtIsCharged /\ PurchaseStep => Bought!BoughtIsCharged'
<1>1. Bought!Init => Bought!BoughtIsCharged
  BY DEF Bought!Init, Bought!BoughtIsCharged
<1>2. Bought!BoughtIsCharged /\ PurchaseStep => Bought!BoughtIsCharged'
  BY DEF PurchaseStep, Bought!Next, Bought!Charge, Bought!Grant, Bought!Buy, Bought!BoughtIsCharged
<1> QED
  BY <1>1, <1>2

\* And so paid_plan_id, whatever was cancelled, voided or retried meanwhile, names
\* a plan that a transaction of this store, approved or left pending, was for.
THEOREM PaidPlanWasCharged == Spec => []Bought!BoughtIsCharged
BY BoughtStaysCharged, StartIsPurchase, StartIsLedger, LedgerIsKept, StepIsPurchase, PTL DEF Spec

-----------------------------------------------------------------------------
(* Where no card charge is left pending *)

NothingPending == \A p \in Payments : "pending" \notin txns[p]

LEMMA NothingStaysPending ==
  ASSUME "pending" \notin Env PROVE Ledger /\ NothingPending /\ [Next]_vars => NothingPending'
<1> SUFFICES ASSUME Ledger, NothingPending, [Next]_vars PROVE NothingPending'
  OBVIOUS
<1>1. CASE QuietStep
  BY <1>1 DEF QuietStep, NothingPending
<1>2. ASSUME NEW p \in Payments, NEW a \in Answers, Decides(p, a) PROVE NothingPending'
  <2>1. txns' = [txns EXCEPT ![p] = @ \union {a}] /\ a # "pending"
    BY <1>2 DEF Decides, WidgetPays, CardSettles, Answers
  <2> QED
    BY <2>1 DEF NothingPending, Ledger, GateSound
<1>3. ASSUME NEW a \in Statuses, ChargeCard(a) PROVE NothingPending'
  <2>1. txns' = [txns EXCEPT ![NextPayment] = {a}] /\ a # "pending"
    BY <1>3 DEF ChargeCard, On
  <2> QED
    BY <2>1 DEF NothingPending, Ledger, GateSound
<1> QED
  BY <1>1, <1>2, <1>3, EveryStep

\* While every card charge is answered at once, an invoice is marked paid only
\* when the gateway approved a payment of it: no webhook, polling or job that
\* runs late, twice or not at all books one that was not collected.
THEOREM PaidInvoiceIsCollectedHolds ==
  ASSUME "pending" \notin Env PROVE Spec => []PaidInvoiceIsCollected
<1>1. Init => NothingPending
  BY DEF Init, NothingPending
<1>2. Ledger /\ NothingPending => PaidInvoiceIsCollected
  <2> SUFFICES ASSUME Ledger, NothingPending, NEW i \in Invoices, inv[i].state = "paid"
               PROVE  \E p \in PaymentsOf(i) : "approved" \in txns[p]
    BY DEF PaidInvoiceIsCollected
  <2>1. PICK p \in PaymentsOf(i) : Taken(p)
    BY DEF Ledger, PaidInvoiceWasTaken
  <2> QED
    BY <2>1 DEF Taken, NothingPending, PaymentsOf
<1> QED
  BY <1>1, <1>2, NothingStaysPending, StartIsLedger, LedgerIsKept, PTL DEF Spec

\* And then the plan a store has paid for is one it paid an approved transaction
\* for, as the comment of confirmPendingChange takes for granted.
THEOREM PaidPlanIsApprovedHolds ==
  ASSUME "pending" \notin Env PROVE Spec => []PaidPlanIsApproved
<1>1. Init => NothingPending
  BY DEF Init, NothingPending
<1>2. Bought!BoughtIsCharged /\ NothingPending => PaidPlanIsApproved
  BY DEF Bought!BoughtIsCharged, Charged, Taken, NothingPending, PaidPlanIsApproved
<1> QED
  BY <1>1, <1>2, NothingStaysPending, BoughtStaysCharged, StartIsPurchase, StartIsLedger,
     LedgerIsKept, StepIsPurchase, PTL DEF Spec

-----------------------------------------------------------------------------
(* A paid invoice is final *)

\* The store does not wait for an invoice that is already paid.
Clear == ~(state = Parked /\ pinv # NoInvoice /\ inv[pinv].state = "paid")

\* The worker is about to announce the payment.
Announces == hook # Idle /\ hook.pc = "done" /\ hook.answer = "approved" /\ pay[hook.pay].state = "succeeded"

Alone ==
  /\ ck # Idle => cx = Idle /\ hook = Idle /\ rec = Idle
  /\ cx # Idle => hook = Idle /\ rec = Idle
  /\ hook # Idle => rec = Idle
AllIdle == ck = Idle /\ cx = Idle /\ hook = Idle /\ rec = Idle

\* What a checkout, a cancellation and the reconcile job are about to put into
\* the row, or to void, is not paid.
CheckoutCareful ==
  /\ ck # Idle /\ ck.pc = "stamp" => inv[ck.inv].state = "issued"
  /\ ck # Idle /\ ck.pc = "widget" => Clear
CancelCareful == cx # Idle => cx.pinv # NoInvoice /\ inv[cx.pinv].state # "paid"
JobCareful == rec # Idle /\ rec.pc = "void" => inv[rec.inv].state # "paid"

Careful ==
  /\ Alone /\ (Clear \/ ck # Idle \/ Announces)
  /\ CheckoutCareful /\ CancelCareful /\ JobCareful

PaidStays == \A i \in Invoices : inv[i].state = "paid" => inv'[i].state = "paid"
CarefulStep == Careful' /\ (ck.pc # "void" => PaidStays)

LEMMA SettleStays == ASSUME Books, NEW p, Settle(p) PROVE PaidStays
BY DEF Books, InvoiceRow, Settle, PaidStays

LEMMA OperateClears == ASSUME Operate PROVE Clear'
BY DEF Operate, Operational, Parked, Clear

LEMMA CardStays ==
  ASSUME Books, NEW i, inv' = [inv EXCEPT ![i].state = "paid"] PROVE PaidStays
BY DEF Books, InvoiceRow, PaidStays

LEMMA FailureClears ==
  ASSUME Clear, NEW p, ChargeFailure(p) PROVE Clear' /\ PaidStays
BY DEF ChargeFailure, ClearPending, KeepPending, Clear, PaidStays

LEMMA SuccessStays == ASSUME Books, NEW p, ChargeSuccess(p) PROVE PaidStays
BY SettleStays DEF ChargeSuccess

\* Whatever the gateway credits to an invoice, the store does not wait for it.
LEMMA CreditClears ==
  ASSUME Books, NEW i, Credit(i) PROVE Clear' /\ PaidStays
<1>1. PaidStays
  BY SettleStays, SuccessStays DEF Credit, ReopenAndConfirm
<1>2. CASE inv[i].state = "void"
  <2>1. CASE inv[pay[Last(i)].inv].to = NoPlan
    <3>1. Operate
      BY <1>2, <2>1 DEF Credit, ReopenAndConfirm, ChargeSuccess
    <3> QED
      BY <1>1, <3>1, OperateClears
  <2>2. CASE inv[pay[Last(i)].inv].to # NoPlan
    BY <1>1, <1>2, <2>2 DEF Credit, ReopenAndConfirm, ClearPending, Clear
  <2> QED
    BY <2>1, <2>2
<1>3. CASE inv[i].state # "void"
  <2>1. CASE inv[i].to # NoPlan /\ Matches(i)
    BY <1>1, <1>3, <2>1 DEF Credit, Confirm, ClearPending, Clear
  <2>2. CASE ~(inv[i].to # NoPlan /\ Matches(i))
    <3>1. state' # Parked
      BY <1>3, <2>2 DEF Credit, Operational, Parked
    <3> QED
      BY <1>1, <3>1 DEF Clear
  <2> QED
    BY <2>1, <2>2
<1> QED
  BY <1>2, <1>3

\* A step of the customer, the gateway or a job while no process is under way.
LEMMA IdleStepIsCareful ==
  ASSUME AllIdle, UNCHANGED procs, Clear', PaidStays PROVE CarefulStep
BY DEF AllIdle, procs, CarefulStep, Careful, Alone, CheckoutCareful, CancelCareful, JobCareful

LEMMA ResponseIsCareful ==
  ASSUME Ledger, Careful, "overlap" \notin Env,
         \/ RetryPayment \/ RecLegacy
         \/ \E p \in Payments, a \in Answers : Decides(p, a)
         \/ \E i \in Invoices : Sync(i)
         \/ \E to \in States : Lapse(to)
  PROVE  CarefulStep
<1>1. AllIdle /\ UNCHANGED procs
  BY DEF RetryPayment, RecLegacy, Decides, WidgetPays, CardSettles, Sync, Lapse, Undisturbed, On, AllIdle
<1>2. Clear
  BY <1>1 DEF Careful, AllIdle, Announces
<1>3. CASE RetryPayment \/ \E p \in Payments, a \in Answers : Decides(p, a)
  <2>1. UNCHANGED <<row, inv>>
    BY <1>3 DEF RetryPayment, Decides, WidgetPays, CardSettles, rows
  <2> QED
    BY <1>1, <1>2, <2>1, IdleStepIsCareful DEF row, Clear, PaidStays
<1>4. CASE RecLegacy
  BY <1>1, <1>4, OperateClears, IdleStepIsCareful DEF RecLegacy, PaidStays
<1>5. ASSUME NEW i \in Invoices, Sync(i) PROVE CarefulStep
  BY <1>1, <1>2, <1>5, FailureClears, CreditClears, IdleStepIsCareful DEF Sync, Ledger
<1>6. ASSUME NEW to \in States, Lapse(to) PROVE CarefulStep
  <2>1. state' # Parked /\ UNCHANGED inv
    BY <1>6 DEF Lapse, Parked
  <2> QED
    BY <1>1, <2>1, IdleStepIsCareful DEF Clear, PaidStays
<1> QED
  BY <1>3, <1>4, <1>5, <1>6

\* An emission voids an open invoice at most.
LEMMA IssueStays ==
  ASSUME Books, NEW i \in Invoices, NEW onPlan, NEW to, NEW prorated, Issue(i, onPlan, to, prorated)
  PROVE  PaidStays /\ inv'[i].state = "issued"
<1>1. Issued # {} => Newest(Issued) \in Issued
  <2>1. MaxInvoices \in Nat /\ Issued \in SUBSET (1..MaxInvoices)
    BY BoundsAssumption DEF Issued, Invoices
  <2> QED
    BY <2>1, NewestIsThere
<1>2. CASE Reusable(prorated) # {}
  <2>1. i \in Reusable(prorated) /\ UNCHANGED inv
    BY <1>2 DEF Issue
  <2>2. i \in Issued
    BY <1>1, <1>2, <2>1 DEF Reusable
  <2> QED
    BY <2>1, <2>2 DEF Issued, PaidStays
<1>3. CASE Reusable(prorated) = {}
  <2>1. /\ HasSlot /\ i = NextInvoice
        /\ inv' = [j \in Invoices |->
                     IF j = i THEN [state |-> "issued", plan |-> onPlan, to |-> to]
                     ELSE IF j \in Replaced(prorated) THEN [inv[j] EXCEPT !.state = "void"]
                     ELSE inv[j]]
    BY <1>3, Zenon DEF Issue
  <2>2. inv[i].state # "paid"
    BY <2>1, NextInvoiceIsFree, RowsAreNumbers
  <2>3. \A j \in Replaced(prorated) : inv[j].state = "issued"
    BY <1>1 DEF Replaced, Issued
  <2> QED
    BY <2>1, <2>2, <2>3 DEF PaidStays
<1> QED
  BY <1>2, <1>3

LEMMA NightIsCareful ==
  ASSUME Ledger, Careful, "overlap" \notin Env, Renew \/ \E a \in Statuses : ChargeCard(a)
  PROVE  CarefulStep
<1>1. AllIdle /\ UNCHANGED procs /\ state # Parked
  BY DEF Renew, ChargeCard, Undisturbed, On, AllIdle, Parked
<1>2. CASE Renew
  <2>1. PaidStays
    BY <1>2, IssueStays DEF Renew, Ledger
  <2>2. state' # Parked
    BY <1>1, <1>2 DEF Renew, row
  <2> QED
    BY <1>1, <2>1, <2>2, IdleStepIsCareful DEF Clear
<1>3. ASSUME NEW a \in Statuses, ChargeCard(a) PROVE CarefulStep
  <2>1. UNCHANGED inv \/ inv' = [inv EXCEPT ![Newest(Issued)].state = "paid"]
    BY <1>3 DEF ChargeCard
  <2>2. PaidStays
    BY <2>1, CardStays DEF PaidStays, Ledger
  <2>3. UNCHANGED row \/ Operate \/ \E i : Confirm(i)
    BY <1>3 DEF ChargeCard
  <2>4. state' # Parked
    BY <1>1, <2>3 DEF row, Confirm, Operate, Operational, Parked
  <2> QED
    BY <1>1, <2>2, <2>4, IdleStepIsCareful DEF Clear
<1> QED
  BY <1>2, <1>3

\* A process begins: the rows are what they were.
LEMMA BeginningIsCareful ==
  ASSUME Ledger, Careful, "overlap" \notin Env,
         \/ \E to \in Plans, live \in BOOLEAN : CommitRead(to, live)
         \/ CancelRead \/ RecSelect
         \/ \E p \in Payments, a \in Answers : HookRead(p, a)
  PROVE  CarefulStep
<1>1. AllIdle /\ UNCHANGED rows
  BY DEF CommitRead, CancelRead, RecSelect, HookRead, Undisturbed, On, AllIdle
<1>2. Clear /\ Clear' /\ PaidStays
  BY <1>1 DEF Careful, AllIdle, Announces, rows, row, Clear, PaidStays
<1>3. ASSUME NEW to \in Plans, NEW live \in BOOLEAN, CommitRead(to, live) PROVE CarefulStep
  <2>1. UNCHANGED <<cx, hook, rec>> /\ ck'.pc # "stamp"
    <3>1. UNCHANGED <<cx, hook, rec>>
      BY <1>3 DEF CommitRead
    <3>2. ck'.pc \in {"widget", "void", "park", "assign", "issue"}
      BY <1>3 DEF CommitRead, First
    <3> QED
      BY <3>1, <3>2
  <2> QED
    BY <1>1, <1>2, <2>1 DEF AllIdle, CarefulStep, Careful, Alone, CheckoutCareful, CancelCareful, JobCareful
<1>4. CASE CancelRead
  <2>1. UNCHANGED <<ck, hook, rec, inv>> /\ cx'.pinv = pinv /\ state = Parked /\ pinv # NoInvoice
    BY <1>4 DEF CancelRead, rows, Ledger, RowSound
  <2>2. inv'[cx'.pinv].state # "paid"
    BY <1>2, <2>1 DEF Clear
  <2> QED
    BY <1>1, <1>2, <2>1, <2>2 DEF AllIdle, CarefulStep, Careful, Alone, CheckoutCareful, CancelCareful, JobCareful
<1>5. CASE RecSelect
  <2>1. UNCHANGED <<ck, cx, hook>> /\ rec'.pc = "selected"
    BY <1>5 DEF RecSelect
  <2> QED
    BY <1>1, <1>2, <2>1 DEF AllIdle, CarefulStep, Careful, Alone, CheckoutCareful, CancelCareful, JobCareful
<1>6. CASE \E p \in Payments, a \in Answers : HookRead(p, a)
  <2>1. UNCHANGED <<ck, cx, rec>>
    BY <1>6 DEF HookRead
  <2> QED
    BY <1>1, <1>2, <2>1 DEF AllIdle, CarefulStep, Careful, Alone, CheckoutCareful, CancelCareful, JobCareful
<1> QED
  BY <1>3, <1>4, <1>5, <1>6

\* The checkout goes on, alone.
LEMMA CheckoutStepIsCareful ==
  ASSUME Careful, ck # Idle, UNCHANGED <<cx, hook, rec>>, CheckoutCareful', ck' = Idle => Clear',
         ck.pc # "void" => PaidStays
  PROVE  CarefulStep
BY DEF CarefulStep, Careful, Alone, CancelCareful, JobCareful

LEMMA CheckoutIsCareful ==
  ASSUME Ledger, Careful, Commit PROVE CarefulStep
<1>1. ck # Idle /\ ck \in Checkouts /\ UNCHANGED <<cx, hook, rec>>
  <2>1. ck.pc \in {"void", "park", "assign", "issue", "stamp", "widget"}
    BY DEF Commit, CommitVoid, CommitPark, CommitAssign, CommitIssue, CommitStamp, CommitWidget
  <2> QED
    BY <2>1, CheckoutKnows DEF Commit, CommitVoid, CommitPark, CommitAssign, CommitIssue, CommitStamp, CommitWidget
<1>2. CASE CommitVoid
  <2>1. ck' # Idle /\ ck'.pc \in {"park", "assign", "issue"} /\ ck.pc = "void"
    BY <1>1, <1>2, CheckoutKnows DEF CommitVoid, Checkouts, Idle
  <2> QED
    BY <1>1, <2>1, CheckoutStepIsCareful DEF CheckoutCareful
<1>3. CASE CommitPark
  <2>1. PaidStays
    BY <1>3 DEF CommitPark, PaidStays
  <2>2. CASE Accepted(state, Parked)
    <3>1. ck' # Idle /\ ck'.pc = "assign"
      BY <1>1, <1>3, <2>2 DEF CommitPark, Checkouts, Idle
    <3> QED
      BY <1>1, <2>1, <3>1, CheckoutStepIsCareful DEF CheckoutCareful
  <2>3. CASE ~Accepted(state, Parked)
    <3>1. state' # Parked /\ ck' = Idle
      BY <1>3, <2>3 DEF CommitPark, Accepted
    <3> QED
      BY <1>1, <2>1, <3>1, CheckoutStepIsCareful DEF CheckoutCareful, Clear
  <2> QED
    BY <2>2, <2>3
<1>4. CASE CommitAssign
  <2>1. PaidStays /\ ck' # Idle /\ ck'.pc = "issue"
    BY <1>1, <1>4 DEF CommitAssign, PaidStays, Checkouts, Idle
  <2> QED
    BY <1>1, <2>1, CheckoutStepIsCareful DEF CheckoutCareful
<1>5. CASE CommitIssue
  <2>1. PICK i \in Invoices :
          /\ Issue(i, IF ck.kind = "mid" /\ ~ck.prorated THEN ck.to ELSE plan, ck.to, ck.prorated)
          /\ ck' = [ck EXCEPT !.pc = "stamp", !.inv = i]
    BY <1>5 DEF CommitIssue
  <2>2. PaidStays /\ inv'[i].state = "issued"
    BY <2>1, IssueStays DEF Ledger
  <2>3. ck' # Idle /\ ck'.pc = "stamp" /\ ck'.inv = i
    BY <1>1, <2>1 DEF Checkouts, Idle
  <2> QED
    BY <1>1, <2>2, <2>3, CheckoutStepIsCareful DEF CheckoutCareful
<1>6. CASE CommitStamp
  <2>1. inv' = inv /\ PaidStays /\ inv[ck.inv].state = "issued"
    BY <1>1, <1>6 DEF CommitStamp, PaidStays, Careful, CheckoutCareful
  <2>2. \/ pinv' = ck.inv /\ ck' = [ck EXCEPT !.pc = "widget"]
        \/ state' # Parked /\ ck' = Idle
    BY <1>6 DEF CommitStamp, Park, StampPending, Accepted
  <2>3. Clear' /\ (ck' = Idle \/ ck'.pc = "widget")
    BY <1>1, <2>1, <2>2 DEF Clear, Checkouts
  <2> QED
    BY <1>1, <2>1, <2>3, CheckoutStepIsCareful DEF CheckoutCareful
<1>7. CASE CommitWidget
  <2>1. ck' = Idle /\ UNCHANGED <<row, inv>> /\ Clear
    BY <1>1, <1>7 DEF CommitWidget, Careful, CheckoutCareful
  <2>2. PaidStays /\ Clear'
    BY <2>1 DEF PaidStays, Clear, row
  <2> QED
    BY <1>1, <2>1, <2>2, CheckoutStepIsCareful DEF CheckoutCareful
<1> QED
  BY <1>2, <1>3, <1>4, <1>5, <1>6, <1>7 DEF Commit

LEMMA CancelIsCareful == ASSUME Ledger, Careful, CancelCommit PROVE CarefulStep
<1>1. /\ cx # Idle /\ ck = Idle /\ hook = Idle /\ rec = Idle /\ cx' = Idle /\ UNCHANGED <<ck, hook, rec>>
      /\ Clear /\ cx.pinv # NoInvoice /\ inv[cx.pinv].state # "paid"
  BY DEF CancelCommit, Careful, Alone, CancelCareful, Announces, Idle
<1>2. UNCHANGED <<state, pinv, inv>> \/ (inv' = Void(cx.pinv) /\ pinv' = NoInvoice)
  BY <1>1 DEF CancelCommit, ClearPending
<1>3. Clear' /\ PaidStays
  BY <1>1, <1>2 DEF Clear, Void, PaidStays, Ledger, Books
<1> QED
  BY <1>1, <1>3 DEF CarefulStep, Careful, Alone, CheckoutCareful, CancelCareful, JobCareful

LEMMA WebhookIsCareful == ASSUME Ledger, Careful, HookCommit \/ HookSeal PROVE CarefulStep
<1>1. hook # Idle /\ ck = Idle /\ cx = Idle /\ rec = Idle /\ UNCHANGED <<ck, cx, rec>>
  BY DEF HookCommit, HookSeal, Careful, Alone, Idle
<1>2. CASE HookCommit
  <2>1. Clear /\ hook.pc = "read" /\ hook' = [hook EXCEPT !.pc = "done"]
    BY <1>1, <1>2 DEF HookCommit, Careful, Announces
  <2>2. hook' # Idle /\ hook'.pc = "done" /\ hook'.answer = hook.answer /\ hook'.pay = hook.pay
    BY <1>1, <2>1, HookKnows DEF Idle
  <2>3. PaidStays /\ (Clear' \/ Announces')
    <3>1. CASE ~hook.live
      BY <1>2, <2>1, <3>1 DEF HookCommit, rows, row, PaidStays, Clear
    <3>2. CASE hook.live /\ hook.answer = "approved"
      <4>1. ChargeSuccess(hook.pay) /\ hook.pay \in Payments
        BY <1>1, <1>2, <3>2, HookKnows DEF HookCommit
      <4>2. pay'[hook.pay].state = "succeeded"
        BY <4>1 DEF ChargeSuccess, Settle, Ledger, Books, PaymentRow
      <4> QED
        BY <2>2, <3>2, <4>1, <4>2, SuccessStays DEF Announces, Ledger
    <3>3. CASE hook.live /\ hook.answer # "approved"
      BY <1>2, <2>1, <3>3, FailureClears DEF HookCommit
    <3> QED
      BY <3>1, <3>2, <3>3
  <2> QED
    BY <1>1, <2>2, <2>3 DEF CarefulStep, Careful, Alone, CheckoutCareful, CancelCareful, JobCareful
<1>3. CASE HookSeal
  <2>1. hook' = Idle /\ UNCHANGED <<pinv, inv>>
    BY <1>3 DEF HookSeal
  <2>2. Clear'
    <3>1. CASE Clear
      BY <1>3, <2>1, <3>1 DEF HookSeal, Promote, Clear, Parked
    <3>2. CASE Announces
      BY <1>3, <3>2 DEF HookSeal, Promote, Announces, Clear, Parked
    <3> QED
      BY <1>1, <3>1, <3>2 DEF Careful
  <2> QED
    BY <1>1, <2>1, <2>2 DEF CarefulStep, Careful, Alone, CheckoutCareful, CancelCareful, JobCareful, PaidStays
<1> QED
  BY <1>2, <1>3

LEMMA ReconcileIsCareful == ASSUME Ledger, Careful, Reconcile PROVE CarefulStep
<1>1. rec # Idle /\ ck = Idle /\ cx = Idle /\ hook = Idle /\ Clear /\ UNCHANGED <<ck, cx, hook>>
  <2>1. rec.pc \in {"selected", "void"} /\ UNCHANGED <<ck, cx, hook>>
    BY Zenon DEF Reconcile, RecAsk, RecVoid, RecConfirm, RecCleanup
  <2>2. rec # Idle
    BY <2>1 DEF Idle
  <2> QED
    BY <2>1, <2>2 DEF Careful, Alone, Announces
<1>2. /\ rec.inv \in Invoices /\ inv \in [Invoices -> InvoiceRow]
      /\ [rec EXCEPT !.pc = "void"].inv = rec.inv
  BY <1>1, JobKnows DEF Ledger, Books
<1>3. CASE RecAsk
  <2>1. CASE inv[rec.inv].state = "paid"
    <3>1. rec' = Idle /\ UNCHANGED rows
      BY <1>3, <2>1, Zenon DEF RecAsk
    <3> QED
      BY <1>1, <3>1 DEF rows, row, Clear, PaidStays, CarefulStep, Careful, Alone, CheckoutCareful,
                        CancelCareful, JobCareful
  <2>2. CASE inv[rec.inv].state # "paid"
    <3>1. \/ UNCHANGED rows /\ rec' \in {Idle, [rec EXCEPT !.pc = "void"]}
          \/ Credit(rec.inv) /\ rec' = Idle
          \/ ChargeFailure(Last(rec.inv)) /\ rec' = [rec EXCEPT !.pc = "void"]
      BY <1>3, <2>2, Zenon DEF RecAsk
    <3>2. Clear' /\ PaidStays
      BY <1>1, <3>1, CreditClears, FailureClears DEF rows, row, Clear, PaidStays, Ledger
    <3>3. rec' = Idle \/ (rec'.inv = rec.inv /\ inv' = inv)
      BY <1>2, <3>1 DEF rows, ChargeFailure
    <3>4. JobCareful'
      BY <2>2, <3>3 DEF JobCareful
    <3> QED
      BY <1>1, <3>2, <3>4 DEF CarefulStep, Careful, Alone, CheckoutCareful, CancelCareful
  <2> QED
    BY <2>1, <2>2
<1>4. CASE RecVoid
  <2>1. rec' = Idle /\ inv[rec.inv].state # "paid"
    BY <1>1, <1>4 DEF RecVoid, Careful, JobCareful
  <2>2. UNCHANGED <<state, pinv, inv>> \/ (inv' = Void(rec.inv) /\ pinv' = NoInvoice)
    BY <1>4 DEF RecVoid, ClearPending
  <2>3. Clear' /\ PaidStays
    BY <1>1, <1>2, <2>1, <2>2 DEF Clear, Void, PaidStays
  <2> QED
    BY <1>1, <2>1, <2>3 DEF CarefulStep, Careful, Alone, CheckoutCareful, CancelCareful, JobCareful
<1>5. CASE RecConfirm \/ RecCleanup
  <2>1. rec' = Idle /\ UNCHANGED inv /\ (UNCHANGED <<state, pinv>> \/ pinv' = NoInvoice)
    BY <1>5 DEF RecConfirm, RecCleanup, Confirm, ClearPending, row
  <2> QED
    BY <1>1, <2>1 DEF Clear, PaidStays, CarefulStep, Careful, Alone, CheckoutCareful, CancelCareful, JobCareful
<1> QED
  BY <1>3, <1>4, <1>5 DEF Reconcile

LEMMA StutterIsCareful == ASSUME Careful, UNCHANGED vars PROVE CarefulStep
BY DEF vars, Careful, Alone, Clear, Announces, CheckoutCareful, CancelCareful, JobCareful,
       CarefulStep, PaidStays

LEMMA StepIsCareful ==
  ASSUME "overlap" \notin Env, "crash" \notin Env
  PROVE  Ledger /\ Careful /\ [Next]_vars => CarefulStep
<1>1. Next => ~(CommitDies \/ HookDies \/ RecDefers)
  BY DEF CommitDies, HookDies, RecDefers, On
<1> QED
  BY <1>1, ResponseIsCareful, NightIsCareful, BeginningIsCareful, CheckoutIsCareful, CancelIsCareful,
     WebhookIsCareful, ReconcileIsCareful, StutterIsCareful DEF Next, Decides

\* When requests, the webhook and the jobs take turns and none dies half way,
\* an invoice that was paid stays paid, for any plans, invoices and payments: the
\* reconcile job, a cancellation and a new emission void open invoices only, and
\* what is left is the checkout that voids the change it replaces.
THEOREM PaidIsFinalHolds ==
  ASSUME "overlap" \notin Env, "crash" \notin Env PROVE Spec => PaidIsFinal
<1>1. Init => Careful
  BY DEF Init, Careful, Alone, Clear, CheckoutCareful, CancelCareful, JobCareful
<1>2. Ledger /\ Careful /\ [Next]_vars => Careful'
  BY StepIsCareful DEF CarefulStep
<1>3. Ledger /\ Careful /\ [Next]_vars =>
        [ck.pc # "void" => \A i \in Invoices : inv[i].state = "paid" => inv'[i].state = "paid"]_vars
  BY StepIsCareful DEF CarefulStep, PaidStays
<1> QED
  BY <1>1, <1>2, <1>3, StartIsLedger, LedgerIsKept, PTL DEF Spec, PaidIsFinal

=============================================================================
