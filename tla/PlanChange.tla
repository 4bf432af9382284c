----------------------------- MODULE PlanChange -----------------------------
(***************************************************************************)
(* Buying a plan for an existing store: the checkout that parks the store  *)
(* in pending_payment behind an invoice and a payment widget, the webhook, *)
(* polling and reconciliation paths that learn what the gateway decided,   *)
(* the cancellation of the change, and the nightly jobs that go on around  *)
(* it.  The checkout is a sequence of separate transactions; every reader  *)
(* that acts later on what it read is a read step and a write step.        *)
(*                                                                         *)
(* Rows are numbered in the order they are created, so the most recent one *)
(* is the one with the greatest number.                                    *)
(***************************************************************************)
EXTENDS Integers, FiniteSets, SubscriptionStates

CONSTANTS
  Plans,         \* paid plans
  OldPlan,       \* the plan the store is on at the start
  Upgrades,      \* pairs of plans whose change is charged as a prorated upgrade
  MaxInvoices, MaxPayments,  \* bounds on the rows a behaviour creates
  NoPlan,        \* SQL NULL
  Env            \* which of EnvEvents happen in this run

EnvEvents == {"overlap", "tabs", "engine", "renewal", "pending", "crash"}

ASSUME PlansAssumption ==
  OldPlan \in Plans /\ NoPlan \notin Plans /\ Upgrades \subseteq Plans \X Plans
ASSUME BoundsAssumption == MaxInvoices \in Nat \ {0} /\ MaxPayments \in Nat \ {0}
ASSUME EnvAssumption == Env \subseteq EnvEvents

VARIABLES
  state, plan, paid,        \* the row: state, plan_id, paid_plan_id
  pending, pinv, revert,    \* pending_plan_id, pending_change_invoice_id, pending_revert_state
  inv, pay,                 \* subscription_invoices and subscription_payments
  txns,                     \* what the gateway decided on each payment's reference
  ck, cx, hook, rec,        \* checkout, cancellation, webhook worker, reconcile job
  sealed,                   \* webhook events marked as processed
  origin                    \* history: where the store was last parked from; no column keeps it

row == <<state, plan, paid, pending, pinv, revert>>
rows == <<row, inv, pay>>
procs == <<ck, cx, hook, rec>>
vars == <<state, plan, paid, pending, pinv, revert, inv, pay, txns, ck, cx, hook, rec, sealed,
          origin>>

Invoices == 1..MaxInvoices
Payments == 1..MaxPayments
NoInvoice == 0
NoState == "none"
Parked == "pending_payment"
Terminal == {"succeeded", "failed"}
\* What the gateway decides of a charge, and what it may say instead at first.
Answers == {"approved", "declined"}
Statuses == Answers \union {"pending"}
Means == {"widget", "card"}
SomePlan == Plans \union {NoPlan}
Idle == [pc |-> "idle"]

On(event) == event \in Env
Undisturbed == On("overlap") \/ \A p \in {ck, cx, hook, rec} : p = Idle

Checkouts == [pc: {"void", "park", "assign", "issue", "stamp", "widget"}, to: Plans,
              kind: {"park", "resume", "mid"}, from: States, assign: BOOLEAN,
              prorated: BOOLEAN, inv: Invoices \union {NoInvoice}]

TypeOK ==
  /\ state \in States /\ revert \in States \union {NoState}
  /\ plan \in SomePlan /\ paid \in SomePlan /\ pending \in SomePlan
  /\ pinv \in Invoices \union {NoInvoice}
  /\ (pinv = NoInvoice) = (pending = NoPlan) /\ (pinv = NoInvoice) = (revert = NoState)
  /\ inv \in [Invoices -> [state: {"none", "issued", "paid", "void"}, plan: SomePlan, to: SomePlan]]
  /\ pay \in [Payments -> [state: {"none", "pending"} \union Terminal, inv: Invoices \union {NoInvoice},
                        by: Means]]
  /\ txns \in [Payments -> SUBSET Statuses]
  /\ ck \in {Idle} \union Checkouts
  /\ cx \in {Idle} \union [pc: {"read"}, pinv: Invoices \union {NoInvoice}, revert: States]
  /\ hook \in {Idle} \union
       [pc: {"read", "done"}, pay: Payments, answer: Answers, live: BOOLEAN]
  /\ rec \in {Idle} \union
       [pc: {"selected", "void"}, inv: Invoices, seen: {"issued", "paid", "void"}, revert: States \union {NoState}]
  /\ sealed \subseteq Payments \X Answers
  /\ origin \in States \union {NoState}

Settled == {p \in Payments : pay[p].state = "succeeded"}
Rows(of) == {i \in DOMAIN of : of[i].state # "none"}
Issued == {i \in Invoices : inv[i].state = "issued"}
Newest(S) == CHOOSE i \in S : \A j \in S : j <= i
PaymentsOf(i) == {p \in Payments : pay[p].state # "none" /\ pay[p].inv = i}

\* A store on trial, or one that paid for its plan (invoice and payment 1) and
\* is now active, in grace, or closed.
Init ==
  /\ state \in {"trial", "active", "grace_soft", "suspended", "cancelled", "expired"}
  /\ plan = OldPlan /\ paid = (IF state = "trial" THEN NoPlan ELSE OldPlan)
  /\ pending = NoPlan /\ pinv = NoInvoice /\ revert = NoState
  /\ inv = [i \in Invoices |-> IF i = 1 /\ state # "trial"
              THEN [state |-> "paid", plan |-> OldPlan, to |-> OldPlan]
              ELSE [state |-> "none", plan |-> NoPlan, to |-> NoPlan]]
  /\ pay = [p \in Payments |-> IF p = 1 /\ state # "trial"
              THEN [state |-> "succeeded", inv |-> 1, by |-> "widget"]
              ELSE [state |-> "none", inv |-> NoInvoice, by |-> "widget"]]
  /\ txns = [p \in Payments |-> IF pay[p].state = "succeeded" THEN {"approved"} ELSE {}]
  /\ ck = Idle /\ cx = Idle /\ hook = Idle /\ rec = Idle
  /\ sealed = {<<p, "approved">> : p \in Settled}
  /\ origin = NoState

-----------------------------------------------------------------------------
(* The row *)

\* A bug to catch: the change is cleared and its way back is left behind.
ClearAllButRevert == pending' = NoPlan /\ pinv' = NoInvoice /\ UNCHANGED revert
ClearPending == pending' = NoPlan /\ pinv' = NoInvoice /\ revert' = NoState
KeepPending == UNCHANGED <<pending, pinv, revert>>

\* pending_* stamped together by the checkout.
StampPending(to, i, back) == pending' = to /\ pinv' = i /\ revert' = back

\* ensureOperationalInTx: every state of this model has a route to active.
Operate == state' = (IF state \in Operational THEN state ELSE "active")

\* The store is parked behind its change, from the state it is in.
Park == state' = Parked /\ origin' = state

Void(i) == [inv EXCEPT ![i].state = "void"]

-----------------------------------------------------------------------------
(* Invoices and payments *)

\* issueInvoice reuses the newest open invoice of the row's plan; a prorated
\* emission never looks for one.
Reusable(prorated) ==
  IF ~prorated /\ Issued # {}
  THEN {i \in {Newest(Issued)} : inv[i].plan \in {plan, NoPlan}} ELSE {}

\* Otherwise the newest open invoice, of another plan, is voided with its
\* pending payments, and a new one is created.
Replaced(prorated) == IF prorated \/ Issued = {} THEN {} ELSE {Newest(Issued)}

HasSlot == Cardinality(Rows(inv)) < MaxInvoices
NextInvoice == Cardinality(Rows(inv)) + 1

\* onPlan is the plan of the new invoice's line, to its to_plan_id.
Issue(i, onPlan, to, prorated) ==
  IF Reusable(prorated) # {}
  THEN i \in Reusable(prorated) /\ UNCHANGED <<inv, pay>>
  ELSE /\ HasSlot /\ i = NextInvoice
       /\ inv' = [j \in Invoices |->
                    IF j = i THEN [state |-> "issued", plan |-> onPlan, to |-> to]
                    ELSE IF j \in Replaced(prorated) THEN [inv[j] EXCEPT !.state = "void"]
                    ELSE inv[j]]
       /\ pay' = [p \in Payments |->
                    IF pay[p].state = "pending" /\ pay[p].inv \in Replaced(prorated)
                    THEN [pay[p] EXCEPT !.state = "failed"] ELSE pay[p]]

\* prepareWidgetCharge: a pending payment with a reference of its own.
HasPaymentSlot == Cardinality(Rows(pay)) < MaxPayments
NextPayment == Cardinality(Rows(pay)) + 1
Charge(i) == pay' = [pay EXCEPT ![NextPayment] = [state |-> "pending", inv |-> i, by |-> "widget"]]

\* confirmPendingChange: a mismatch returns silently, a match grants the plan
\* and brings the store back.
\* A bug to catch: any pending change is confirmed by any invoice.
MatchesAnyInvoice(i) == pending # NoPlan
Matches(i) == pending # NoPlan /\ pending = inv[i].to
Confirm(i) ==
  IF Matches(i)
  THEN plan' = pending /\ paid' = pending /\ ClearPending /\ Operate
  ELSE UNCHANGED row

\* handleChargeSuccess writes the payment and the invoice whatever they were;
\* a plan change is confirmed, any other invoice reactivates the store.
Settle(p) ==
  /\ pay' = [pay EXCEPT ![p].state = "succeeded"]
  /\ inv' = [inv EXCEPT ![pay[p].inv].state = "paid"]
ChargeSuccess(p) ==
  /\ Settle(p)
  /\ IF inv[pay[p].inv].to # NoPlan THEN Confirm(pay[p].inv)
     ELSE Operate /\ UNCHANGED <<plan, paid, pending, pinv, revert>>

\* handleChargeFailure: the change waiting for this invoice is undone, an
\* illegal way back is swallowed; the invoice stays open.
ChargeFailure(p) ==
  /\ pay' = [pay EXCEPT ![p].state = "failed"]
  /\ IF pinv # NoInvoice /\ pinv = pay[p].inv /\ state = Parked /\ revert # NoState
     THEN ClearPending /\ state' = (IF Accepted(state, revert) THEN revert ELSE state)
     ELSE KeepPending /\ UNCHANGED state
  /\ UNCHANGED <<plan, paid, inv>>

-----------------------------------------------------------------------------
(* Checkout: POST commit, a sequence of transactions *)

First(kind, assign) ==
  CASE kind = "park" -> "park" [] kind = "resume" -> (IF assign THEN "assign" ELSE "issue")
    [] OTHER -> "issue"

\* The row is read once, without a lock, and decides the branch: closed stores
\* and live trials re-subscribe, a parked one resumes, the others change plan
\* mid-cycle.  A trial whose window lapsed (live = FALSE) counts as the latter,
\* at full price.
\* The same pending plan with an open invoice only gets another widget; a
\* different one is voided first.
CommitRead(to, live) ==
  LET kind == IF state \in {"cancelled", "expired", "no_plan"} \/ (state = "trial" /\ live) THEN "park"
              ELSE IF state = Parked THEN "resume" ELSE "mid"
      from == IF paid = NoPlan THEN plan ELSE paid
      retried == pending = to /\ pinv # NoInvoice /\ inv[pinv].state = "issued"
      stale == pending \notin {NoPlan, to} /\ pinv # NoInvoice
  IN /\ ck = Idle /\ Undisturbed
     /\ retried \/ HasSlot
     /\ HasPaymentSlot
     /\ ck' = [pc |-> IF retried THEN "widget" ELSE IF stale THEN "void" ELSE First(kind, plan # to),
               to |-> to, kind |-> kind, from |-> state, assign |-> plan # to,
               prorated |-> kind = "mid" /\ state # "trial" /\ <<from, to>> \in Upgrades,
               inv |-> IF retried \/ stale THEN pinv ELSE NoInvoice]
     /\ UNCHANGED <<rows, txns, cx, hook, rec, sealed, origin>>

\* voidPendingChange on the row as it was read.
CommitVoid ==
  /\ ck.pc = "void"
  /\ inv' = Void(ck.inv) /\ ClearPending
  /\ ck' = [ck EXCEPT !.pc = First(ck.kind, ck.assign), !.inv = NoInvoice]
  /\ UNCHANGED <<state, plan, paid, pay, txns, cx, hook, rec, sealed, origin>>

\* transition to pending_payment; an illegal one ends the request.
CommitPark ==
  /\ ck.pc = "park"
  /\ IF Accepted(state, Parked)
     THEN Park /\ ck' = [ck EXCEPT !.pc = "assign"]
     ELSE UNCHANGED <<state, origin>> /\ ck' = Idle
  /\ UNCHANGED <<plan, paid, pending, pinv, revert, inv, pay, txns, cx, hook, rec, sealed>>

\* applyResubscribe: plan_id moves to the target before anything is paid.
CommitAssign ==
  /\ ck.pc = "assign"
  /\ plan' = ck.to
  /\ ck' = [ck EXCEPT !.pc = "issue"]
  /\ UNCHANGED <<state, paid, pending, pinv, revert, inv, pay, txns, cx, hook, rec, sealed, origin>>

\* The line of a mid-cycle change that is not prorated names the target plan.
CommitIssue ==
  /\ ck.pc = "issue"
  /\ \E i \in Invoices :
       /\ Issue(i, IF ck.kind = "mid" /\ ~ck.prorated THEN ck.to ELSE plan, ck.to, ck.prorated)
       /\ ck' = [ck EXCEPT !.pc = "stamp", !.inv = i]
  /\ UNCHANGED <<row, txns, cx, hook, rec, sealed, origin>>

\* The way back the checkout records: the state it read, but "cancelled" from
\* the branch of a parked store.
\* A bug to catch: a way back that an earlier change recorded is kept.
WayBackKept ==
  IF revert # NoState THEN revert ELSE IF ck.kind = "resume" THEN "cancelled" ELSE ck.from
WayBack == IF ck.kind = "resume" THEN "cancelled" ELSE ck.from

\* pending_* are written without looking at the row; only the mid-cycle branch
\* also transitions, in the same transaction.
CommitStamp ==
  /\ ck.pc = "stamp"
  /\ LET lands == ck.kind # "mid" \/ Accepted(state, Parked) IN
        IF lands
        THEN /\ StampPending(ck.to, ck.inv, WayBack)
             /\ IF ck.kind = "mid" THEN Park ELSE UNCHANGED <<state, origin>>
             /\ ck' = [ck EXCEPT !.pc = "widget"]
        ELSE KeepPending /\ UNCHANGED <<state, origin>> /\ ck' = Idle
  /\ UNCHANGED <<plan, paid, inv, pay, txns, cx, hook, rec, sealed>>

CommitWidget ==
  /\ ck.pc = "widget"
  /\ IF inv[ck.inv].state \in {"paid", "void"} THEN UNCHANGED pay ELSE HasPaymentSlot /\ Charge(ck.inv)
  /\ ck' = Idle
  /\ UNCHANGED <<row, inv, txns, cx, hook, rec, sealed, origin>>

Commit == CommitVoid \/ CommitPark \/ CommitAssign \/ CommitIssue \/ CommitStamp \/ CommitWidget

\* The request dies between two of its transactions: a restart, or one of the
\* later calls throws.
CommitDies ==
  /\ On("crash") /\ ck # Idle
  /\ ck' = Idle
  /\ UNCHANGED <<rows, txns, cx, hook, rec, sealed, origin>>

\* POST retry-payment: another widget on the newest open invoice.
RetryPayment ==
  /\ On("tabs") /\ Undisturbed
  /\ state = Parked /\ Issued # {} /\ HasPaymentSlot
  /\ Charge(Newest(Issued))
  /\ UNCHANGED <<row, inv, txns, procs, sealed, origin>>

-----------------------------------------------------------------------------
(* DELETE pending-change *)

CancelRead ==
  /\ cx = Idle /\ Undisturbed
  /\ state = Parked /\ pending # NoPlan
  /\ cx' = [pc |-> "read", pinv |-> pinv, revert |-> IF revert = NoState THEN "cancelled" ELSE revert]
  /\ UNCHANGED <<rows, txns, ck, hook, rec, sealed, origin>>

\* One transaction on what was read; an illegal way back rolls all of it back.
CancelCommit ==
  /\ cx.pc = "read"
  /\ IF Accepted(state, cx.revert)
     THEN /\ state' = cx.revert
          /\ IF cx.pinv # NoInvoice THEN inv' = Void(cx.pinv) /\ ClearPending
                                    ELSE KeepPending /\ UNCHANGED inv
     ELSE UNCHANGED <<state, pending, pinv, revert, inv>>
  /\ cx' = Idle
  /\ UNCHANGED <<plan, paid, pay, txns, ck, hook, rec, sealed, origin>>

-----------------------------------------------------------------------------
(* The gateway and its webhook *)

\* The customer pays in a widget: a reference may be declined and then
\* approved.  With "tabs" the widgets opened before the newest stay usable.
WidgetPays(p, answer) ==
  /\ pay[p].state # "none" /\ pay[p].by = "widget"
  /\ "approved" \notin txns[p] /\ answer \notin txns[p]
  /\ On("tabs") \/ p = Newest(Rows(pay))
  /\ Undisturbed
  /\ txns' = [txns EXCEPT ![p] = @ \union {answer}]
  /\ UNCHANGED <<rows, procs, sealed, origin>>

\* handleWompiEvent: an event not sealed yet is claimed, and the guard reads
\* whether the payment is terminal.
HookRead(p, answer) ==
  /\ hook = Idle /\ Undisturbed
  /\ answer \in txns[p] /\ <<p, answer>> \notin sealed
  /\ hook' = [pc |-> "read", pay |-> p, answer |-> answer, live |-> pay[p].state \notin Terminal]
  /\ UNCHANGED <<rows, txns, ck, cx, rec, sealed, origin>>

HookCommit ==
  /\ hook.pc = "read"
  /\ IF ~hook.live THEN UNCHANGED rows
     ELSE IF hook.answer = "approved" THEN ChargeSuccess(hook.pay) ELSE ChargeFailure(hook.pay)
  /\ hook' = [hook EXCEPT !.pc = "done"]
  /\ UNCHANGED <<txns, ck, cx, rec, sealed, origin>>

\* subscription.payment.succeeded: the listener promotes a parked store; other
\* states are left to the cron (event-driven state is off by default).
Promote(settled) == state' = (IF settled /\ state = Parked THEN "active" ELSE state)

\* After the commit the event is sealed and an approved one announced, also
\* when the guard found the payment already succeeded.
HookSeal ==
  /\ hook.pc = "done"
  /\ sealed' = sealed \union {<<hook.pay, hook.answer>>}
  /\ Promote(hook.answer = "approved" /\ pay[hook.pay].state = "succeeded")
  /\ hook' = Idle
  /\ UNCHANGED <<plan, paid, pending, pinv, revert, inv, pay, txns, ck, cx, rec, origin>>

\* The worker restarts before or after its commit; the event stays unsealed.
HookDies ==
  /\ On("crash") /\ hook # Idle
  /\ hook' = Idle
  /\ UNCHANGED <<rows, txns, ck, cx, rec, sealed, origin>>

-----------------------------------------------------------------------------
(* Asking the gateway: syncInvoiceFromGateway *)

\* restorePendingChangeForReopenedInvoice followed by the success path: the
\* stamped change matches, so the plan is granted.
ReopenAndConfirm(p) ==
  IF inv[pay[p].inv].to = NoPlan THEN ChargeSuccess(p)
  ELSE /\ Settle(p)
       /\ plan' = inv[pay[p].inv].to /\ paid' = inv[pay[p].inv].to
       /\ ClearPending /\ Operate

\* Only the newest payment of the invoice is asked about.  The post-commit
\* event promotes a store that is still parked.
Last(i) == Newest(PaymentsOf(i))
Answered(i) == PaymentsOf(i) # {} /\ pay[Last(i)].state = "pending" /\ txns[Last(i)] # {}
\* A bug to catch: a known transaction is taken for an approved one.
CreditedWhateverTheStatus(i) == Answered(i)
Credited(i) == Answered(i) /\ "approved" \in txns[Last(i)]

Credit(i) ==
  IF inv[i].state = "void" THEN ReopenAndConfirm(Last(i))
  ELSE /\ Settle(Last(i))
       /\ IF inv[i].to # NoPlan /\ Matches(i)
          THEN Confirm(i)
          ELSE /\ state' = (IF inv[i].to = NoPlan \/ state = Parked
                            THEN (IF state \in Operational THEN state ELSE "active") ELSE state)
               /\ UNCHANGED <<plan, paid, pending, pinv, revert>>

Sync(i) ==
  /\ Undisturbed
  /\ inv[i].state \in {"issued", "void"} /\ Answered(i)
  /\ IF Credited(i) THEN Credit(i) ELSE ChargeFailure(Last(i))
  /\ UNCHANGED <<txns, procs, sealed, origin>>

-----------------------------------------------------------------------------
(* ReconcileStuckPendingJob, every five minutes *)

RecSelect ==
  /\ rec = Idle /\ Undisturbed
  /\ state = Parked /\ pinv # NoInvoice
  /\ rec' = [pc |-> "selected", inv |-> pinv, seen |-> inv[pinv].state, revert |-> revert]
  /\ UNCHANGED <<rows, txns, ck, cx, hook, sealed, origin>>

\* A bug to catch: the pass goes on to void what it has just credited.
RecAskThenVoids ==
  /\ rec.pc = "selected" /\ rec.seen = "issued"
  /\ rec' = [rec EXCEPT !.pc = "void"]
  /\ IF Credited(rec.inv) THEN Credit(rec.inv)
     ELSE IF Answered(rec.inv) THEN ChargeFailure(Last(rec.inv)) ELSE UNCHANGED rows
  /\ UNCHANGED <<txns, ck, cx, hook, sealed, origin>>

\* A bug to catch: a reference nobody paid defers the decision every time.
RecAskDefersUnpaid ==
  /\ rec.pc = "selected" /\ rec.seen = "issued"
  /\ rec' = IF Answered(rec.inv) /\ ~Credited(rec.inv) THEN [rec EXCEPT !.pc = "void"] ELSE Idle
  /\ IF Credited(rec.inv) THEN Credit(rec.inv)
     ELSE IF Answered(rec.inv) THEN ChargeFailure(Last(rec.inv)) ELSE UNCHANGED rows
  /\ UNCHANGED <<txns, ck, cx, hook, sealed, origin>>

\* shouldVoidStuckInvoice: credited, or nothing certain, ends the pass; no
\* payment, a failed one or a reference the gateway does not know voids.
RecAsk ==
  /\ rec.pc = "selected" /\ rec.seen = "issued"
  /\ LET i == rec.inv IN
     CASE inv[i].state = "paid" -> rec' = Idle /\ UNCHANGED rows
       [] inv[i].state # "paid" /\ Answered(i) ->
            /\ rec' = IF Credited(i) THEN Idle ELSE [rec EXCEPT !.pc = "void"]
            /\ IF Credited(i) THEN Credit(i) ELSE ChargeFailure(Last(i))
       [] inv[i].state # "paid" /\ ~Answered(i) ->
            /\ rec' = IF PaymentsOf(i) # {} /\ pay[Last(i)].state = "succeeded" THEN Idle
                      ELSE [rec EXCEPT !.pc = "void"]
            /\ UNCHANGED rows
  /\ UNCHANGED <<txns, ck, cx, hook, sealed, origin>>

\* The gateway does not answer: the pass ends.
RecDefers ==
  /\ rec.pc = "selected" /\ rec.seen = "issued" /\ On("crash")
  /\ rec' = Idle
  /\ UNCHANGED <<rows, txns, ck, cx, hook, sealed, origin>>

\* The invoice is voided and the change undone as it was selected, in one
\* transaction that an illegal way back rolls back.
RecVoid ==
  /\ rec.pc = "void"
  /\ LET back == IF rec.revert = NoState THEN "cancelled" ELSE rec.revert IN
     IF Accepted(state, back)
     THEN inv' = Void(rec.inv) /\ ClearPending /\ state' = back
     ELSE UNCHANGED <<inv, state, pending, pinv, revert>>
  /\ rec' = Idle
  /\ UNCHANGED <<plan, paid, pay, txns, ck, cx, hook, sealed, origin>>

RecConfirm ==
  /\ rec.pc = "selected" /\ rec.seen = "paid"
  /\ Confirm(rec.inv)
  /\ rec' = Idle
  /\ UNCHANGED <<inv, pay, txns, ck, cx, hook, sealed, origin>>

RecCleanup ==
  /\ rec.pc = "selected" /\ rec.seen = "void"
  /\ LET back == IF rec.revert = NoState THEN state ELSE rec.revert IN
     IF Accepted(state, back)
     THEN ClearPending /\ state' = back ELSE UNCHANGED <<state, pending, pinv, revert>>
  /\ rec' = Idle
  /\ UNCHANGED <<plan, paid, inv, pay, txns, ck, cx, hook, sealed, origin>>

\* reconcileLegacyStuckPayments: a parked store without a change and with any
\* succeeded payment in its history is brought back.
RecLegacy ==
  /\ Undisturbed
  /\ state = Parked /\ pinv = NoInvoice /\ Settled # {}
  /\ Operate
  /\ UNCHANGED <<plan, paid, pending, pinv, revert, inv, pay, txns, procs, sealed, origin>>

Reconcile == RecAsk \/ RecVoid \/ RecConfirm \/ RecCleanup

-----------------------------------------------------------------------------
(* The nightly jobs, as far as they touch the same rows *)

\* The state engine or a cancellation takes the store down the ladder; a
\* parked store is evaluated like any other.
Lapse(to) ==
  /\ On("engine") /\ Undisturbed
  /\ state # to /\ Legal(state, to)
  /\ \/ state = "trial" /\ to \in {"expired", "cancelled"}
     \/ state \notin {"trial", "cancelled", "expired"} /\ to \in {"grace_soft", "grace_hard", "suspended", "cancelled"}
  /\ state' = to
  /\ UNCHANGED <<plan, paid, pending, pinv, revert, inv, pay, txns, procs, sealed, origin>>

\* The renewal job issues, or reuses, an invoice without a target plan.
Renew ==
  /\ On("renewal") /\ Undisturbed
  /\ state \in {"active", "grace_soft", "grace_hard"}
  /\ \E i \in Invoices : Issue(i, plan, NoPlan, FALSE)
  /\ UNCHANGED <<row, txns, procs, sealed, origin>>

\* charge with the saved card: the answer comes back in the same call, and
\* every status but ERROR and DECLINED counts as success, PENDING included.
ChargeCard(status) ==
  /\ On("renewal") /\ Undisturbed
  /\ status = "pending" => On("pending")
  /\ state \in {"active", "grace_soft", "grace_hard"} /\ Issued # {} /\ HasPaymentSlot
  /\ LET i == Newest(Issued) IN
     /\ txns' = [txns EXCEPT ![NextPayment] = {status}]
     /\ pay' = [pay EXCEPT ![NextPayment] =
                  [state |-> IF status = "declined" THEN "failed" ELSE "succeeded",
                   inv |-> i, by |-> "card"]]
     /\ IF status # "declined"
        THEN /\ inv' = [inv EXCEPT ![i].state = "paid"]
             /\ IF inv[i].to # NoPlan THEN Confirm(i)
                ELSE Operate /\ UNCHANGED <<plan, paid, pending, pinv, revert>>
        ELSE UNCHANGED <<inv, row>>
  /\ UNCHANGED <<procs, sealed, origin>>

\* The gateway decides a charge it had left pending; the payment is terminal by
\* now, so the webhook that says so changes nothing of it.
CardSettles(p, answer) ==
  /\ txns[p] = {"pending"} /\ Undisturbed
  /\ txns' = [txns EXCEPT ![p] = @ \union {answer}]
  /\ UNCHANGED <<rows, procs, sealed, origin>>

-----------------------------------------------------------------------------
Next ==
  \/ \E to \in Plans, live \in BOOLEAN : CommitRead(to, live)
  \/ Commit \/ CommitDies \/ RetryPayment
  \/ CancelRead \/ CancelCommit
  \/ \E p \in Payments, a \in Answers : WidgetPays(p, a) \/ HookRead(p, a) \/ CardSettles(p, a)
  \/ HookCommit \/ HookSeal \/ HookDies
  \/ \E i \in Invoices : Sync(i)
  \/ RecSelect \/ Reconcile \/ RecDefers \/ RecLegacy
  \/ \E to \in States : Lapse(to)
  \/ Renew \/ \E s \in Statuses : ChargeCard(s)

Spec == Init /\ [][Next]_vars

\* The reconcile job passes again and again, a request that began finishes or
\* dies; nothing is assumed of the customer or of the webhook.
FairSpec == Spec /\ WF_vars(Commit) /\ WF_vars(CancelCommit)
                 /\ WF_vars(HookCommit \/ HookSeal) /\ SF_vars(RecSelect) /\ SF_vars(Reconcile)

\* The gateway took the charge: it approved it, or accepted it and left it
\* pending.
Taken(p) == txns[p] \cap {"approved", "pending"} # {}

\* The paid plan seen from the gateway: Purchase is implemented.
Charged == {inv[pay[p].inv].to : p \in {q \in Payments : Taken(q)}} \ {NoPlan}
Bought == INSTANCE Purchase WITH charged <- Charged, bought <- paid
\* Whatever path confirms a change, paid_plan_id only becomes a plan whose
\* invoice the gateway took a charge for.
ImplementsPurchase == Bought!Spec

\* An invoice is marked paid only when the gateway took a charge for it.
PaidInvoiceWasTaken ==
  \A i \in Invoices : inv[i].state = "paid" => \E p \in PaymentsOf(i) : Taken(p)

\* Where no card charge is left pending, an invoice is marked paid only when the
\* gateway approved a payment of it.
PaidInvoiceIsCollected ==
  \A i \in Invoices : inv[i].state = "paid" => \E p \in PaymentsOf(i) : "approved" \in txns[p]

\* When requests and jobs neither overlap nor die half way, neither the
\* reconcile job nor a cancellation voids an invoice that was paid (a second
\* checkout may).
PaidIsFinal ==
  [][ck.pc # "void" => \A i \in Invoices : inv[i].state = "paid" => inv'[i].state = "paid"]_vars

\* When requests and jobs neither overlap nor die half way, whoever undoes the
\* change of a parked store (the customer, a declined payment, the reconcile
\* job) finds in pending_revert_state, which the checkout writes in another
\* transaction than the one that parks the store, the state it was parked from,
\* or "cancelled": never a service the store had lost by then, nor the parking
\* itself.
GoesHome ==
  ck = Idle /\ state = Parked /\ pinv # NoInvoice => revert \in {origin, "cancelled"}

\* A store parked for a change is eventually confirmed or brought back, even if
\* the customer walks away and every webhook is lost.
ParkedIsResolved == (state = Parked /\ pinv # NoInvoice) ~> ~(state = Parked /\ pinv # NoInvoice)

\* Where no card charge is left pending, the plan a store has paid for is one the
\* gateway approved a payment for; a charge left pending is booked as paid and
\* grants the plan it is for.
PaidPlanIsApproved ==
  paid # NoPlan => \E p \in Payments : "approved" \in txns[p] /\ inv[pay[p].inv].to = paid
=============================================================================
