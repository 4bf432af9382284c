------------------------------- MODULE Dunning -------------------------------
(***************************************************************************)
(* One store's subscription between two plan changes: the renewal job that *)
(* bills it, the charges and retries that collect the bill, the nightly    *)
(* engine that degrades a lapsed store rung by rung, the reactivation      *)
(* every collected payment triggers, and the cancellations.                *)
(*                                                                         *)
(* Dates are kept as distances to the present in whole days: left is       *)
(* current_period_end - now, due is next_billing_at - now, sched is        *)
(* scheduled_cancel_at - now.  A day passing decrements all of them, down  *)
(* to Floor, beyond which the code cannot tell two dates apart.            *)
(*                                                                         *)
(* A job reads the row without a lock and writes it later, so each job is  *)
(* a read action and a write action with a snapshot in between.            *)
(***************************************************************************)
EXTENDS Integers, FiniteSets, SubscriptionStates

CONSTANTS
  SoftDays, HardDays, SuspensionDay, CancellationDay, \* dunning cadence of the plan
  Cycle,          \* billing cycle in days
  TrialDays,      \* default_trial_days
  Invoices,       \* slots for the invoices alive at a time
  MaxAttempts,    \* attempts of the retry queue
  Env             \* which of EnvEvents happen in this run

EnvEvents == {"overlap", "retry", "customer", "widget", "manual", "plan",
              "chargeback", "cancel", "cards", "pending", "timeout", "crash"}

ASSUME CadenceAssumption ==
  /\ {SoftDays, HardDays, SuspensionDay, CancellationDay} \subseteq Nat
  /\ 0 < SoftDays /\ SoftDays < HardDays
  /\ HardDays < SuspensionDay /\ SuspensionDay < CancellationDay
ASSUME CycleAssumption == Cycle \in Nat \ {0} /\ TrialDays \in 1..Cycle
ASSUME AttemptsAssumption == MaxAttempts \in Nat
ASSUME EnvAssumption == Env \subseteq EnvEvents

VARIABLES
  state, lock, left, due, sched,   \* the subscription row
  auto, paused, card,              \* auto_renew, the open pause of the autopay gate, an eligible card
  planLive,                        \* the plan is neither inactive nor archived
  inv, ends, captured, unsettled,  \* invoices: state, period_end - now, captures, undecided gateway charges
  flight, queue,                   \* the invoice each charger is charging; retry attempts left per invoice
  renew, cron                      \* snapshots of the two jobs

rowVars == <<state, lock, left, due, sched>>
payVars == <<auto, paused, card>>
invVars == <<inv, ends, captured, unsettled>>
vars == <<state, lock, left, due, sched, auto, paused, card, planLive,
          inv, ends, captured, unsettled, flight, queue, renew, cron>>

Floor == -(CancellationDay + 1)
Never == Floor - 1   \* SQL NULL
NoInvoice == "no_invoice"
Chargers == {"cron", "retry", "customer", "widget"}
Billable == {"active", "grace_soft", "grace_hard"}
NotEvaluated == {"cancelled", "expired", "draft", "no_plan"}
DunningStates == {"trial", "active", "grace_soft", "grace_hard", "suspended",
                  "cancelled", "expired"}

IdleRenewal == [pc |-> "idle"]
IdleCron == [pc |-> "idle"]

On(event) == event \in Env

\* Without "overlap" nobody touches the row between a job's read and its write.
Undisturbed == On("overlap") \/ (renew.pc = "idle" /\ cron.pc = "idle")

\* No charge is waiting for a synchronous answer.
Calm == \A c \in Chargers \ {"widget"} : flight[c] = NoInvoice

Dates == Floor..(2 * Cycle)

Snapshots == [pc: {"selected"}, state: Billable, sched: Dates \union {Never},
              auto: BOOLEAN, planLive: BOOLEAN, left: Dates]
Issuances == [pc: {"issued"}, auto: BOOLEAN, invoice: Invoices]
Verdicts == [pc: {"decided"}, target: DunningStates, lock: Locks]

TypeOK ==
  /\ state \in DunningStates /\ lock \in Locks
  /\ left \in Dates /\ due \in Dates /\ sched \in Dates \union {Never}
  /\ auto \in BOOLEAN /\ paused \in BOOLEAN /\ card \in BOOLEAN /\ planLive \in BOOLEAN
  /\ inv \in [Invoices -> {"none", "issued", "paid"}]
  /\ ends \in [Invoices -> Dates]
  /\ captured \in [Invoices -> 0..2] /\ unsettled \in [Invoices -> 0..2]
  /\ flight \in [Chargers -> Invoices \union {NoInvoice}]
  /\ queue \in [Invoices -> 0..MaxAttempts]
  /\ renew \in {IdleRenewal} \union Snapshots \union Issuances
  /\ cron \in {IdleCron} \union Verdicts

\* A trial as created by subscription-trial.service, or a paid plan at the
\* start of its first cycle.
Init ==
  /\ \/ state = "trial" /\ left = TrialDays /\ auto = TRUE /\ card = FALSE /\ paused = FALSE
     \/ state = "active" /\ left = Cycle /\ card \in BOOLEAN /\ auto = card /\ paused = ~card
  /\ due = left /\ lock = NoLock /\ sched = Never /\ planLive = TRUE
  /\ inv = [i \in Invoices |-> "none"] /\ ends = [i \in Invoices |-> 0]
  /\ captured = [i \in Invoices |-> 0] /\ unsettled = [i \in Invoices |-> 0]
  /\ flight = [c \in Chargers |-> NoInvoice] /\ queue = [i \in Invoices |-> 0]
  /\ renew = IdleRenewal /\ cron = IdleCron

-----------------------------------------------------------------------------
(* Transitions and reactivation *)

\* A bug to catch: no look at the TRANSITIONS table.
MovesUnchecked(to) == state # to

\* transition() committed against the row as it is now; a no-op or an illegal
\* move (which throws, and every caller here swallows) leaves it alone.
Moves(to) == state # to /\ Legal(state, to)
Transition(to, given) ==
  IF Moves(to) THEN state' = to /\ lock' = LockAfter(to, given, lock)
               ELSE UNCHANGED <<state, lock>>

\* computeReactivationWindow without a requested period: a cycle from now
\* minus the whole days consumed past the period end, never under one day.
Overdue(l) == IF l < 0 THEN -l ELSE 0
\* A bug to catch: the discount is not capped.
DiscountUncapped(l) == Overdue(l)
Discount(l) == IF Overdue(l) < Cycle - 1 THEN Overdue(l) ELSE Cycle - 1
Window(l) == Cycle - Discount(l)

\* ensureOperationalInTx followed by applyReactivationWindow; it does nothing
\* on a store that already operates.
Reactivate ==
  IF state \in Operational
  THEN UNCHANGED rowVars
  ELSE /\ state' = "active" /\ lock' = NoLock /\ sched' = Never
       /\ left' = (IF left <= 0 THEN Window(left) ELSE left)
       /\ due' = (IF left <= 0 THEN Window(left) ELSE due)

\* A bug to catch: autopay is armed whether or not there is a card.
RearmWithoutCard(hasCard) ==
  /\ card' = hasCard
  /\ paused' = ~hasCard
  /\ auto' = (auto \/ paused \/ state \notin Operational)

\* The gates of handleChargeSuccess around auto_renew: without an eligible
\* card autopay is paused; with one, an open pause or a reactivation arms it.
Rearm(hasCard) ==
  /\ card' = hasCard
  /\ paused' = ~hasCard
  /\ auto' = (hasCard /\ (auto \/ paused \/ state \notin Operational))

\* One more capture, counted up to two.
Captured(i) == [captured EXCEPT ![i] = IF @ < 2 THEN @ + 1 ELSE 2]

\* handleChargeSuccess: payment succeeded, invoice paid whatever it was,
\* autopay gates, reactivation.
ChargeSuccess(i, hasCard) ==
  /\ inv' = [inv EXCEPT ![i] = "paid"]
  /\ Rearm(hasCard)
  /\ Reactivate

-----------------------------------------------------------------------------
(* Renewal job, 02:00 every day *)

RenewSelect ==
  /\ renew.pc = "idle" /\ flight["cron"] = NoInvoice
  /\ Undisturbed /\ (On("overlap") \/ Calm)
  /\ state \in Billable /\ due <= 1
  /\ renew' = [pc |-> "selected", state |-> state, sched |-> sched,
               auto |-> auto, planLive |-> planLive, left |-> left]
  /\ UNCHANGED <<rowVars, payVars, planLive, invVars, flight, queue, cron>>

\* The scheduled cancellation is due: a plain update of the row, decided on
\* the snapshot and outside transition().
CancelIsDue == renew.sched # Never /\ renew.sched <= 0
RenewCancel ==
  /\ renew.pc = "selected" /\ CancelIsDue
  /\ state' = "cancelled" /\ sched' = Never /\ auto' = FALSE
  /\ renew' = IdleRenewal
  /\ UNCHANGED <<lock, left, due, paused, card, planLive, invVars, flight, queue, cron>>

\* handleUnavailablePlanAtRenewal.
RenewPlanRetired ==
  /\ renew.pc = "selected" /\ ~CancelIsDue /\ ~renew.planLive
  /\ IF renew.left <= 0 /\ renew.state = "active"
     THEN Transition("grace_soft", "plan_retired")
     ELSE UNCHANGED <<state, lock>>
  /\ renew' = IdleRenewal
  /\ UNCHANGED <<left, due, sched, payVars, planLive, invVars, flight, queue, cron>>

Open == {i \in Invoices : inv[i] = "issued"}
\* A slot is taken again once nothing is charging or settling its invoice; a
\* retry still queued for a paid invoice would skip it.
FreeSlots == {i \in Invoices \ Open : unsettled[i] = 0 /\ \A c \in Chargers : flight[c] # i}

\* A bug to catch: the open invoice is not looked for.
NewInvoiceNoReuse(i) ==
  /\ i \in FreeSlots
  /\ inv' = [inv EXCEPT ![i] = "issued"]
  /\ ends' = [ends EXCEPT ![i] = left + Cycle]
  /\ captured' = [captured EXCEPT ![i] = 0]
  /\ queue' = [queue EXCEPT ![i] = 0]

\* issueInvoice under the row lock: the latest open invoice is reused,
\* otherwise a new one covers the cycle that follows the current period.
NewInvoice(i) ==
  /\ Open = {} /\ i \in FreeSlots
  /\ inv' = [inv EXCEPT ![i] = "issued"]
  /\ ends' = [ends EXCEPT ![i] = left + Cycle]
  /\ captured' = [captured EXCEPT ![i] = 0]
  /\ queue' = [queue EXCEPT ![i] = 0]
ReusedInvoice(i) == i \in Open /\ UNCHANGED <<inv, ends, captured, queue>>
RenewIssue ==
  /\ renew.pc = "selected" /\ ~CancelIsDue /\ renew.planLive
  /\ \E i \in Invoices :
       /\ NewInvoice(i) \/ ReusedInvoice(i)
       /\ renew' = [pc |-> "issued", auto |-> renew.auto, invoice |-> i]
  /\ UNCHANGED <<rowVars, payVars, planLive, unsettled, flight, cron>>

\* next_billing_at moves to the end of the invoice, then the charge starts if
\* autopay was on in the snapshot and there is an eligible card now; autopay
\* without a card is paused.
RenewAdvance ==
  /\ renew.pc = "issued"
  /\ due' = ends[renew.invoice]
  /\ flight' = [flight EXCEPT !["cron"] =
                  IF renew.auto /\ card /\ inv[renew.invoice] = "issued"
                  THEN renew.invoice ELSE @]
  /\ IF renew.auto /\ ~card THEN auto' = FALSE /\ paused' = TRUE ELSE UNCHANGED <<auto, paused>>
  /\ renew' = IdleRenewal
  /\ UNCHANGED <<state, lock, left, sched, card, planLive, invVars, queue, cron>>

\* The process restarts between two writes of the job.
RenewCrash ==
  /\ On("crash") /\ renew.pc # "idle"
  /\ renew' = IdleRenewal
  /\ UNCHANGED <<rowVars, payVars, planLive, invVars, flight, queue, cron>>

-----------------------------------------------------------------------------
(* Charges *)

\* charge() starts on an open invoice: from the retry queue, from the
\* customer's retry button, or from a payment widget opened on it.
RetryStart(i) ==
  /\ On("retry") /\ flight["retry"] = NoInvoice /\ queue[i] > 0 /\ Undisturbed
  /\ IF inv[i] = "issued"
     THEN /\ flight' = [flight EXCEPT !["retry"] = i]
          /\ queue' = [queue EXCEPT ![i] = @ - 1]
     ELSE /\ queue' = [queue EXCEPT ![i] = 0] /\ UNCHANGED flight
  /\ UNCHANGED <<rowVars, payVars, planLive, invVars, renew, cron>>

CustomerPays(c, i) ==
  /\ On(c) /\ c \in {"customer", "widget"} /\ flight[c] = NoInvoice
  /\ inv[i] = "issued" /\ Undisturbed
  /\ flight' = [flight EXCEPT ![c] = i]
  /\ UNCHANGED <<rowVars, payVars, planLive, invVars, queue, renew, cron>>

\* A declined charge of the renewal job goes to the retry queue, one of the
\* queue keeps the attempts it has left; a collected one leaves the queue.
Requeue(c, i, collected) ==
  queue' = [queue EXCEPT ![i] =
              IF collected /\ c = "retry" THEN 0
              ELSE IF ~collected /\ c = "cron" /\ On("retry") THEN MaxAttempts
              ELSE @]

\* The gateway answers a charge.  The processor reports success for every
\* status but ERROR and DECLINED, so a PENDING transaction collects too; the
\* payment row is terminal from then on and the webhook that settles it is
\* dropped.
GatewayCollects(c, i, hasCard, settled) ==
  /\ flight[c] = i /\ i # NoInvoice /\ Undisturbed
  /\ card \/ c = "widget"
  /\ hasCard \in (IF c = "widget" THEN {card, TRUE} ELSE {TRUE})
  /\ settled \/ (On("pending") /\ c # "widget" /\ unsettled[i] < 2)
  /\ ChargeSuccess(i, hasCard)
  /\ captured' = IF settled THEN Captured(i) ELSE captured
  /\ unsettled' = IF settled THEN unsettled ELSE [unsettled EXCEPT ![i] = @ + 1]
  /\ Requeue(c, i, TRUE)
  /\ flight' = [flight EXCEPT ![c] = NoInvoice]
  /\ UNCHANGED <<planLive, ends, renew, cron>>

\* handleChargeFailure; money is TRUE when the answer was lost after the
\* gateway captured.
GatewayFails(c, i, money) ==
  /\ flight[c] = i /\ i # NoInvoice /\ Undisturbed
  /\ money => (On("timeout") /\ card /\ c # "widget")
  /\ captured' = IF money THEN Captured(i) ELSE captured
  /\ Requeue(c, i, FALSE)
  /\ flight' = [flight EXCEPT ![c] = NoInvoice]
  /\ UNCHANGED <<rowVars, payVars, planLive, inv, ends, unsettled, renew, cron>>

GatewaySettles(i, approved) ==
  /\ unsettled[i] > 0
  /\ unsettled' = [unsettled EXCEPT ![i] = @ - 1]
  /\ captured' = IF approved THEN Captured(i) ELSE captured
  /\ UNCHANGED <<rowVars, payVars, planLive, inv, ends, flight, queue, renew, cron>>

\* recordManualPayment: a single transition to active, no reactivation
\* window, an illegal transition swallowed; then the autopay gate.
ManualPayment(i) ==
  /\ On("manual") /\ inv[i] = "issued" /\ Undisturbed
  /\ inv' = [inv EXCEPT ![i] = "paid"]
  /\ captured' = Captured(i)
  /\ Transition("active", NoLock)
  /\ IF card THEN UNCHANGED <<auto, paused>> ELSE auto' = FALSE /\ paused' = TRUE
  /\ UNCHANGED <<left, due, sched, card, planLive, ends, unsettled, flight, queue, renew, cron>>

-----------------------------------------------------------------------------
(* State engine, 03:00 every day *)

\* A bug to catch: the ladder stops at suspension.
RungNoCancel ==
  CASE left <= -SuspensionDay -> "suspended"
    [] left > -SuspensionDay /\ left <= -HardDays -> "grace_hard"
    [] left > -HardDays /\ (left <= -SoftDays \/ ~planLive) -> "grace_soft"
    [] OTHER -> state

\* The deepest deadline crossed, as evaluateAndTransitionForSubscription
\* computes it.
Rung ==
  CASE left <= -CancellationDay        -> "cancelled"
    [] left > -CancellationDay /\ left <= -SuspensionDay -> "suspended"
    [] left > -SuspensionDay /\ left <= -HardDays        -> "grace_hard"
    [] left > -HardDays /\ (left <= -SoftDays \/ ~planLive) -> "grace_soft"
    [] OTHER -> state
\* A bug to catch: a trial that does not convert is blocked.
TargetBlocksTrial(converts) ==
  IF state = "trial" THEN (IF converts THEN "active" ELSE "blocked") ELSE Rung
\* A lapsed trial converts or expires instead: on auto_convert_at_end and any
\* payment method, renewable or not, neither of which is a column of this model.
Target(converts) == IF state = "trial" THEN (IF converts THEN "active" ELSE "expired") ELSE Rung

\* A bug to catch: past_due is stamped on every rung.
MotiveOnEveryRung == IF state = "trial" THEN NoLock ELSE IF lock # NoLock THEN lock ELSE "past_due"

\* A bug to catch: the suspension rung forgets the motive already stamped.
MotiveForgotten ==
  IF Rung = "suspended" /\ state # "trial" THEN "past_due"
  ELSE IF lock # NoLock THEN lock
  ELSE IF ~planLive /\ state # "trial" THEN "plan_retired" ELSE NoLock

\* An existing motive wins; past_due is stamped on the suspension rung only.
Motive ==
  IF state = "trial" THEN NoLock
  ELSE IF lock # NoLock THEN lock
  ELSE IF ~planLive THEN "plan_retired"
  ELSE IF Rung = "suspended" THEN "past_due" ELSE NoLock

\* A bug to catch: the period end is not checked before the ladder.
EvaluatedAtAnyDate == state \notin NotEvaluated

Evaluated == state \notin NotEvaluated /\ left < 0

CronRead ==
  /\ cron.pc = "idle" /\ Undisturbed /\ (On("overlap") \/ Calm)
  /\ Evaluated
  /\ \E converts \in BOOLEAN :
       /\ Target(converts) # state
       /\ cron' = [pc |-> "decided", target |-> Target(converts), lock |-> Motive]
  /\ UNCHANGED <<rowVars, payVars, planLive, invVars, flight, queue, renew>>

CronCommit ==
  /\ cron.pc = "decided"
  /\ Transition(cron.target, cron.lock)
  /\ cron' = IdleCron
  /\ UNCHANGED <<left, due, sched, payVars, planLive, invVars, flight, queue, renew>>

-----------------------------------------------------------------------------
(* The customer, the platform and the calendar *)

\* cancel with end_of_cycle.
ScheduleCancel ==
  /\ On("cancel") /\ Undisturbed
  /\ sched' = left /\ auto' = FALSE
  /\ UNCHANGED <<state, lock, left, due, paused, card, planLive, invVars, flight, queue, renew, cron>>

\* uncancel: autopay comes back only with an eligible card.
UnscheduleCancel ==
  /\ On("cancel") /\ sched # Never /\ Undisturbed
  /\ sched' = Never /\ auto' = card /\ paused' = (paused \/ ~card)
  /\ UNCHANGED <<state, lock, left, due, card, planLive, invVars, flight, queue, renew, cron>>

\* cancel at once, and the platform's force-cancel.
CancelNow ==
  /\ On("cancel") /\ Moves("cancelled") /\ Undisturbed
  /\ Transition("cancelled", NoLock)
  /\ UNCHANGED <<left, due, sched, payVars, planLive, invVars, flight, queue, renew, cron>>

\* handleChargebackEvent; from a state with no way to suspended it throws and
\* the error is swallowed.
Chargeback ==
  /\ On("chargeback") /\ state \notin {"suspended", "cancelled"} /\ Moves("suspended") /\ Undisturbed
  /\ Transition("suspended", "chargeback")
  /\ UNCHANGED <<left, due, sched, payVars, planLive, invVars, flight, queue, renew, cron>>

\* The customer registers a card: an open pause is lifted.
AddCard ==
  /\ On("cards") /\ ~card /\ Undisturbed
  /\ card' = TRUE /\ auto' = (auto \/ paused) /\ paused' = FALSE
  /\ UNCHANGED <<rowVars, planLive, invVars, flight, queue, renew, cron>>

\* The card expires or the issuer revokes it.
LoseCard ==
  /\ On("cards") /\ card /\ Undisturbed
  /\ card' = FALSE
  /\ UNCHANGED <<rowVars, auto, paused, planLive, invVars, flight, queue, renew, cron>>

\* The platform archives the plan, or publishes it again.
TogglePlan ==
  /\ On("plan") /\ Undisturbed
  /\ planLive' = ~planLive
  /\ UNCHANGED <<rowVars, payVars, invVars, flight, queue, renew, cron>>

\* A day passes; jobs and synchronous charges end the day they begin, and
\* either job may have missed its hour.
DayBefore(date) == IF date = Never THEN Never ELSE IF date > Floor THEN date - 1 ELSE Floor
Tick ==
  /\ renew.pc = "idle" /\ cron.pc = "idle"
  /\ Calm
  /\ left' = DayBefore(left) /\ due' = DayBefore(due) /\ sched' = DayBefore(sched)
  /\ ends' = [i \in Invoices |-> DayBefore(ends[i])]
  /\ UNCHANGED <<state, lock, payVars, planLive, inv, captured, unsettled, flight, queue, renew, cron>>

-----------------------------------------------------------------------------
GatewayAnswers(c) == \E i \in Invoices, b \in BOOLEAN :
  \/ \E hasCard \in BOOLEAN : GatewayCollects(c, i, hasCard, b)
  \/ GatewayFails(c, i, b)

Next ==
  \/ RenewSelect \/ RenewCancel \/ RenewPlanRetired \/ RenewIssue \/ RenewAdvance \/ RenewCrash
  \/ CronRead \/ CronCommit
  \/ \E i \in Invoices : RetryStart(i) \/ ManualPayment(i)
  \/ \E c \in Chargers, i \in Invoices : CustomerPays(c, i)
  \/ \E c \in Chargers : GatewayAnswers(c)
  \/ \E i \in Invoices, b \in BOOLEAN : GatewaySettles(i, b)
  \/ ScheduleCancel \/ UnscheduleCancel \/ CancelNow \/ Chargeback
  \/ AddCard \/ LoseCard \/ TogglePlan \/ Tick

Spec == Init /\ [][Next]_vars

\* The calendar always moves on and the engine gets its hour again and again,
\* whatever else happens; a job that began finishes and a synchronous charge
\* gets its answer.  Nothing is assumed of a widget, a retry or a customer.
Fairness ==
  /\ SF_vars(Tick) /\ SF_vars(CronRead) /\ WF_vars(CronCommit)
  /\ WF_vars(RenewCancel \/ RenewPlanRetired \/ RenewIssue \/ RenewAdvance)
  /\ \A c \in Chargers \ {"widget"} : WF_vars(GatewayAnswers(c))

FairSpec == Spec /\ Fairness

-----------------------------------------------------------------------------
(* What the lifecycle keeps *)

\* Grace never carries the payment motive: past_due is stamped on the
\* suspension rung alone, survives a cancellation and is wiped by the way back
\* to active (lockReason in transitionInTxInternal and the engine).
PastDueOnlyFromSuspension == lock = "past_due" => state \in {"suspended", "cancelled"}

\* Two runs of issueInvoice, retries and restarts included, never leave two
\* open invoices to collect.
OneOpenInvoice == \A i, j \in Open : i = j

\* A store is degraded, by the engine or by the renewal job, only once its
\* period is over: the reactivation window always clears the deadlines.
DegradedOnlyWhenLapsed ==
  state \in {"grace_soft", "grace_hard"} \/ (state = "suspended" /\ lock # "chargeback")
    => left <= 0

\* The paid window never shrinks, is extended only once it lapsed, and then to
\* a date in the future at most one cycle away (computeReactivationWindow).
PaidWindowKept ==
  [][/\ left' > left => left <= 0 /\ left' \in 1..Cycle
     /\ left' < left => left' = DayBefore(left)]_vars

\* The motive stamped where a retired plan degraded the store survives every
\* further rung; only recovery or a chargeback replaces it.
RetiredMotiveSurvives ==
  [][lock = "plan_retired" /\ lock' # lock => state' = "active" \/ lock' = "chargeback"]_vars

\* The step collects a charge that was in flight.
Collects == \E c \in Chargers :
  flight[c] # NoInvoice /\ flight'[c] = NoInvoice /\ inv'[flight[c]] = "paid"

\* A terminal store comes back only in the step that collects a charge.
TerminalNeedsPayment ==
  [][(state \in {"cancelled", "expired"}) /\ state' # state => Collects]_vars

\* No path switches autopay on without an eligible card.
AutopayNeedsCard == [][~auto /\ auto' => card']_vars

\* A store past its period end does not stay that way: it recovers, or the
\* engine closes it, even when rungs were missed on the way.
LapsedIsResolved ==
  (left < 0 /\ state \notin NotEvaluated) ~> (left >= 0 \/ state \in NotEvaluated)

-----------------------------------------------------------------------------
(* What comments of the code say of it and the model refutes *)

\* The cycle the invoice bills is the one that is running.
CoversToday(i) == ends[i] > 0 /\ ends[i] <= Cycle

\* "a debt that does not exist cannot be collected" (the engine, on the motive
\* past_due): a store whose running cycle was billed and captured, and that has
\* no other invoice open, is not suspended as past due.
PastDueMeansDebt ==
  (\E i \in Invoices : inv[i] = "paid" /\ captured[i] > 0 /\ CoversToday(i)) /\ Open = {}
    => ~(state = "suspended" /\ lock = "past_due")

\* Collecting an invoice twice is the outcome handleChargeSuccess is arranged
\* to avoid.
ChargedOnce == \A i \in Invoices : captured[i] <= 1

=============================================================================
