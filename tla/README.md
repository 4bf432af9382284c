# Formal model of Vendix

Vendix is a multi-tenant point of sale and back office for Colombian stores: a
NestJS + Prisma + PostgreSQL backend (`src/apps/backend`), an Angular frontend, an
Expo mobile client and design notes under `src/skills`. This directory holds
TLA+ models of the parts of the backend where interleavings, retries and dates
decide whether a store is billed, served or locked out correctly, the TLC
configurations that check them, and TLAPS proofs.

Two areas are modelled:

* the **SaaS subscription** of a store, split in two overlapping models: what happens
  *between* plan changes (`Dunning`) and what happens *during* one (`PlanChange`);
* the **goods and orders** of a store, on a common model of a stock level
  (`StockLevels`): transfers between locations (`StockTransfers`) and the life of an
  order, its payment and its stock (`OrderFlow`).

Paths below: `S/` is `src/apps/backend/src/domains/store/subscriptions/`,
`J/` is `src/apps/backend/src/jobs/`, `X/` is `src/apps/backend/src/domains/store/`.

## 1. Inventory

| Part | State it keeps | Operations | Talks to | Hard because |
|---|---|---|---|---|
| Subscription state machine (`S/services/subscription-state.service.ts`) | `store_subscriptions`: state, lock_reason, current_period_end, next_billing_at, scheduled_cancel_at, auto_renew | `transition`, `ensureOperational`, `scheduleCancel`, `unscheduleCancel`, card re-arm, nightly evaluation | called by every other part | every writer locks the row for the write, but decides on an earlier unlocked read |
| Renewal job (`J/subscription-renewal-billing.job.ts`) | none; snapshot of up to 20 rows | select, cancel, issue, advance, charge | billing, payments, retry queue | separate writes, one day ahead of the period end |
| State engine (`J/subscription-state-engine.job.ts`) | none; snapshot | evaluate every lapsed row | state machine | runs once a night, errors are swallowed |
| Retry queue (`J/subscription-payment-retry.job.ts`) | BullMQ attempts | charge an open invoice again | payments | a retry may follow a capture whose answer was lost |
| Invoices (`S/services/subscription-billing.service.ts`) | `subscription_invoices` | `issueInvoice` (reuse, replace, create) | renewal, checkout | the open invoice of one purpose is reused for another |
| Payments (`S/services/subscription-payment.service.ts`) | `subscription_payments` | `charge`, `prepareWidgetCharge`, `handleChargeSuccess/Failure`, `confirmPendingChange`, `syncInvoiceFromGateway` | Wompi gateway, state machine | the same payment is learnt from webhook, polling and a job |
| Webhooks (`S/services/subscription-webhook.service.ts`) | `webhook_event_dedup` claims and seals | `handleWompiEvent`, `handleChargebackEvent` | payments, listener | redelivery, ReadCommitted reads, crash between commit and seal |
| Checkout (`S/controllers/subscription-checkout.controller.ts`) | `pending_*` columns | `commit`, `retryPayment`, sync, `cancelPendingChange` | all of the above | four to six transactions per request |
| Reconcile job (`S/jobs/reconcile-stuck-pending.job.ts`) | none; snapshot | ask, void and revert, confirm, clean up | gateway, state machine | acts minutes after what it read |
| Manual payments, trials, saved cards, proration | as above | `recordManualPayment`, trial creation, card changes, `applyResubscribe` | state machine | single-purpose shortcuts around the main path |
| Access gates, resolver, partners, promotions, redemptions | plan features, quotas, coupon rows | read mostly | subscription row | not modelled yet |
| Stock levels and reservations (`X/inventory/shared/services/stock-level-manager.service.ts`) | quantities on hand, reserved, available per product and location; reservation rows | `updateStock`, `reserveStock`, releases by quantity and by reference | orders, purchases, transfers, dispatch | absolute writes computed from an unlocked read; some operations clip at zero, others do not |
| Stock transfers (`X/orders/stock-transfers`, `domains/organization/inventory/transfers`) | `stock_transfers` and their items; one table, two services | create, approve, dispatch, receive, cancel, reroute | stock levels, expiry job | the two services move the goods at different moments; receptions in parts |
| Order flow (`X/orders/order-flow/order-flow.service.ts`) | `orders.state`, payments, flow metadata | pay, confirm, cancel payment, ship, deliver, kitchen, finish, cancel, reactivate | stock, gateway, jobs | reads the order first and writes later, in several transactions |
| Stock commitment (`X/inventory/shared/services/order-stock-commit.service.ts`) | `inventory_committed` of each line | `commitOrderDelivery` | order flow, dispatch | called again for the same line; oversold shelves |
| Wompi webhook and reconciliation (`X/payments/services`) | `webhook_event_dedup`, payments | hear, apply, confirm or cancel; poll | order flow | noted as heard before applied; settled before confirmed |
| Payment timeout, reservation expiry, auto-finish (`J/payment-timeout-cleanup.job.ts`, `J/order-auto-finish.job.ts`) | none; a list read before | cancel, expire, finish | orders, stock | act on what they read without looking again |
| E-commerce checkout (`domains/ecommerce/checkout`) | creates the order, its payment, its reservation | `checkout` | order flow, stock | three separate writes |
| Refunds, purchase orders, returns | received quantities, refunds | receive, refund | stock, costs | partial receptions |
| Dispatch notes and routes | note, stop and route states | deliver, settle cash | orders, stock, cash | partial deliveries, two documents per sale |
| Reservations, tables, kitchen | slots, sessions, tickets | book, seat, fire, close | orders, stock | concurrent bookings of one slot |
| Wallet, layaway, cash registers, coupons | balances, sessions, uses | credit, debit, open, close | payments | balance read then written |
| Invoicing, accounting, payroll, tax | fiscal documents, journal entries | issue, send, void, post | DIAN | data-heavy, external |
| Quotations, expenses, memberships, promotions, other jobs | one state column each | CRUD with a transition table | orders | one actor at a time |
| Auth, tenancy, administration, AI engine, support, clients | users, scopes, tickets | CRUD, request scoping | all | no protocol of their own |

`PROJECT.json` lists the same parts with sources and status, and every hazard with
its line and the properties that watch it.

What makes each modelled part correct:

* **State machine.** Moves only along `TRANSITIONS`; the motive in `lock_reason` is
  true of the store; recovery wipes it; a terminal store comes back only by paying.
* **Renewal.** At most one open invoice per subscription; autopay only with a
  card; a cancellation that is scheduled is not billed past its date.
* **Engine.** Degrades only what lapsed; never leaves a lapsed store in between.
* **Payments.** The gateway took a charge for a paid invoice, and captured it once; the paid window never shrinks.
* **Plan change.** The plan granted is one that was paid for; a paid invoice
  stays paid; a parked store always finds its way out, and goes back to where it was parked from.
* **Stock level.** The reserved counter is the sum of the active reservations; no
  unit that is on hand and free is hidden from sale.
* **Transfers.** What left a warehouse arrived, came back or is on the road; a closed
  transfer keeps nothing set apart.
* **Orders.** The units of an order leave the shelf once and only when it is
  finished; what an online order reserved stays on the shelf for it; a cancelled order
  owes nothing and holds nothing; what the gateway decides reaches the order.

## 2. Modules

| Module | Models |
|---|---|
| `SubscriptionStates` | `TRANSITIONS`, its legality test, `lock_reason` after a transition, routes to operation. Extended by the two below. |
| `Dunning` | One subscription between plan changes: renewal job, engine, charges and retries, manual payments, chargebacks, cancellations, cards, calendar. |
| `DunningProofs` | TLAPS proofs about `Dunning`, for every value of its constants. |
| `Purchase` | Abstract specification of a plan purchase: the gateway takes charges for plans, and the plan bought is always a charged one. |
| `PlanChange` | Buying a plan: checkout, widgets, webhook, polling, reconcile job, cancellation, and the nightly jobs touching the same rows. Implements `Purchase`. |
| `PurchaseProofs` | TLAPS proofs about the transition table, and that `PlanChange` keeps its books and implements `Purchase`. |
| `ParkingProofs` | TLAPS proof that the way back of a parked store is where it was parked from. |
| `StockLevels` | One row of `stock_levels` and what each operation of `StockLevelManager` makes of it. Extended by the two below. |
| `Shipments` | Abstract specification of a transfer between warehouses: sent once, delivered at most once, over only with nothing on the road. |
| `StockTransfers` | Both transfer services, and around them sales, purchases, counts, reservations of orders and the expiry job. Its organization transfers implement `Shipments`. |
| `StockTransfersProofs` | TLAPS proofs about `StockTransfers`: types, what hides, the road, and `Shipments`. |
| `StockLedgerProofs` | TLAPS proofs about its totals: the reserved counter, and the goods on shelves and road. |
| `OrderFlow` | Orders from placement to end: requests, the gateway's webhook and poll, the timeout, expiry and auto-finish jobs, and the stock they reserve, take and release. |
| `OrderFlowProofs` | TLAPS proofs about `OrderFlow`: types, when stock is taken, what a cancelled order owes. |
| `OrderLedgerProofs` | TLAPS proofs about its totals: units on hand and taken, the reserved counter, what online orders hold. |
| `Sums` | Lemmas on sums over finite sets, for the two ledgers. |
| `MCDunning`, `MCPlanChange`, `MCStockTransfers`, `MCOrderFlow` | Instances for TLC and the environments of the runs. |

### How state and actions correspond to the code

`Dunning` keeps dates as distances to the present, in whole days: `left` is
`current_period_end - now`, `due` is `next_billing_at - now`, `sched` is
`scheduled_cancel_at - now`. `Tick` decrements them down to `Floor`, one day past the
last deadline; the code compares dates with deadlines only, so two dates further
back are indistinguishable to it. `inv`, `ends`, `captured` and `unsettled` describe invoice slots; a slot
is used again once nothing is charging or settling its invoice, so the bound is on
invoices alive at a time, not on their number. `flight[c]` is the invoice a charger
waits on the gateway for: the renewal job, the retry queue, the customer's retry
button, a widget.

Each job is a read action and one or several write actions with a snapshot between them
(`renew`, `cron`), since neither holds a lock over its loop. `Transition` is
`transition()` / `transitionInTx()`: legality is tested against the row as it is when
the write commits (FOR UPDATE), and an illegal move, which throws and every caller
here swallows, leaves the row alone. A lapsed trial converts or expires by the flag
`auto_convert_at_end` of its metadata and any active payment method it may have (not only an
eligible card); neither is modelled, so both outcomes are possible (`Target(converts)`).

`PlanChange` numbers invoices and payments in creation order, as the code orders by
`id` or `created_at` descending. `POST commit` is one action per transaction
(`CommitRead`, `CommitVoid`, `CommitPark`, `CommitAssign`, `CommitIssue`, `CommitStamp`,
`CommitWidget`), the webhook worker is `HookRead` (claim and terminal guard), `HookCommit`
(its transaction) and `HookSeal` (post-commit event and seal), the reconcile job is
`RecSelect` and then one action per branch. `txns[p]` is what the gateway knows of
the reference of payment `p`; a reference may be declined and later approved, as the
widget lets the customer try again. A saved card is charged in one call whose answer may be
`pending`: `charge()` books it as paid, as it does an approval (`ChargeCard`), and what the gateway
decides later (`CardSettles`) finds a terminal payment. `origin` is a history variable: the state the store was
in when it was last parked, which no column keeps; only `GoesHome` reads it.

`StockLevels` has one operator per operation, from the old row to the new one, with the
clipping the code applies (`Math.max(0, …)`) and where it does not (`Freed` adds to
`available` without a floor or a ceiling, `Reserved` may take it below zero).

`StockTransfers` keeps `level[p][l]`, `held[owner][p][l]` (units of active
reservations), `tr[t]` (the row with its lines: `qty`, `received`) and `moved[t]`, the
tally of `inventory_movements` of the transfer: units `out` of the origin, `in` the
destination and `back`. `Flow` says which service handles a transfer. Every operation is
a `Read` (the row and the guard on its status) and a write; the organization's approve,
dispatch and cancel read outside the transaction and write by id without a condition,
the store's read inside it without a lock. `Reroute`, the update of a pending
transfer, does not compare the two locations, as the code does not. `StoreReceive` names a set of lines and a
quantity for each. `GiveUp` is a request the rest of its validation refuses.
Purchases, sales and counts are single `updateStock` calls; `Hold` and `Drop` are the
reservations of other documents.

`OrderFlow` has one line per order, for one product in one location. `state`, `prev`
(`previous_state` of the flow metadata), `taken` (`inventory_committed`), `pay` (payments
in creation order; payment 1 of an online order is the checkout's), `rows` (active
reservations, numbered as created; `made` counts them), `level`, `gate` (what Wompi
decided), `heard` (`webhook_event_dedup`). `req[u]` is what a request or a job carries from one
transaction to the next; its `pc` names the write that comes. The webhook and the poll
go through `Apply` (the compare-and-swap of `updatePaymentStatus`), `ThenReads` and then the same
`confirm` and `cancel` steps as a request. `PayClaim` … `PayEnds` are the successive
transactions of `payOrder`; a payment without a gateway answers at once. Of the
`reactivateOrder` transaction, the state is written through a client outside it, so it
is a write of its own (`ReactivateState`) and the reservation is committed after it. Two steps are coarser than the
code: `Checkout` writes the order, its payment and its reservation at once, where the shop uses three
transactions (a restart there is the one restart the runs do not meet), and `ThenReads` is the read of
`confirmOrderPaid` or `cancelOrderIfOpen` together with that of `getOrder` right after it.
A request that fails validation leaves the state alone and is not an action.

Amounts, taxes, numbering, notifications, metrics and telemetry are left out: no
property depends on them. The whole cycle of a plan is one number (`Cycle`), and a
plan is a model value with a set of pairs (`Upgrades`) that are charged as prorated
upgrades.

### Environments

`Env` names the events a run enables, so that each run asks a definite question:

* `overlap`: writers interleave between a job's or request's read and its write.
  Without it every read–write pair is uninterrupted.
* `Dunning`: `retry`, `customer`, `widget`, `manual`, `plan`, `chargeback`, `cancel`, `cards`,
  `pending` (a transaction reported PENDING), `timeout` (a capture whose answer is
  lost), `crash` (the renewal job dies between two writes).
* `PlanChange`: `tabs` (several widgets open), `engine`, `renewal` (the renewal job issues, saved
  cards are charged), `pending` (a card charge may be left PENDING), `crash` (requests or
  webhook workers die; the gateway does not answer the reconcile job).
* `StockTransfers`: `expiry`. A count may always find less than is reserved.
* `OrderFlow`: `crash` (any request or job stops between two transactions), `oversell` (the till
  reserves what is not there), `expiry`, `kitchen` (kitchen items pending refuse a finish),
  `drafts` (table orders, born without a reservation).

## 3. Runs

Passing runs:

| Run | Shows |
|---|---|
| `dunning_billing` | Renewals, widgets, manual payments, chargebacks, cards coming and going, plans archived and republished, crashes of the renewal job: one open invoice, `past_due` only from suspension on, degradation only once lapsed, the window never cut, the `plan_retired` motive kept, no autopay without a card; and, with fairness, every lapsed store recovers or is closed. |
| `dunning_races` | Manual payments, cancellations, retries, PENDING transactions and both jobs interleaved between each read and its write; a terminal store comes back only in a step that collects a charge. |
| `plan_jobs` | Three plans, a customer who changes the plan asked for while parked, several widgets, the nightly jobs and card charges that are approved, declined or left pending: the gateway took a charge for every paid invoice, whoever undoes a change finds the state the store was parked from, or `cancelled` (`GoesHome`), the flow implements `Purchase`, the job and a cancellation never void a paid invoice; with fairness, a parked store is always resolved. |
| `plan_races` | Checkout, cancellation, webhook and reconcile job interleaved between read and write, requests and workers dying and events redelivered, no card charged: a paid invoice was approved, and the flow implements `Purchase`. |
| `transfers` | A transfer of each service between two locations with the whole shop around: what leaves arrives, comes back or is on the road (`RoadAccounted`), a step of a transfer creates and loses no unit when its origin is backed (`GoodsConserved`), nothing held by a closed transfer, the counter is the sum of the reservations, no free unit hidden from sale, `Shipments` implemented. |
| `orders` | An online order and one of the till over one unit, with restarts between any two transactions of requests and jobs (the checkout is one step), the kitchen, table drafts and a till that oversells: the unit the checkout reserved stays on the shelf (`OnlineIsBacked`), stock is taken by finished orders only and with no reservation left (`TakenIsOver`), a cancelled order has no live payment. |
| `orders_live` | Restarts at every point and reservations that expire: a cancelled order eventually lets go of its stock, and what the gateway decided is eventually recorded though the webhook may die after it was noted as heard. |
| `orders_races` | Two requests and the auto-finish job on one order, everything interleaved, deliveries taken back by the kitchen: the units leave the shelf once (`UnitsConserved`). |

Runs that exhibit a divergence between the code and its own comments (each is a
finding of `PROJECT.json` with the quotation):

| Run | What TLC shows |
|---|---|
| `debt` | A renewal paid while the store is still `active` moves `next_billing_at` only: `ensureOperationalInTx` returns before the window is recomputed. `current_period_end` goes by and the engine suspends, as `past_due`, a store whose running cycle was billed, charged to its card and paid while it was active, and that owes nothing. |
| `charged_twice` | A charge whose answer is lost after the capture is filed as failed and charged again with another reference. |
| `credit` | A transfer of two units received by the store's service as 1 and then as 2: each request is compared with the whole line and moves its own quantity, so three units are credited (and taken from the origin). |
| `stuck` | A restart after the payment was settled and before the order was confirmed. The redelivered webhook is a duplicate, the reconciliation looks at pending payments only, the timeout job skips orders with a succeeded payment: the order waits forever for a payment it has. |

Other divergences met while modelling and not kept as runs. Of the **subscription**:

* A cancellation set to the period end is billed, since the renewal job selects a day ahead
  (`J/subscription-renewal-billing.job.ts:121`).
* A PENDING card charge counts as success and a later decline is dropped
  (`S/services/subscription-payment.service.ts:1263`). With `engine`, `renewal` and `pending`, TLC refutes
  `PaidPlanIsApproved`: a store parked for a plan is degraded by the engine, its card is charged for the open
  invoice, and the pending answer grants the plan.
* With two widgets on one invoice and the older one approved, the reconcile job asks about the newest only and voids
  a collected invoice.
* The open invoice of a declined change is reused for a change to another plan, and its payment matches no pending change.
* A payment landing between the engine's read and its write is followed by the stale write
  (`S/services/subscription-state.service.ts:1440`).
* An `active` store past the second deadline (after a manual payment) fails its nightly transition every night until the
  cancellation date.
* Registering a card lifts the autopay pause under a standing scheduled cancellation.
* A widget approved after its change was cancelled pays the invoice and leaves the store degraded.
* The checkout of a store that is already parked records `cancelled` as the way back
  (`S/controllers/subscription-checkout.controller.ts:895`): a store that pays for its plan, asks for another and then
  for a third, loses its service if it gives the change up, though the cancellation is said to revert to "the state it
  was in before the change was initiated" (line 1401). Hence `GoesHome` accepts `cancelled`.
* A re-subscription that dies after parking the store is promoted on a payment of its former life.
* The terminal guard of the webhook reads without a lock.
* With workers dying after their commit *and never coming back*, the liveness of `plan_jobs` fails: a store whose paid
  invoice does not match its pending change stays parked, because the promotion is in the post-commit event only and the
  reconcile job's confirmation does not match. With dead requests, the paid invoice of such a store is voided by a
  cancellation. This is why `ParkedIsResolved` and `PaidIsFinal` are checked without `crash`.
* `GoesHome` is refuted by `crash` alone, and by `overlap` alone: a store parked by a checkout that dies, or that another
  process moves between the checkout's read and its stamp, keeps a way back to a state it was not parked from.

Of **transfers**: the organization's approve, dispatch and cancel read the status outside
their transaction, so two overlapping requests dispatch a transfer twice or cancel one that
was just dispatched; a transfer of the store with several lines received one line per
request never completes, since only a request that names every line in full closes it;
either service may act on the rows of the other, which share the table (not modelled: `Flow`
keeps them apart).

Of **orders**:

* A till attempt that is refused (no customer, no such method, too little money) leaves the order
  `processing` and unpaid: the claim is rolled back to `order.state`, read after the claim
  (`X/orders/order-flow/order-flow.service.ts:643-652`, "the order returns to its pre-attempt state"); a finish that is blocked does the same ("the order
  stays 'created'"). `PayRefused` and `PayEnds` model what happens.
* The claim also takes shipped orders back to `processing`, and makes the branches of
  `payOrder` for drafts and shipped orders unreachable. Its online branch records a pending
  payment and then asks for an illegal transition.
* The till may oversell: the order that held the last unit can then not be delivered when the
  shelf reads zero (`Blocked`), although nobody took its unit.
* Under overlap `ReservedIsActive`, `OnlineIsBacked`, `TakenIsOver` and `CancelledOwesNothing` are
  refuted: the expiry releases a reservation another request released, two reactivations
  reserve from one read, a finish and a cancellation cross, a payment lands between a
  cancellation's read and its write, and the timeout job cancels an order paid between its
  read and its write. Hence they are checked, and proved, when requests take turns.
* An approval that arrives after the payment was cancelled is dropped by the compare-and-swap.

### Bounds, and why they are enough

* `Dunning`: rungs one day apart (`SoftDays` 1 … `CancellationDay` 4), a cycle of two
  days, a trial of one. The code only compares a date with the deadlines, so a day per
  rung meets every order of payment and rung; a two-day cycle separates the day the
  renewal job bills from the day the period ends and leaves room for the discount cap
  (`Cycle - 1`). Two invoices alive at a time (the property is that there is never a second
  one to collect), one retry attempt. `captured` saturates at 2, which tells "twice" from
  "once"; `unsettled` at 2.
* `PlanChange`: two plans in `plan_races` (one upgrade, one downgrade, one renewal of the same plan), three in
  `plan_jobs`, where a parked store changes its mind; two or three invoices and payments, the first of
  each taken by the history of a store that had paid. The reuse and replacement rules
  look at the newest invoice and the newest payment, so two of each are what it takes
  to tell the newest from another. A checkout starts only when it has rows left to
  finish with: the bound never strands a request half way. In `plan_jobs` a store with a history has one payment
  left, so it is the trial that checks out twice; `ParkingProofs` and `PurchaseProofs` have no such bound.
* `StockTransfers`: one product, two locations, one unit in each at the start, at most two per
  location (`MaxStock`) and per line (`MaxLine`), a transfer of each service, one reservation of an order.
  Two units are what a partial reception needs; counts and sales reach zero, where the clipping bites.
  `MaxMoved` bounds the units a transfer may move in (the code does not: see `credit`).
* `OrderFlow`: two orders for one unit make them compete; one request and all the jobs in turn in
  `orders`, two requests with overlap in `orders_races`; two payments per order (the checkout's and
  the till's), two reservation rows (the first and the one of a reactivation). A reactivation starts only when
  there is a row left for it and for those under way (`Reactivating`). The reconciliation reads payments
  between five minutes and a day old: the model has no age, and the timeout job cancels what is still pending at
  two hours, so no payment grows out of that window while its order waits.
* Deadlock checking is off where the bounded rows may be used up and nothing is left to
  do: `PlanChange`, `StockTransfers`, `OrderFlow`.

### Fairness, and why the code justifies it

* `Dunning`: the calendar moves (`SF(Tick)`), the engine gets its hour again and again
  (`SF(CronRead)`, a cron that may miss nights but not all of them), a job that began
  finishes, a synchronous charge is answered. Strong fairness is needed since other
  actors may disable a job's turn for a while. Nothing is assumed of widgets, retries or
  customers.
* `PlanChange`: a request or worker that began finishes, and the five-minute reconcile job
  passes again and again. Nothing is assumed of the customer or of webhook delivery.
* `OrderFlow`: a request or job that began goes on (`WF`) unless a restart ends it; the
  reconciliation, every fifteen minutes, and the expiry, every hour, come back again and again and are
  not cut short every time (`SF`, their turn comes and goes with other requests). Nothing is assumed of
  customers, of the webhook being delivered, or of the timeout job being started.

## 4. Proofs

`DunningProofs` proves, for every cadence, cycle, number of invoices and environment,
`overlap` included:

* `TypeCorrect`: `TypeOK`, strengthened with `left <= Cycle`. The bound is what makes
  the dates of a new invoice and of a reactivation stay in `Dates`, so it has to be carried along.
  One lemma per action shape (`RenewType`, `CronType`, `CapturedType`, `ChargeType`, …).
* `PastDueOnlyFromSuspensionHolds`: not inductive by itself, because the engine's
  verdict is computed in one step and written in a later one, when the row may have
  changed. The strengthening `LockInv` adds that a store suspended for `past_due` is past the
  suspension deadline, and that a decided verdict carrying `past_due` aims at suspension or
  cancellation, past that deadline if it would suspend a store in `grace_hard`; the proof is by cases on the writer of
  `lock` (`LockMove`, `LockReactivate`, `LockRead`, `LockCommit`) with a frame lemma for
  the rest.
* `OneOpenInvoiceHolds`: a new invoice is created only if none is open.
* `PaidWindowKeptHolds`: only `Reactivate` and `Tick` write `left`; the arithmetic is in
  `WindowBounds`.
* `AutopayNeedsCardHolds`: by cases on the writers of `auto_renew`.
* `TerminalNeedsPaymentHolds`: a terminal store comes back only in a step that collects. Two ways around it have to be
  closed: a job that selected the store while it operated, and a verdict computed before it ended.
  `TerminalInv` adds that a trial, and the store it expires into, was never billed (no job or charge holds
  anything of it) and that a verdict `expired` outlives a cancellation only, which the transition table refuses.
* `RetiredMotiveSurvivesHolds`, `overlap` included: on top of `LockInv`, `RetiredInv` adds that no motive of the
  administration is ever stamped (the engine's suspension always carries one) and that a verdict which suspends a store in `grace_hard` as
  `past_due` does not find the motive of a retired plan there: only the engine itself leads to `grace_hard`, so the motive
  it decided on is still on the store. A stale verdict can therefore degrade a store, never relabel it.
* `DegradedOnlyWhenLapsedHolds`, when `overlap` is not in `Env` (with it, a payment
  that lands between the engine's read and its write is degraded by the stale verdict). `LapseInv` adds that the jobs take turns and that
  the period end a job read is still the row's when it writes, and past.

`PurchaseProofs` first states two facts about `TRANSITIONS` itself, `SymmetricParking` and `EveryStateHasRoute`: a state that
may be parked can be returned to, and the no-path error of `ensureOperational` is dead code.

It then proves, for every set of plans, bounds and environment, pending card charges included, `PlanChangeIsPurchase`
(`Spec => Purchase!Spec`), `PaidInvoiceWasTakenHolds` and `TypeCorrect`. The three rest on one inductive invariant, `Ledger`:

* the books (`Books`): invoices and payments are numbered without gaps (`RowsInOrder`), so a non-empty set of them
  has the newest one the code orders by (`NewestIsThere`), and a payment names an invoice that exists;
* the row (`RowSound`): the pending plan, its invoice and the way back are set and cleared together, and the pending invoice exists;
* the gateway (`GateSound`): only payments that exist are answered, and an answer is never taken back (`AnswersGrow`), so
  what was charged stays charged (`ChargeStays`);
* what checkout, cancellation, webhook worker and reconcile job carry from one transaction to the next (`CheckoutSound`, `CancelSound`,
  `HookSound`, `JobSound`): the answer a worker claimed was given, an invoice the job read as paid was charged for.

Each action is shown to keep the books and to grant only what was charged (`LedgerStep`); the refinement then
maps it to `Charge`, `Grant` or `Buy`, or to a stutter. `PaidPlanWasCharged` carries the invariant of `Purchase` back to the
columns of the code: `paid_plan_id` names a plan the gateway took a charge for.

"Took a charge for" is as much as the code ensures: it means approved, or left pending by a card charge. When `pending` is not in `Env`,
no charge is ever left pending (`NothingPending`, an invariant of its own), and the stronger statements follow: `PaidInvoiceIsCollectedHolds`
and `PaidPlanIsApprovedHolds`, in every such environment, overlap and crashes included. With it, TLC refutes
both (section 3, other divergences).

`PaidIsFinalHolds` is proved without `overlap` and `crash`, the environment `plan_jobs` checks it in; with either the code does
void paid invoices (section 3, other divergences). Four places void an invoice, each on the strength of something read
in an earlier transaction, so the property is not inductive. `Careful` adds that one process is at work at a time
(`Alone`); that a row which is not parked has nothing pending, unless a checkout or a webhook is about to restore that
(`Clear`, `Announces`); and what each writer knows: the invoice a checkout is about to stamp is open (`CheckoutCareful`), the
one a cancellation or the reconcile job is about to void was not paid (`CancelCareful`, `JobCareful`). What is left is the exception
the property names: a checkout that voids the change it replaces.

`ParkingProofs` proves `GoesHomeHolds`, also without `overlap` and `crash`, for any plans and rows. The checkout reads the state in one
transaction, parks the store in another and records the way back in a third, so the property is not inductive. `Homing` follows
the state through them, on top of `Ledger` and `Careful`: outside a checkout the row names its way back (`AtHome`); inside one, until
it has parked the store the state is the one it read (`NotParkedYet`), and from then to the stamp the state it read is the origin (`ParkHome`);
a change in the middle of a cycle parks and stamps in one transaction (`MidHome`), and a resumed one finds the store parked
(`ResumeHome`). Everyone else only undoes, confirms or leaves alone (`OthersUndo`).

`StockTransfersProofs` proves, for every set of products, locations, transfers and bounds:

* `TypeCorrect` and `NothingHiddenHolds`, in every environment, `overlap` included. `Sound` says that
  every level is of its type *and* hides nothing (the two need each other: a release adds what a
  snapshot says), and that what requests and the expiry job carry is of its type; one lemma per operation of a
  level, then one per action.
* `RoadAccountedHolds` and `TransfersAreShipments`, when `overlap` is not in `Env`. `Accounted` adds that the
  row a request read is still the row (`Alone`) and that nothing was received before a
  dispatch (`NothingArrivedEarly`); both fail with overlapping requests, which dispatch twice. Each action
  either leaves the organization's transfers alone (`UntouchedIsKept`) or is a `Send`, a `Deliver` or a
  `CallOff`.
* `ClosedHoldsNothingHolds`, on top of it: only a transfer of the store in transit holds stock (`HeldOnTheWay`).

`StockLedgerProofs` proves about the totals of the same model:

* `ReservedIsActiveHolds`, when `overlap` or `expiry` is not in `Env`: requests may race each other, but not the expiry job, which
  decrements the counter by what it read, without asking whether it is still active. `Booked` adds to the sum
  itself that every level is `Sound` and that what the job read is still held (`JobTrue`). That no owner holds more
  than the counter says (`HeldIsReserved`) follows from the sum: it is why no release is clipped at zero, and it would be
  lost with the first that is.
* `GoodsConservedHolds`, in every environment. It is an action property, so what is needed is only what a request carries when it
  writes: `OrgStaysPut` says that the origin of a transfer of the organization is the one its request read.
  `CrossingConserves` then moves `n` units between a shelf and the road, once for the dispatch and
  once for arrivals.

`OrderFlowProofs` proves, for every set of orders, units and bounds:

* `TypeCorrect`, in every environment: what a request carries (`Carried`) is typed too.
* `TakenIsOverHolds` and `CancelledOwesNothingHolds`, when `overlap` is not in `Env`, restarts included. Neither is inductive:
  a request writes the state several transactions after it looked at it. `Settled` adds that
  processes take turns (`Turns`) and what the one at work knows (`Known`): the order it is about to
  write is not over, its payments are those it read, an order to reactivate is cancelled, one that timed out has no
  succeeded payment. One lemma per action.

`OrderLedgerProofs` proves about the totals of the same model:

* `ReservedIsActiveHolds`, `OnlineIsBackedHolds` and `UnitsConservedHolds`, when `overlap` is not in `Env`, restarts and
  overselling included. The three need each other: a sale consumes the order's own reservation and must leave what online
  orders hold, which it computes from the counter; a release is exact only if the counter covers it. `Inventory` has,
  besides `Settled`, the three sums as one (`Books`, with the reservation rows numbered below `made`), and that the stock a process
  read in one transaction and writes in another is still what it read (`AllReady`: the level of a reactivation, the
  row of an expiry).
* Under overlap the reactivation writes a stale level back. `UnitsConservedInRaces` shows that this cannot take
  the same units twice *if the stock covers what all orders ask for* (the case `orders_races` checks): of
  all steps only a commit moves `on_hand`, by the units of the order it marks as taken (`StepTakes`), so it needs types and that one sum. Where
  more is ordered than there is, the floor at zero lets an order take units another took, and
  what remains true in every environment is `NothingVanishesHolds`: no unit leaves the shelf that no order took, and
  what an order took stays taken.

Sums. `MapThenSumSet` is a fold, and what a fold computes is an induction. `Sums` does it without an induction
theorem: two tables of sums that differ somewhere differ on a smallest subset (`SmallestSubset`, from the well-foundedness of
strict inclusion on the subsets of a finite set), where one step of the fold refutes it. The rest is what the ledgers cite: adding
one element (`SumTakesAny`), changing one summand (`SumOfChanged`), a part of the sum (`SumOfPart`).

Assumptions: `CadenceAssumption` (the four deadlines increase), `CycleAssumption`,
`AttemptsAssumption` and `EnvAssumption`, all evaluated by TLC in the runs;
`PurchaseProofs`, and `ParkingProofs` through it, use
`PlansAssumption` and `BoundsAssumption`. `StockTransfersProofs` uses
`OwnersAssumption` and `BoundsAssumption`; `OrderFlowProofs` uses `UnitsAssumption` and `BoundsAssumption`; the ledgers
also use `FinitenessAssumption` (orders, transfers and locations are rows of tables, so there are finitely many) and, of orders,
`KindsAssumption`.

Only model-checked: the four liveness properties (`LapsedIsResolved`, `ParkedIsResolved`, `CancelledIsReleased`,
`DecidedIsRecorded`): fairness is a statement about `ENABLED`, which is out of the prover's reach. Every safety and action property
of a passing run has a theorem. Where a theorem assumes that `overlap`, `expiry`, `crash` or `pending` is not in `Env`, TLC refutes the
property with the event enabled; this is the code's behaviour, described in section 3.

## 5. Not modelled, and why

Amounts, taxes, promotional and partner pricing (data); the choice between several
saved cards and the failover of a revoked one (`Dunning` has one eligible card or none); the
fallbacks by which a webhook with an unknown reference finds a payment; free plans, which
are applied in one transaction; downgrades scheduled for the period end (`scheduled_plan_id`); fairness between subscriptions in the renewal job's
unordered `take: 20`; notifications and listeners without writes to the subscription.

Of stock and orders: costs, batches, serials, recipes and units of measure; orders over several
lines, products or locations (the allocator); refunds, credit and instalment payments, forced states, the order
editor, the closing of a table's session after its payment, `pending_delivery`; the commit by
dispatch note; the deletion of a pending transfer and the replacement of its lines; an organization reception that
names a line twice; lost updates between two unlocked writers of one level, except the stale read of
`reactivateOrder`: the operations on a level are one step here, although the code reads, computes and writes.
The web shop's cart, the mobile client and the front end call what is modelled. Whole parts
that are left out are in `PROJECT.json` with the reason.

## 6. Plan

1. *(done)* `SubscriptionStates`, `Dunning`, `PlanChange` with `Purchase`, first proofs.
2. *(done)* `StockLevels`, `StockTransfers` with `Shipments`, `OrderFlow` with the jobs and the gateway.
3. Lost updates: each operation of `StockLevels` as a read and a write under ReadCommitted, with a run that
   says which of its properties survive.
4. `DispatchNotes`: deliveries in parts and the second path to `commitOrderDelivery`, composed with `OrderFlow`;
   refunds of finished orders.
5. `Reconciler`: the webhook re-check job and its backoff, and fairness between
   rows of the renewal job.
6. Theorems, in order: *(done)* `SymmetricParking`, types and the organization's transfers,
   `TakenIsOver`, `CancelledOwesNothing`, the whole of `Dunning`'s safety,
   `PlanChange` type correctness, `PaidInvoiceWasTaken`, `PaidInvoiceIsCollected` and `Spec => Purchase!Spec`; `PaidIsFinal`; `GoesHome`; the totals of stock
   (`ReservedIsActive`, `GoodsConserved`, `OnlineIsBacked`, `UnitsConserved`). Next: what of `RoadAccounted` and
   `TakenIsOver` survives overlapping requests, as `NothingVanishes` does of `UnitsConserved`.
