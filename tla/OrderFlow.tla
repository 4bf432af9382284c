----------------------------- MODULE OrderFlow -----------------------------
(***************************************************************************)
(* An order from its placement to its end: the operations of               *)
(* OrderFlowService, the gateway's webhook and the poll that stands in for *)
(* it, the cleanup and auto-finish jobs, and the stock they reserve,       *)
(* commit and release.  Orders are for one product in one location.        *)
(*                                                                         *)
(* An operation reads the order first and writes later, in one or more     *)
(* transactions; what it read is kept in its request.                      *)
(***************************************************************************)
EXTENDS StockLevels, FiniteSets, FiniteSetsExt

CONSTANTS
  Orders,
  Online,        \* orders of the ecommerce channel; the others are the POS's
  Shipping,      \* orders with a shipping method; the others are handed over
  Units,         \* stock units each order takes
  Users,         \* concurrent requests
  Stock,         \* units on hand at the start
  MaxPayments, MaxRows,  \* bounds: payments and reservation rows per order
  Env            \* which of EnvEvents happen in this run

EnvEvents == {"overlap", "crash", "oversell", "expiry", "kitchen", "drafts"}

ASSUME FinitenessAssumption == IsFiniteSet(Orders)
ASSUME KindsAssumption == Online \subseteq Orders /\ Shipping \subseteq Orders
ASSUME UnitsAssumption == Units \in [Orders -> Nat \ {0}] /\ Stock \in Nat
ASSUME BoundsAssumption == MaxPayments \in Nat \ {0} /\ MaxRows \in Nat \ {0}
ASSUME EnvAssumption == Env \subseteq EnvEvents

VARIABLES
  state,   \* orders.state
  prev,    \* previous_state in the flow metadata, written by a cancellation
  taken,   \* inventory_committed of the order's line
  pay,     \* payments of each order
  level,   \* the stock level
  rows,    \* active stock_reservations of each order
  made,    \* reservation rows created for each order
  gate,    \* what the gateway decided on the checkout's payment
  heard,   \* webhook_event_dedup
  req      \* requests and jobs in flight

stock == <<level, rows, made>>
vars == <<state, prev, taken, pay, level, rows, made, gate, heard, req>>

States == {"none", "draft", "created", "pending_payment", "processing", "shipped",
           "delivered", "finished", "cancelled"}
Cancelable == {"created", "pending_payment", "processing"}
Live == {"pending", "succeeded"}
Payments == 1..MaxPayments
Rows == 1..MaxRows
Jobs == {"hook", "poll", "timeout", "finisher", "expirer"}
Idle == [pc |-> "idle"]
PaymentRows == [Payments -> {"none", "cancelled", "failed"} \union Live]

On(event) == event \in Env
Undisturbed == On("overlap") \/ \A u \in DOMAIN req : req[u] = Idle

\* Restaurant orders: the only ones the kitchen moves.
Kitchen == Orders \ (Online \union Shipping)

TypeOK ==
  /\ state \in [Orders -> States]
  /\ prev \in [Orders -> Cancelable \union {"none"}]
  /\ taken \in [Orders -> BOOLEAN]
  /\ pay \in [Orders -> PaymentRows]
  /\ level \in LevelType
  /\ rows \in [Orders -> SUBSET Rows] /\ made \in [Orders -> 0..MaxRows]
  /\ gate \in [Orders -> {"none", "approved", "declined"}]
  /\ heard \subseteq Orders
  /\ DOMAIN req = Users \union Jobs
  /\ \A u \in DOMAIN req : req[u] # Idle => req[u].o \in Orders

Init ==
  /\ state = [o \in Orders |-> "none"] /\ prev = [o \in Orders |-> "none"]
  /\ taken = [o \in Orders |-> FALSE]
  /\ pay = [o \in Orders |-> [p \in Payments |-> "none"]]
  /\ level = Opening(Stock)
  /\ rows = [o \in Orders |-> {}] /\ made = [o \in Orders |-> 0]
  /\ gate = [o \in Orders |-> "none"] /\ heard = {}
  /\ req = [u \in Users \union Jobs |-> Idle]

-----------------------------------------------------------------------------
(* Stock *)

HeldUnits(o) == Units[o] * Cardinality(rows[o])

\* reserveStock on the level as it was read.
Reserve(o, read) ==
  /\ made[o] < MaxRows
  /\ level' = [level EXCEPT !.reserved = read.reserved + Units[o],
                            !.available = read.available - Units[o]]
  /\ rows' = [rows EXCEPT ![o] = @ \union {made[o] + 1}]
  /\ made' = [made EXCEPT ![o] = @ + 1]

\* releaseReservationsByReference: every active reservation of the order.
NoRows(o) == rows' = [rows EXCEPT ![o] = {}] /\ UNCHANGED made
\* A bug to catch: the rows are marked and the level is left as it was.
ReleaseMarked(o) == NoRows(o) /\ UNCHANGED level
ReleaseAll(o) == NoRows(o) /\ level' = IF rows[o] = {} THEN level ELSE Freed(level, HeldUnits(o))

\* commitOrderDelivery: the line is claimed once, its reservations go back to
\* the shelf and the sale takes the units from there; what is reserved for a
\* line already taken is consumed.
OnTheShelf(o) == IF rows[o] = {} THEN level ELSE Freed(level, HeldUnits(o))
\* A bug to catch: what others reserved is counted as free.
BlockedOnHand(o) == ~taken[o] /\ OnTheShelf(o).on_hand < Units[o]
Blocked(o) == ~taken[o] /\ OnTheShelf(o).available < Units[o]
\* A bug to catch: the line is taken again at every finish.
CommitAgain(o) ==
  /\ level' = Sold(OnTheShelf(o), Units[o])
  /\ taken' = [taken EXCEPT ![o] = TRUE]
  /\ NoRows(o)
\* A bug to catch: the reservations stay active.
CommitKeepsRows(o) ==
  /\ level' = IF ~taken[o] THEN Sold(OnTheShelf(o), Units[o]) ELSE level
  /\ taken' = [taken EXCEPT ![o] = TRUE]
  /\ UNCHANGED <<rows, made>>
Commit(o) ==
  /\ level' = IF ~taken[o] THEN Sold(OnTheShelf(o), Units[o])
              ELSE IF rows[o] = {} THEN level ELSE Consumed(level, HeldUnits(o))
  /\ taken' = [taken EXCEPT ![o] = TRUE]
  /\ NoRows(o)

-----------------------------------------------------------------------------
(* Placement *)

\* The POS reserves whether the stock is there or not when it may oversell,
\* a table's draft reserves nothing, and the checkout creates the order and
\* its payment before a reservation that may be refused.
PlaceAtPos(o) ==
  /\ o \notin Online /\ state[o] = "none" /\ Undisturbed
  /\ \/ /\ MayReserve(level, Units[o], On("oversell"))
        /\ state' = [state EXCEPT ![o] = "created"] /\ Reserve(o, level)
     \/ /\ On("drafts")
        /\ state' = [state EXCEPT ![o] = "draft"] /\ UNCHANGED stock
  /\ UNCHANGED <<prev, taken, pay, gate, heard, req>>
Checkout(o) ==
  /\ o \in Online /\ state[o] = "none" /\ Undisturbed
  /\ state' = [state EXCEPT ![o] = "pending_payment"]
  /\ pay' = [pay EXCEPT ![o][1] = "pending"]
  /\ IF MayReserve(level, Units[o], FALSE) THEN Reserve(o, level) ELSE UNCHANGED stock
  /\ UNCHANGED <<prev, taken, gate, heard, req>>

-----------------------------------------------------------------------------
(* Requests *)

Begin(u, r) == req' = [req EXCEPT ![u] = r]
Done(u) == Begin(u, Idle)
At(u, pc) == req[u].pc = pc
MovesTo(o, s) == state' = [state EXCEPT ![o] = s]
Writes(o, p, s) == pay' = [pay EXCEPT ![o][p] = s]

FreePayment(o) == Min({p \in Payments : pay[o][p] = "none"})
Has(o, which) == \E p \in Payments : pay[o][p] \in which

\* The states each operation accepts when it reads the order.  The till is
\* open to created orders and drafts, the fast track to whatever is unpaid.
Accepts(op, o) ==
  CASE op = "pay"     -> state[o] \in {"created", "draft"}
                         \/ (state[o] \in {"shipped", "pending_payment"} /\ ~Has(o, {"succeeded"}))
    [] op = "confirm" -> state[o] \in {"pending_payment", "shipped"}
    [] op = "unpay"   -> state[o] \in {"pending_payment", "processing"} /\ Has(o, Live)
    [] op = "ship"    -> state[o] = "processing"
    [] op = "deliver" -> state[o] = "shipped"
    [] op = "cook"    -> o \in Kitchen /\ state[o] = "processing"
    [] op = "uncook"  -> o \in Kitchen /\ state[o] = "delivered"
    [] op = "finish"  -> state[o] \in {"delivered", "processing"}
    [] op = "cancel"  -> state[o] \in Cancelable
    [] OTHER          -> FALSE
Lands(op) ==
  CASE op = "ship" -> "shipped" [] op \in {"deliver", "cook"} -> "delivered" [] op = "uncook" -> "processing"

Snapshot(pc, o) == [pc |-> pc, o |-> o, seen |-> state[o], pays |-> pay[o]]

Read(u, op, o) ==
  /\ req[u] = Idle /\ Undisturbed /\ Accepts(op, o)
  /\ op = "pay" => Has(o, {"none"})
  /\ Begin(u, Snapshot(op, o))
  /\ UNCHANGED <<state, prev, taken, pay, stock, gate, heard>>

\* updateOrderState to any state but finished: whatever the order has become.
Move(u) ==
  /\ req[u].pc \in {"ship", "deliver", "cook", "uncook"}
  /\ MovesTo(req[u].o, Lands(req[u].pc))
  /\ Done(u)
  /\ UNCHANGED <<prev, taken, pay, stock, gate, heard>>

\* payOrder: the claim, by a conditional update.
PayClaim(u) ==
  LET o == req[u].o
      won == state[o] \in {"draft", "created", "shipped", "pending_payment"}
  IN /\ At(u, "pay")
     /\ IF won THEN MovesTo(o, "processing") /\ Begin(u, [pc |-> "claimed", o |-> o])
               ELSE UNCHANGED state /\ Done(u)
     /\ UNCHANGED <<prev, taken, pay, stock, gate, heard>>

\* From here on the order reads as processing.  No customer, no such method,
\* or less money than the total: what is written back is processing.
PayRefused(u) ==
  At(u, "claimed") /\ Done(u) /\ UNCHANGED <<state, prev, taken, pay, stock, gate, heard>>

\* An online payment is recorded, then its transition is refused.
PayOnline(u) ==
  LET o == req[u].o
  IN /\ At(u, "claimed") /\ Has(o, {"none"})
     /\ Writes(o, FreePayment(o), "pending") /\ Done(u)
     /\ UNCHANGED <<state, prev, taken, stock, gate, heard>>

\* A direct one is recorded as succeeded.
PayDirect(u) ==
  LET o == req[u].o
  IN /\ At(u, "claimed") /\ Has(o, {"none"})
     /\ Writes(o, FreePayment(o), "succeeded")
     /\ Begin(u, [pc |-> "paid", o |-> o, p |-> FreePayment(o)])
     /\ UNCHANGED <<state, prev, taken, stock, gate, heard>>

\* Then an order to ship is processing, and one handed over is finished,
\* unless the kitchen or the stock says no and the payment is cancelled.
PayEnds(u) ==
  LET o == req[u].o
  IN /\ At(u, "paid")
     /\ \/ /\ o \in Shipping
           /\ MovesTo(o, "processing") /\ UNCHANGED <<taken, pay, stock>>
        \/ /\ o \notin Shipping /\ ~Blocked(o)
           /\ Commit(o) /\ MovesTo(o, "finished") /\ UNCHANGED pay
        \/ /\ o \notin Shipping /\ (Blocked(o) \/ On("kitchen"))
           /\ Writes(o, req[u].p, "cancelled") /\ UNCHANGED <<state, taken, stock>>
     /\ Done(u) /\ UNCHANGED <<prev, gate, heard>>

\* confirmPayment: the first payment that was pending, then the state.
ConfirmPayment(u) ==
  LET o == req[u].o
      pending == {p \in Payments : req[u].pays[p] = "pending"}
  IN /\ At(u, "confirm")
     /\ IF pending = {} THEN UNCHANGED pay ELSE Writes(o, Min(pending), "succeeded")
     /\ IF req[u].seen = "shipped" THEN Done(u) ELSE Begin(u, [pc |-> "confirmed", o |-> o])
     /\ UNCHANGED <<state, prev, taken, stock, gate, heard>>
ConfirmState(u) ==
  /\ At(u, "confirmed")
  /\ MovesTo(req[u].o, "processing") /\ Done(u)
  /\ UNCHANGED <<prev, taken, pay, stock, gate, heard>>

\* cancelPayment: the payment that was live and the state in one transaction.
CancelPayment(u) ==
  /\ At(u, "unpay")
  /\ Writes(req[u].o, Min({p \in Payments : req[u].pays[p] \in Live}), "cancelled")
  /\ MovesTo(req[u].o, "created") /\ Done(u)
  /\ UNCHANGED <<prev, taken, stock, gate, heard>>

\* confirmDelivery, and each order of the auto-finish job.
Finish(u) ==
  LET o == req[u].o
  IN /\ At(u, "finish")
     /\ \/ ~Blocked(o) /\ Commit(o) /\ MovesTo(o, "finished")
        \/ (Blocked(o) \/ On("kitchen")) /\ UNCHANGED <<state, taken, stock>>
     /\ Done(u) /\ UNCHANGED <<prev, pay, gate, heard>>

\* The payments a cancellation withdraws.
\* A bug to catch: those already collected are left out.
WithdrawsPending(pays) == {p \in Payments : pays[p] = "pending"}
Withdraws(pays) == {p \in Payments : pays[p] \in Live}

\* cancelOrder: the claim, the payments that were live and the metadata in one
\* transaction, the stock after it.
CancelClaim(u) ==
  LET o == req[u].o
  IN /\ At(u, "cancel")
     /\ IF state[o] \in Cancelable
        THEN /\ MovesTo(o, "cancelled")
             /\ prev' = [prev EXCEPT ![o] = req[u].seen]
             /\ pay' = [pay EXCEPT ![o] = [p \in Payments |->
                          IF p \in Withdraws(req[u].pays) THEN "cancelled" ELSE @[p]]]
             /\ Begin(u, [pc |-> "release", o |-> o])
        ELSE Done(u) /\ UNCHANGED <<state, prev, pay>>
     /\ UNCHANGED <<taken, stock, gate, heard>>
CancelRelease(u) ==
  /\ At(u, "release")
  /\ ReleaseAll(req[u].o) /\ Done(u)
  /\ UNCHANGED <<state, prev, taken, pay, gate, heard>>

\* reactivateOrder, once the stock is there: the state goes back to the one the
\* order was cancelled from, or to pending_payment, in a write of its own, and
\* the transaction that reserves the stock is committed after it.
Reactivating == {u \in Users : req[u].pc \in {"reactivate", "reserve"}}
ReactivateRead(u, o) ==
  /\ req[u] = Idle /\ Undisturbed
  /\ state[o] = "cancelled" /\ level.available >= Units[o]
  /\ made[o] + Cardinality(Reactivating) < MaxRows
  /\ Begin(u, [pc |-> "reactivate", o |-> o, level |-> level,
               to |-> IF prev[o] = "none" THEN "pending_payment" ELSE prev[o]])
  /\ UNCHANGED <<state, prev, taken, pay, stock, gate, heard>>
ReactivateState(u) ==
  /\ At(u, "reactivate")
  /\ MovesTo(req[u].o, req[u].to)
  /\ Begin(u, [pc |-> "reserve", o |-> req[u].o, level |-> req[u].level])
  /\ UNCHANGED <<prev, taken, pay, stock, gate, heard>>
ReactivateStock(u) ==
  /\ At(u, "reserve")
  /\ Reserve(req[u].o, req[u].level) /\ Done(u)
  /\ UNCHANGED <<state, prev, taken, pay, gate, heard>>

\* The process restarts.
Crash(u) ==
  /\ On("crash") /\ req[u] # Idle
  /\ Done(u) /\ UNCHANGED <<state, prev, taken, pay, stock, gate, heard>>

-----------------------------------------------------------------------------
(* The gateway *)

\* It decides once on the payment of the checkout.
Decides(o, answer) ==
  /\ o \in Online /\ state[o] # "none" /\ gate[o] = "none" /\ Undisturbed
  /\ gate' = [gate EXCEPT ![o] = answer]
  /\ UNCHANGED <<state, prev, taken, pay, stock, heard, req>>

\* handleWebhook: an event not heard before is noted as heard, then applied.
HookHears(o) ==
  /\ req["hook"] = Idle /\ Undisturbed /\ gate[o] # "none" /\ o \notin heard
  /\ heard' = heard \union {o}
  /\ Begin("hook", [pc |-> "apply", o |-> o])
  /\ UNCHANGED <<state, prev, taken, pay, stock, gate>>

\* The reconciliation, and the customer's polling: a payment still pending
\* that the gateway decided.
\* A bug to catch: what a webhook was heard about is left to it.
PollReadsUnheard(o) ==
  /\ req["poll"] = Idle /\ Undisturbed /\ gate[o] # "none" /\ pay[o][1] = "pending" /\ o \notin heard
  /\ Begin("poll", [pc |-> "apply", o |-> o])
  /\ UNCHANGED <<state, prev, taken, pay, stock, gate, heard>>
PollReads(o) ==
  /\ req["poll"] = Idle /\ Undisturbed /\ gate[o] # "none" /\ pay[o][1] = "pending"
  /\ Begin("poll", [pc |-> "apply", o |-> o])
  /\ UNCHANGED <<state, prev, taken, pay, stock, gate, heard>>

\* What the gateway's word means for a payment.
\* A bug to catch: it is stored as it came.
Verbatim(answer) == answer
Means(answer) == IF answer = "approved" THEN "succeeded" ELSE "failed"

\* updatePaymentStatus: a compare-and-swap on the payment; whoever wins it
\* goes on to confirm or to cancel the order.
Apply(w) ==
  LET o == req[w].o
      next == IF pay[o][1] # "pending" THEN Idle
              ELSE IF gate[o] = "declined" THEN [pc |-> "then_cancel", o |-> o]
              ELSE IF state[o] = "pending_payment" THEN [pc |-> "then_confirm", o |-> o]
              ELSE Idle
  IN /\ At(w, "apply")
     /\ IF pay[o][1] = "pending"
        THEN Writes(o, 1, Means(gate[o]))
        ELSE UNCHANGED pay
     /\ Begin(w, next)
     /\ UNCHANGED <<state, prev, taken, stock, gate, heard>>

\* confirmOrderPaid and cancelOrderIfOpen read the order again.
ThenReads(w) ==
  LET o == req[w].o
  IN /\ \/ /\ At(w, "then_confirm")
           /\ Begin(w, IF state[o] = "pending_payment" THEN Snapshot("confirm", o) ELSE Idle)
        \/ /\ At(w, "then_cancel")
           /\ Begin(w, IF state[o] \in Cancelable THEN Snapshot("cancel", o) ELSE Idle)
     /\ UNCHANGED <<state, prev, taken, pay, stock, gate, heard>>

-----------------------------------------------------------------------------
(* Jobs *)

\* Two hours: online orders that wait for their payment and have none.
TimeoutReads(o) ==
  /\ req["timeout"] = Idle /\ Undisturbed
  /\ o \in Online /\ state[o] = "pending_payment" /\ ~Has(o, {"succeeded"})
  /\ Begin("timeout", [pc |-> "timeout", o |-> o])
  /\ UNCHANGED <<state, prev, taken, pay, stock, gate, heard>>
TimeoutCancels ==
  LET o == req["timeout"].o
  IN /\ At("timeout", "timeout")
     /\ ReleaseAll(o) /\ MovesTo(o, "cancelled")
     /\ prev' = [prev EXCEPT ![o] = "none"]
     /\ pay' = [pay EXCEPT ![o] = [p \in Payments |-> IF @[p] = "pending" THEN "cancelled" ELSE @[p]]]
     /\ Done("timeout")
     /\ UNCHANGED <<taken, gate, heard>>

\* A day: delivered orders, and those of the kitchen that are still processing.
FinisherReads(o) ==
  /\ req["finisher"] = Idle /\ Undisturbed
  /\ state[o] = "delivered" \/ (o \in Kitchen /\ state[o] = "processing")
  /\ Begin("finisher", Snapshot("finish", o))
  /\ UNCHANGED <<state, prev, taken, pay, stock, gate, heard>>

\* Seven days: an active reservation, released whatever it has become.
\* A bug to catch: only reservations of orders that are not closed.
ExpirerReadsOpen(o, r) ==
  /\ On("expiry") /\ req["expirer"] = Idle /\ Undisturbed /\ r \in rows[o] /\ state[o] # "cancelled"
  /\ Begin("expirer", [pc |-> "expire", o |-> o, row |-> r])
  /\ UNCHANGED <<state, prev, taken, pay, stock, gate, heard>>
ExpirerReads(o, r) ==
  /\ On("expiry") /\ req["expirer"] = Idle /\ Undisturbed /\ r \in rows[o]
  /\ Begin("expirer", [pc |-> "expire", o |-> o, row |-> r])
  /\ UNCHANGED <<state, prev, taken, pay, stock, gate, heard>>
\* A bug to catch: the row expires and the counter keeps it.
ExpiresUncounted ==
  LET o == req["expirer"].o
  IN /\ At("expirer", "expire")
     /\ rows' = [rows EXCEPT ![o] = @ \ {req["expirer"].row}]
     /\ Done("expirer")
     /\ UNCHANGED <<state, prev, taken, pay, level, made, gate, heard>>
Expires ==
  LET o == req["expirer"].o
  IN /\ At("expirer", "expire")
     /\ level' = Freed(level, Units[o])
     /\ rows' = [rows EXCEPT ![o] = @ \ {req["expirer"].row}]
     /\ Done("expirer")
     /\ UNCHANGED <<state, prev, taken, pay, made, gate, heard>>

-----------------------------------------------------------------------------
Ops == {"pay", "confirm", "unpay", "ship", "deliver", "cook", "uncook", "finish", "cancel"}

\* What a request, or a job, does next once it has read the order.
Step(u) ==
  \/ Move(u) \/ PayClaim(u) \/ PayRefused(u) \/ PayOnline(u) \/ PayDirect(u) \/ PayEnds(u)
  \/ ConfirmPayment(u) \/ ConfirmState(u) \/ CancelPayment(u) \/ Finish(u)
  \/ CancelClaim(u) \/ CancelRelease(u)
  \/ ReactivateState(u) \/ ReactivateStock(u)

Works(w) == Apply(w) \/ ThenReads(w) \/ Step(w)

Next ==
  \/ \E o \in Orders : PlaceAtPos(o) \/ Checkout(o)
  \/ \E u \in Users, o \in Orders : ReactivateRead(u, o) \/ \E op \in Ops : Read(u, op, o)
  \/ \E u \in Users : Step(u)
  \/ \E o \in Orders : HookHears(o) \/ PollReads(o) \/ \E answer \in {"approved", "declined"} : Decides(o, answer)
  \/ Works("hook") \/ Works("poll") \/ Finish("finisher")
  \/ \E o \in Orders : TimeoutReads(o) \/ FinisherReads(o) \/ \E r \in Rows : ExpirerReads(o, r)
  \/ TimeoutCancels \/ Expires
  \/ \E u \in Users \union Jobs : Crash(u)

Spec == Init /\ [][Next]_vars

\* A request or a job that began goes on unless the process restarts, the
\* reconciliation and the expiry of reservations run again and again, and no
\* restart comes every time in the middle of them.
Goes(w) ==
  \/ w \in Users \union {"hook", "poll"} /\ Works(w)
  \/ w = "timeout" /\ TimeoutCancels
  \/ w = "finisher" /\ Finish(w)
  \/ w = "expirer" /\ Expires
Fairness ==
  /\ \A w \in Users \union {"hook", "timeout", "finisher"} : WF_vars(Goes(w))
  /\ \A w \in {"poll", "expirer"} : SF_vars(Goes(w))
  /\ \A o \in Orders : SF_vars(PollReads(o)) /\ SF_vars(\E r \in Rows : ExpirerReads(o, r))
FairSpec == Spec /\ Fairness

-----------------------------------------------------------------------------
(* What an order and its stock keep *)

\* What left the shelf is what the finished orders took, once each: finishes
\* that race, repeat or follow a reversal take nothing more (processLine).
UnitsConserved ==
  level.on_hand + MapThenSumSet(LAMBDA o : IF taken[o] THEN Units[o] ELSE 0, Orders) = Stock

\* The reserved counter is the sum of the active reservations.
ReservedIsActive == level.reserved = MapThenSumSet(HeldUnits, Orders)

\* The till oversells on purpose, and takes no unit an online order holds: what
\* the checkout reserved is on hand until the order takes it or lets it go.
OnlineIsBacked == MapThenSumSet(HeldUnits, Online) <= level.on_hand

\* An order that took its stock is over and holds no reservation, whatever was
\* cancelled, reactivated, taken back from the kitchen or released before.
TakenIsOver == \A o \in Orders : taken[o] => state[o] = "finished" /\ rows[o] = {}

\* A cancelled order has no payment that could still be collected.
CancelledOwesNothing ==
  \A o \in Orders : state[o] = "cancelled" => \A p \in Payments : pay[o][p] \notin Live

\* A cancelled order does not keep its stock, even when the process stopped
\* between the cancellation and the release.
CancelledIsReleased ==
  \A o \in Orders : (state[o] = "cancelled" /\ rows[o] # {}) ~> (state[o] # "cancelled" \/ rows[o] = {})

\* What the gateway decided on a payment is recorded, even when the process
\* stopped after it had noted the webhook as heard.
DecidedIsRecorded ==
  \A o \in Online : (pay[o][1] = "pending" /\ gate[o] # "none") ~> pay[o][1] # "pending"

-----------------------------------------------------------------------------
(* What comments of the code say of it and the model refutes *)

\* "the order is never fulfilled even though Wompi has already settled it":
\* with the reconciliation in place, an order whose payment the gateway
\* approved does not wait for it forever.
ApprovedMovesOn ==
  \A o \in Online : (state[o] = "pending_payment" /\ gate[o] = "approved") ~> state[o] # "pending_payment"
=============================================================================
