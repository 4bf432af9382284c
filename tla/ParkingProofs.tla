---------------------------- MODULE ParkingProofs ----------------------------
(***************************************************************************)
(* The way back of a parked store, for every set of plans and number of    *)
(* rows: what the checkout records in one transaction for a store that     *)
(* another transaction parked is what the store was parked from.           *)
(***************************************************************************)
EXTENDS PurchaseProofs

\* The row of a parked store names its way back.
AtHome == state = Parked /\ pinv # NoInvoice => revert \in {origin, "cancelled"}

\* A checkout under way: until it has parked the store, the state is the one it
\* read; from then on until the stamp, the state it read is the origin.
NotParkedYet == state = ck.from /\ state # Parked
ResumeHome == ck.kind = "resume" => ck.pc # "park" /\ state = Parked /\ AtHome
MidHome ==
  ck.kind = "mid" => ck.pc \in {"void", "issue", "stamp", "widget"} /\ (ck.pc # "widget" => NotParkedYet)
ParkHome ==
  ck.kind = "park" => /\ ck.pc \in {"void", "park"} => NotParkedYet
                      /\ ck.pc \in {"assign", "issue", "stamp"} => state = Parked /\ ck.from = origin
WidgetHome == ck.pc = "widget" => AtHome
OnTheWay == ResumeHome /\ MidHome /\ ParkHome /\ WidgetHome

Homing == IF ck = Idle THEN AtHome ELSE OnTheWay

\* A step that undoes, confirms or leaves alone: all but the checkout's.
Undoes == pinv' = NoInvoice \/ state' # Parked \/ UNCHANGED <<state, pinv, revert>>

LEMMA UndoneIsHoming ==
  ASSUME Homing, ck = Idle, ck' = Idle, Undoes, UNCHANGED origin PROVE Homing'
BY DEF Homing, AtHome, Undoes

-----------------------------------------------------------------------------
(* Whoever undoes or confirms *)

LEMMA ConfirmUndoes == ASSUME NEW i, Confirm(i) PROVE Undoes
BY DEF Confirm, ClearPending, row, Undoes

LEMMA FailureUndoes == ASSUME NEW p, ChargeFailure(p) PROVE Undoes
BY DEF ChargeFailure, ClearPending, KeepPending, Undoes

LEMMA OperateUndoes == ASSUME Operate PROVE Undoes
BY DEF Operate, Operational, Parked, Undoes

LEMMA SuccessUndoes == ASSUME NEW p, ChargeSuccess(p) PROVE Undoes
BY ConfirmUndoes, OperateUndoes DEF ChargeSuccess

LEMMA CreditUndoes == ASSUME NEW i, Credit(i) PROVE Undoes
<1>1. CASE inv[i].state = "void"
  BY <1>1, SuccessUndoes, OperateUndoes DEF Credit, ReopenAndConfirm
<1>2. CASE inv[i].state # "void" /\ inv[i].to # NoPlan /\ Matches(i)
  BY <1>2, ConfirmUndoes DEF Credit
<1>3. CASE inv[i].state # "void" /\ ~(inv[i].to # NoPlan /\ Matches(i))
  BY <1>3 DEF Credit, Operational, Parked, Undoes
<1> QED
  BY <1>1, <1>2, <1>3

\* Requests of the customer other than the checkout, the gateway and the jobs.
Others ==
  \/ RetryPayment \/ CancelRead \/ CancelCommit
  \/ \E p \in Payments, a \in Answers : Decides(p, a) \/ HookRead(p, a)
  \/ HookCommit \/ HookSeal
  \/ \E i \in Invoices : Sync(i)
  \/ RecSelect \/ Reconcile \/ RecLegacy
  \/ \E to \in States : Lapse(to)
  \/ Renew \/ \E s \in Statuses : ChargeCard(s)

LEMMA OthersAreAlone ==
  ASSUME "overlap" \notin Env, Careful, Others PROVE ck = Idle /\ ck' = Idle /\ UNCHANGED origin
<1>1. CASE \/ RetryPayment \/ CancelRead \/ RecSelect \/ RecLegacy \/ Renew
           \/ \E p \in Payments, a \in Answers : Decides(p, a) \/ HookRead(p, a)
           \/ \E i \in Invoices : Sync(i)
           \/ \E to \in States : Lapse(to)
           \/ \E s \in Statuses : ChargeCard(s)
  <2>1. Undisturbed /\ UNCHANGED <<ck, origin>>
    BY <1>1 DEF RetryPayment, CancelRead, RecSelect, RecLegacy, Renew, Decides, WidgetPays, CardSettles,
                HookRead, Sync, Lapse, ChargeCard, procs
  <2> QED
    BY <2>1 DEF Undisturbed, On
<1>2. CASE CancelCommit \/ HookCommit \/ HookSeal
  BY <1>2 DEF CancelCommit, HookCommit, HookSeal, Careful, Alone, Idle
<1>3. CASE Reconcile
  <2>1. rec.pc \in {"selected", "void"} /\ UNCHANGED <<ck, origin>>
    BY <1>3, Zenon DEF Reconcile, RecAsk, RecVoid, RecConfirm, RecCleanup
  <2> QED
    BY <2>1 DEF Careful, Alone, Idle
<1> QED
  BY <1>1, <1>2, <1>3 DEF Others

LEMMA OthersUndo == ASSUME Ledger, Careful, Others PROVE Undoes
<1>1. CASE \/ RetryPayment \/ CancelRead \/ RecSelect \/ Renew
           \/ \E p \in Payments, a \in Answers : Decides(p, a) \/ HookRead(p, a)
  BY <1>1 DEF RetryPayment, CancelRead, RecSelect, Renew, Decides, WidgetPays, CardSettles, HookRead,
              rows, row, Undoes
<1>2. CASE CancelCommit
  <2>1. cx.pinv # NoInvoice
    BY <1>2 DEF CancelCommit, Careful, CancelCareful, Idle
  <2> QED
    BY <1>2, <2>1 DEF CancelCommit, ClearPending, Undoes
<1>3. CASE HookCommit
  BY <1>3, SuccessUndoes, FailureUndoes DEF HookCommit, rows, row, Undoes
<1>4. CASE HookSeal
  BY <1>4 DEF HookSeal, Promote, Parked, Undoes
<1>5. CASE \E i \in Invoices : Sync(i)
  BY <1>5, CreditUndoes, FailureUndoes DEF Sync
<1>6. CASE Reconcile
  <2>1. CASE RecAsk
    <3>1. UNCHANGED rows \/ Credit(rec.inv) \/ ChargeFailure(Last(rec.inv))
      BY <2>1, Zenon DEF RecAsk
    <3> QED
      BY <3>1, CreditUndoes, FailureUndoes DEF rows, row, Undoes
  <2>2. CASE RecVoid \/ RecCleanup
    BY <2>2 DEF RecVoid, RecCleanup, ClearPending, Undoes
  <2>3. CASE RecConfirm
    BY <2>3, ConfirmUndoes DEF RecConfirm
  <2> QED
    BY <1>6, <2>1, <2>2, <2>3 DEF Reconcile
<1>7. CASE RecLegacy
  BY <1>7, OperateUndoes DEF RecLegacy
<1>8. CASE \E to \in States : Lapse(to)
  BY <1>8 DEF Lapse, Parked, Undoes
<1>9. CASE \E s \in Statuses : ChargeCard(s)
  BY <1>9, ConfirmUndoes, OperateUndoes DEF ChargeCard, row, Undoes
<1> QED
  BY <1>1, <1>2, <1>3, <1>4, <1>5, <1>6, <1>7, <1>8, <1>9 DEF Others

-----------------------------------------------------------------------------
(* The checkout *)

LEMMA ReadIsHoming ==
  ASSUME Homing, NEW to \in Plans, NEW live \in BOOLEAN, CommitRead(to, live)
  PROVE  Homing'
<1>1. AtHome /\ UNCHANGED <<state, pinv, revert, origin>>
  BY DEF CommitRead, Homing, rows, row
<1>2. AtHome'
  BY <1>1 DEF AtHome
<1>3. /\ ck'.from = state
      /\ ck'.kind = "park" => state # Parked /\ ck'.pc \in {"widget", "void", "park"}
      /\ ck'.kind = "resume" => state = Parked /\ ck'.pc # "park"
      /\ ck'.kind = "mid" => state # Parked /\ ck'.pc \in {"widget", "void", "issue"}
  BY DEF CommitRead, First, Parked
<1> QED
  BY <1>1, <1>2, <1>3 DEF Homing, OnTheWay, ResumeHome, MidHome, ParkHome, WidgetHome, NotParkedYet

LEMMA CheckoutIsHoming ==
  ASSUME Ledger, Homing, Commit PROVE Homing'
<1>1. ck # Idle /\ ck \in Checkouts
  <2>1. ck.pc \in {"void", "park", "assign", "issue", "stamp", "widget"}
    BY DEF Commit, CommitVoid, CommitPark, CommitAssign, CommitIssue, CommitStamp, CommitWidget
  <2> QED
    BY <2>1, CheckoutKnows
<1>2. OnTheWay
  BY <1>1 DEF Homing
<1> USE DEF OnTheWay, ResumeHome, MidHome, ParkHome, WidgetHome, NotParkedYet
<1>3. CASE CommitVoid
  <2>1. /\ UNCHANGED <<state, origin>> /\ pinv' = NoInvoice
        /\ ck'.kind = ck.kind /\ ck'.from = ck.from /\ ck'.pc = First(ck.kind, ck.assign)
    BY <1>1, <1>3 DEF CommitVoid, ClearPending, Checkouts
  <2>2. /\ ck'.kind = "park" => ck'.pc = "park"
        /\ ck'.kind = "mid" => ck'.pc = "issue"
        /\ ck'.kind = "resume" => ck'.pc \in {"assign", "issue"}
    BY <2>1 DEF First
  <2>3. AtHome' /\ ck.pc = "void"
    BY <1>3, <2>1 DEF AtHome, CommitVoid
  <2> QED
    BY <1>1, <1>2, <2>1, <2>2, <2>3 DEF Homing, Checkouts
<1>4. CASE CommitPark
  <2>1. ck.kind = "park" /\ ck.pc = "park" /\ state = ck.from /\ state # Parked
    BY <1>1, <1>2, <1>4 DEF CommitPark, Checkouts
  <2>2. CASE Accepted(state, Parked)
    <3>1. /\ ck'.kind = "park" /\ ck'.pc = "assign" /\ ck'.from = ck.from /\ ck' # Idle
          /\ state' = Parked /\ origin' = ck.from
      BY <1>1, <1>4, <2>1, <2>2 DEF CommitPark, Park, Checkouts, Idle
    <3> QED
      BY <3>1 DEF Homing
  <2>3. CASE ~Accepted(state, Parked)
    BY <1>4, <2>1, <2>3 DEF CommitPark, Homing, AtHome
  <2> QED
    BY <2>2, <2>3
<1>5. CASE CommitAssign \/ CommitIssue
  <2>1. /\ ck.pc \in {"assign", "issue"} /\ ck'.pc \in {"issue", "stamp"} /\ ck' # Idle
        /\ ck'.kind = ck.kind /\ ck'.from = ck.from
        /\ UNCHANGED <<state, pinv, revert, origin>>
    BY <1>1, <1>5 DEF CommitAssign, CommitIssue, row, Checkouts, Idle
  <2>2. AtHome => AtHome'
    BY <2>1 DEF AtHome
  <2>3. ck.kind = "mid" => CommitIssue
    BY <1>2, <1>5 DEF CommitAssign
  <2>4. CommitIssue => ck'.pc = "stamp"
    BY <1>1 DEF CommitIssue, Checkouts
  <2> QED
    BY <1>2, <2>1, <2>2, <2>3, <2>4 DEF Homing
<1>6. CASE CommitStamp
  <2>1. ck.pc = "stamp" /\ ck.kind \in {"park", "resume", "mid"}
    BY <1>1, <1>6 DEF CommitStamp, Checkouts
  <2>2. CASE ck.kind = "mid" /\ ~Accepted(state, Parked)
    <3>1. ck' = Idle /\ state' # Parked
      BY <1>2, <1>6, <2>1, <2>2 DEF CommitStamp
    <3> QED
      BY <3>1 DEF Homing, AtHome
  <2>3. CASE ck.kind # "mid" \/ Accepted(state, Parked)
    <3>1. /\ revert' = WayBack /\ ck' = [ck EXCEPT !.pc = "widget"]
          /\ IF ck.kind = "mid" THEN state' = Parked /\ origin' = state ELSE UNCHANGED <<state, origin>>
      BY <1>6, <2>3 DEF CommitStamp, StampPending, Park
    <3>2. /\ ck'.kind = ck.kind /\ ck'.pc = "widget" /\ ck' # Idle
      BY <1>1, <3>1 DEF Checkouts, Idle
    <3>3. state' = Parked /\ revert' \in {origin', "cancelled"}
      BY <1>2, <2>1, <3>1 DEF WayBack
    <3> QED
      BY <3>2, <3>3 DEF Homing, AtHome
  <2> QED
    BY <2>2, <2>3
<1>7. CASE CommitWidget
  BY <1>1, <1>2, <1>7 DEF CommitWidget, row, AtHome, Homing
<1> QED
  BY <1>3, <1>4, <1>5, <1>6, <1>7 DEF Commit

-----------------------------------------------------------------------------
LEMMA StepIsHoming ==
  ASSUME "overlap" \notin Env, "crash" \notin Env
  PROVE  Ledger /\ Careful /\ Homing /\ [Next]_vars => Homing'
<1> SUFFICES ASSUME Ledger, Careful, Homing, [Next]_vars PROVE Homing'
  OBVIOUS
<1>1. CASE UNCHANGED vars
  BY <1>1 DEF vars, Homing, AtHome, OnTheWay, ResumeHome, MidHome, ParkHome, WidgetHome, NotParkedYet
<1>2. CASE Next
  <2>1. Others \/ Commit \/ \E to \in Plans, live \in BOOLEAN : CommitRead(to, live)
    BY <1>2 DEF Next, Others, Decides, CommitDies, HookDies, RecDefers, On
  <2>2. CASE Others
    BY <2>2, OthersAreAlone, OthersUndo, UndoneIsHoming
  <2> QED
    BY <2>1, <2>2, CheckoutIsHoming, ReadIsHoming
<1> QED
  BY <1>1, <1>2

\* When requests, the webhook and the jobs take turns and none dies half way, the
\* way back that the checkout records in its last transaction is the state from
\* which an earlier one parked the store, or "cancelled", for any plans, invoices
\* and payments and however often the customer changes the plan asked for:
\* nobody who undoes the change gives a store a service it had lost.
THEOREM GoesHomeHolds ==
  ASSUME "overlap" \notin Env, "crash" \notin Env PROVE Spec => []GoesHome
<1>1. Init => Ledger /\ Careful /\ Homing
  <2>1. Init => Careful
    BY DEF Init, Careful, Alone, Clear, CheckoutCareful, CancelCareful, JobCareful
  <2>2. Init => Homing
    BY DEF Init, Homing, AtHome
  <2> QED
    BY <2>1, <2>2, StartIsLedger
<1>2. Ledger /\ Careful /\ [Next]_vars => Ledger' /\ Careful'
  BY LedgerIsKept, StepIsCareful DEF CarefulStep
<1>3. Homing => GoesHome
  BY DEF Homing, AtHome, GoesHome
<1> QED
  BY <1>1, <1>2, <1>3, StepIsHoming, PTL DEF Spec

=============================================================================
