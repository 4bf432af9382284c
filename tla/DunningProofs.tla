---------------------------- MODULE DunningProofs ----------------------------
(***************************************************************************)
(* Theorems about Dunning, for every cadence, cycle, number of invoices    *)
(* and environment.                                                        *)
(***************************************************************************)
EXTENDS Dunning, TLAPS

\* The constants as integers.
LEMMA Constants ==
  /\ SoftDays \in Nat /\ HardDays \in Nat /\ SuspensionDay \in Nat /\ CancellationDay \in Nat
  /\ 0 < SoftDays /\ SoftDays < HardDays /\ HardDays < SuspensionDay /\ SuspensionDay < CancellationDay
  /\ Cycle \in Nat /\ Cycle > 0 /\ TrialDays \in 1..Cycle /\ MaxAttempts \in Nat
  /\ Floor \in Int /\ Never \in Int /\ Floor < 0 /\ Never < Floor /\ Floor < -SuspensionDay
BY CadenceAssumption, CycleAssumption, AttemptsAssumption DEF Floor, Never

\* A reactivation opens a window of at least a day and at most a cycle: the
\* cap of computeReactivationWindow.
LEMMA WindowBounds ==
  ASSUME NEW l \in Int
  PROVE  Window(l) \in 1..Cycle
BY Constants DEF Window, Discount, Overdue

\* A day passing keeps a date a date.
LEMMA DayBeforeType ==
  ASSUME NEW d \in Dates \union {Never}
  PROVE  /\ d \in Dates => DayBefore(d) \in Dates /\ DayBefore(d) <= d
         /\ DayBefore(d) \in Dates \union {Never}
BY Constants DEF Dates, DayBefore

LEMMA LockAfterType ==
  ASSUME NEW to, NEW given \in Locks, NEW l \in Locks
  PROVE  LockAfter(to, given, l) \in Locks
<1>1. "admin_manual" \in Locks /\ NoLock \in Locks
  BY DEF Locks, Motives, NoLock
<1> QED
  BY <1>1 DEF LockAfter

-----------------------------------------------------------------------------
(* Types *)

\* The period never ends further away than one cycle, so that an invoice for
\* the cycle after it stays within Dates.
TypeInv == TypeOK /\ left <= Cycle

LEMMA TransitionType ==
  ASSUME TypeOK, NEW to \in DunningStates, NEW given \in Locks, Transition(to, given)
  PROVE  state' \in DunningStates /\ lock' \in Locks
BY LockAfterType DEF TypeOK, Transition

LEMMA ReactivateType ==
  ASSUME TypeInv, Reactivate
  PROVE  /\ state' \in DunningStates /\ lock' \in Locks /\ sched' \in Dates \union {Never}
         /\ left' \in Dates /\ left' <= Cycle /\ due' \in Dates
<1>1. left \in Int /\ Window(left) \in 1..Cycle
  BY WindowBounds, Constants DEF TypeInv, TypeOK, Dates
<1>2. 1..Cycle \subseteq Dates
  BY Constants DEF Dates
<1>3. CASE state \in Operational
  BY <1>3 DEF TypeInv, TypeOK, Reactivate, rowVars
<1>4. CASE state \notin Operational
  <2>1. state' = "active" /\ lock' = NoLock /\ sched' = Never
    BY <1>4 DEF Reactivate
  <2>2. left' \in Dates /\ left' <= Cycle /\ due' \in Dates
    BY <1>1, <1>2, <1>4, Constants DEF Reactivate, TypeInv, TypeOK
  <2> QED
    BY <2>1, <2>2 DEF DunningStates, Locks
<1> QED
  BY <1>3, <1>4

LEMMA TargetType ==
  ASSUME TypeOK, NEW converts \in BOOLEAN
  PROVE  Target(converts) \in DunningStates /\ Motive \in Locks
<1>1. Target(converts) \in DunningStates
  BY DEF TypeOK, Target, Rung, DunningStates
<1>2. {"plan_retired", "past_due", NoLock} \subseteq Locks
  BY DEF Locks, Motives
<1>3. Motive \in Locks
  BY <1>2 DEF TypeOK, Motive
<1> QED
  BY <1>1, <1>3

LEMMA InitType == Init => TypeInv
<1> SUFFICES ASSUME Init PROVE TypeInv
  OBVIOUS
<1>1. left \in 1..Cycle /\ due = left /\ sched = Never /\ left \in Dates /\ 0 \in Dates
  BY Constants DEF Init, Dates
<1>2. state \in DunningStates /\ lock \in Locks
  BY DEF Init, DunningStates, Locks
<1>3. auto \in BOOLEAN /\ paused \in BOOLEAN /\ card \in BOOLEAN /\ planLive \in BOOLEAN
  BY DEF Init
<1>4. /\ inv \in [Invoices -> {"none", "issued", "paid"}] /\ ends \in [Invoices -> Dates]
      /\ captured \in [Invoices -> 0..2] /\ unsettled \in [Invoices -> 0..2]
      /\ flight \in [Chargers -> Invoices \union {NoInvoice}]
      /\ queue \in [Invoices -> 0..MaxAttempts]
  BY <1>1, Constants DEF Init
<1>5. renew = IdleRenewal /\ cron = IdleCron
  BY DEF Init
<1> QED
  BY <1>1, <1>2, <1>3, <1>4, <1>5 DEF TypeInv, TypeOK

\* What the row, the invoices and the jobs must be for TypeInv.
RowType ==
  /\ state \in DunningStates /\ lock \in Locks
  /\ left \in Dates /\ left <= Cycle /\ due \in Dates /\ sched \in Dates \union {Never}
PayType == auto \in BOOLEAN /\ paused \in BOOLEAN /\ card \in BOOLEAN /\ planLive \in BOOLEAN
InvType ==
  /\ inv \in [Invoices -> {"none", "issued", "paid"}] /\ ends \in [Invoices -> Dates]
  /\ captured \in [Invoices -> 0..2] /\ unsettled \in [Invoices -> 0..2]
  /\ flight \in [Chargers -> Invoices \union {NoInvoice}]
  /\ queue \in [Invoices -> 0..MaxAttempts]
JobType ==
  /\ renew \in {IdleRenewal} \union Snapshots \union Issuances
  /\ cron \in {IdleCron} \union Verdicts

LEMMA TypeParts == TypeInv <=> RowType /\ PayType /\ InvType /\ JobType
BY DEF TypeInv, TypeOK, RowType, PayType, InvType, JobType

LEMMA RenewType ==
  ASSUME TypeInv, RenewSelect \/ RenewCancel \/ RenewPlanRetired \/ RenewIssue \/ RenewAdvance \/ RenewCrash
  PROVE  TypeInv'
<1>1. CASE RenewSelect
  <2>1. renew' \in Snapshots
    BY <1>1 DEF RenewSelect, TypeInv, TypeOK, Snapshots
  <2> QED
    BY <1>1, <2>1 DEF RenewSelect, TypeInv, TypeOK, rowVars, payVars, invVars
<1>2. CASE RenewCancel
  BY <1>2 DEF RenewCancel, TypeInv, TypeOK, invVars, DunningStates
<1>3. CASE RenewPlanRetired
  <2>1. state' \in DunningStates /\ lock' \in Locks
    <3>1. "grace_soft" \in DunningStates /\ "plan_retired" \in Locks
      BY DEF DunningStates, Locks, Motives
    <3> QED
      BY <1>3, <3>1, TransitionType DEF RenewPlanRetired, TypeInv, TypeOK
  <2> QED
    BY <1>3, <2>1 DEF RenewPlanRetired, TypeInv, TypeOK, payVars, invVars
<1>4. CASE RenewIssue
  <2>1. PICK i \in Invoices :
          /\ NewInvoice(i) \/ ReusedInvoice(i)
          /\ renew' = [pc |-> "issued", auto |-> renew.auto, invoice |-> i]
    BY <1>4 DEF RenewIssue
  <2>2. renew.pc = "selected"
    BY <1>4 DEF RenewIssue
  <2>3. renew' \in Issuances
    BY <2>1, <2>2 DEF TypeInv, TypeOK, IdleRenewal, Snapshots, Issuances
  <2>4. left + Cycle \in Dates
    BY Constants DEF TypeInv, TypeOK, Dates
  <2>5. InvType'
    <3>1. unsettled' = unsettled /\ flight' = flight
      BY <1>4 DEF RenewIssue
    <3>2. CASE NewInvoice(i)
      BY <3>1, <3>2, <2>4, Constants DEF NewInvoice, TypeInv, TypeOK, InvType
    <3>3. CASE ReusedInvoice(i)
      BY <3>1, <3>3 DEF ReusedInvoice, TypeInv, TypeOK, InvType
    <3> QED
      BY <2>1, <3>2, <3>3
  <2> QED
    BY <1>4, <2>3, <2>5 DEF RenewIssue, TypeInv, TypeOK, InvType, rowVars, payVars
<1>5. CASE RenewAdvance
  <2>1. renew.invoice \in Invoices
    BY <1>5 DEF RenewAdvance, TypeInv, TypeOK, IdleRenewal, Snapshots, Issuances
  <2>2. due' \in Dates /\ flight' \in [Chargers -> Invoices \union {NoInvoice}]
    BY <1>5, <2>1 DEF RenewAdvance, TypeInv, TypeOK
  <2> QED
    BY <1>5, <2>2 DEF RenewAdvance, TypeInv, TypeOK, invVars
<1>6. CASE RenewCrash
  BY <1>6 DEF RenewCrash, TypeInv, TypeOK, rowVars, payVars, invVars
<1> QED
  BY <1>1, <1>2, <1>3, <1>4, <1>5, <1>6

LEMMA CronType ==
  ASSUME TypeInv, CronRead \/ CronCommit
  PROVE  TypeInv'
<1>1. CASE CronRead
  <2>1. cron' \in Verdicts
    BY <1>1, TargetType DEF CronRead, TypeInv, Verdicts
  <2> QED
    BY <1>1, <2>1 DEF CronRead, TypeInv, TypeOK, rowVars, payVars, invVars
<1>2. CASE CronCommit
  <2>1. cron.target \in DunningStates /\ cron.lock \in Locks
    BY <1>2 DEF CronCommit, TypeInv, TypeOK, IdleCron, Verdicts
  <2>2. state' \in DunningStates /\ lock' \in Locks
    BY <1>2, <2>1, TransitionType DEF CronCommit, TypeInv
  <2> QED
    BY <1>2, <2>2 DEF CronCommit, TypeInv, TypeOK, payVars, invVars
<1> QED
  BY <1>1, <1>2

LEMMA CapturedType ==
  ASSUME TypeInv, NEW i \in Invoices
  PROVE  Captured(i) \in [Invoices -> 0..2]
BY DEF TypeInv, TypeOK, Captured

LEMMA RequeueType ==
  ASSUME TypeInv, NEW c, NEW i \in Invoices, NEW collected \in BOOLEAN, Requeue(c, i, collected)
  PROVE  queue' \in [Invoices -> 0..MaxAttempts]
BY Constants DEF TypeInv, TypeOK, Requeue

LEMMA ChargeType ==
  ASSUME TypeInv, NEW c \in Chargers, NEW i \in Invoices, NEW b \in BOOLEAN,
         \/ RetryStart(i) \/ CustomerPays(c, i) \/ ManualPayment(i) \/ GatewayFails(c, i, b)
         \/ GatewaySettles(i, b) \/ \E hasCard \in BOOLEAN : GatewayCollects(c, i, hasCard, b)
  PROVE  TypeInv'
<1>1. CASE RetryStart(i)
  <2>1. InvType'
    BY <1>1, Constants DEF RetryStart, TypeInv, TypeOK, InvType, invVars, Chargers
  <2> QED
    BY <1>1, <2>1 DEF RetryStart, TypeInv, TypeOK, InvType, rowVars, payVars
<1>2. CASE CustomerPays(c, i)
  BY <1>2 DEF CustomerPays, TypeInv, TypeOK, rowVars, payVars, invVars
<1>3. CASE ManualPayment(i)
  <2>1. state' \in DunningStates /\ lock' \in Locks
    <3>1. "active" \in DunningStates /\ NoLock \in Locks
      BY DEF DunningStates, Locks
    <3> QED
      BY <1>3, <3>1, TransitionType DEF ManualPayment, TypeInv
  <2>2. captured' \in [Invoices -> 0..2] /\ inv' \in [Invoices -> {"none", "issued", "paid"}]
    BY <1>3, CapturedType DEF ManualPayment, TypeInv, TypeOK
  <2>3. auto' \in BOOLEAN /\ paused' \in BOOLEAN
    BY <1>3 DEF ManualPayment, TypeInv, TypeOK
  <2> QED
    BY <1>3, <2>1, <2>2, <2>3 DEF ManualPayment, TypeInv, TypeOK
<1>4. CASE GatewayFails(c, i, b)
  <2>1. captured' \in [Invoices -> 0..2]
    BY <1>4, CapturedType DEF GatewayFails, TypeInv, TypeOK
  <2>2. queue' \in [Invoices -> 0..MaxAttempts]
    BY <1>4, RequeueType DEF GatewayFails
  <2> QED
    BY <1>4, <2>1, <2>2 DEF GatewayFails, TypeInv, TypeOK, rowVars, payVars
<1>5. CASE GatewaySettles(i, b)
  <2>1. captured' \in [Invoices -> 0..2]
    BY <1>5, CapturedType DEF GatewaySettles, TypeInv, TypeOK
  <2>2. unsettled' \in [Invoices -> 0..2]
    BY <1>5 DEF GatewaySettles, TypeInv, TypeOK
  <2> QED
    BY <1>5, <2>1, <2>2 DEF GatewaySettles, TypeInv, TypeOK, rowVars, payVars
<1>6. CASE \E hasCard \in BOOLEAN : GatewayCollects(c, i, hasCard, b)
  <2>1. PICK hasCard \in BOOLEAN : GatewayCollects(c, i, hasCard, b)
    BY <1>6
  <2>2. Reactivate /\ Rearm(hasCard) /\ inv' = [inv EXCEPT ![i] = "paid"]
    BY <2>1 DEF GatewayCollects, ChargeSuccess
  <2>3. RowType'
    BY <2>2, ReactivateType DEF RowType
  <2>4. card' \in BOOLEAN /\ paused' \in BOOLEAN /\ auto' \in BOOLEAN
    BY <2>2 DEF Rearm
  <2>5. captured' \in [Invoices -> 0..2]
    BY <2>1, CapturedType DEF GatewayCollects, TypeInv, TypeOK
  <2>6. unsettled' \in [Invoices -> 0..2]
    BY <2>1 DEF GatewayCollects, TypeInv, TypeOK
  <2>7. queue' \in [Invoices -> 0..MaxAttempts]
    BY <2>1, RequeueType DEF GatewayCollects
  <2> QED
    BY <2>1, <2>2, <2>3, <2>4, <2>5, <2>6, <2>7 DEF GatewayCollects, TypeInv, TypeOK, RowType
<1> QED
  BY <1>1, <1>2, <1>3, <1>4, <1>5, <1>6

LEMMA EnvironmentType ==
  ASSUME TypeInv,
         ScheduleCancel \/ UnscheduleCancel \/ CancelNow \/ Chargeback
           \/ AddCard \/ LoseCard \/ TogglePlan \/ Tick
  PROVE  TypeInv'
<1>1. CASE ScheduleCancel
  BY <1>1 DEF ScheduleCancel, TypeInv, TypeOK, invVars
<1>2. CASE UnscheduleCancel
  BY <1>2 DEF UnscheduleCancel, TypeInv, TypeOK, invVars
<1>3. CASE CancelNow \/ Chargeback
  <2>1. {"cancelled", "suspended"} \subseteq DunningStates /\ {NoLock, "chargeback"} \subseteq Locks
    BY DEF DunningStates, Locks, Motives
  <2>2. state' \in DunningStates /\ lock' \in Locks
    BY <1>3, <2>1, TransitionType DEF CancelNow, Chargeback, TypeInv
  <2> QED
    BY <1>3, <2>2 DEF CancelNow, Chargeback, TypeInv, TypeOK, payVars, invVars
<1>4. CASE AddCard \/ LoseCard
  BY <1>4 DEF AddCard, LoseCard, TypeInv, TypeOK, rowVars, invVars
<1>5. CASE TogglePlan
  BY <1>5 DEF TogglePlan, TypeInv, TypeOK, rowVars, payVars, invVars
<1>6. CASE Tick
  <2>1. left' \in Dates /\ left' <= left /\ due' \in Dates /\ sched' \in Dates \union {Never}
    BY <1>6, DayBeforeType DEF Tick, TypeInv, TypeOK
  <2>2. ends' \in [Invoices -> Dates]
    BY <1>6, DayBeforeType DEF Tick, TypeInv, TypeOK
  <2>3. left' <= Cycle
    BY <2>1, Constants DEF TypeInv, TypeOK, Dates
  <2> QED
    BY <1>6, <2>1, <2>2, <2>3 DEF Tick, TypeInv, TypeOK, payVars
<1> QED
  BY <1>1, <1>2, <1>3, <1>4, <1>5, <1>6

LEMMA StutterType == TypeInv /\ UNCHANGED vars => TypeInv'
BY DEF TypeInv, TypeOK, vars

\* Every variable keeps its type, dates stay representable and no period ends
\* further away than a cycle.
THEOREM TypeCorrect == Spec => [](TypeOK /\ left <= Cycle)
<1>1. TypeInv /\ Next => TypeInv'
  <2> SUFFICES ASSUME TypeInv, Next PROVE TypeInv'
    OBVIOUS
  <2>1. CASE \E c \in Chargers, i \in Invoices, b \in BOOLEAN :
              \/ RetryStart(i) \/ CustomerPays(c, i) \/ ManualPayment(i) \/ GatewayFails(c, i, b)
              \/ GatewaySettles(i, b) \/ \E hasCard \in BOOLEAN : GatewayCollects(c, i, hasCard, b)
    BY <2>1, ChargeType
  <2>2. CASE RenewSelect \/ RenewCancel \/ RenewPlanRetired \/ RenewIssue \/ RenewAdvance \/ RenewCrash
    BY <2>2, RenewType
  <2>3. CASE CronRead \/ CronCommit
    BY <2>3, CronType
  <2>4. CASE ScheduleCancel \/ UnscheduleCancel \/ CancelNow \/ Chargeback
               \/ AddCard \/ LoseCard \/ TogglePlan \/ Tick
    BY <2>4, EnvironmentType
  <2>5. "cron" \in Chargers /\ TRUE \in BOOLEAN
    BY DEF Chargers
  <2> QED
    BY <2>1, <2>2, <2>3, <2>4, <2>5 DEF Next, GatewayAnswers
<1>2. TypeInv /\ [Next]_vars => TypeInv'
  BY <1>1, StutterType
<1> QED
  BY InitType, <1>2, PTL DEF Spec, TypeInv

-----------------------------------------------------------------------------
(* past_due *)

\* A store suspended for past_due crossed the suspension deadline, and neither
\* it nor a verdict the engine still holds can lead back to a grace rung with
\* the motive on: a payment that lands between the engine's read and its write
\* takes the store to active, from where suspension is illegal.
LockInv ==
  /\ PastDueOnlyFromSuspension
  /\ state = "suspended" /\ lock = "past_due" => left <= -SuspensionDay
  /\ cron.pc = "decided" /\ cron.lock = "past_due" =>
       /\ cron.target \in {"suspended", "cancelled"}
       /\ cron.target = "suspended" /\ state = "grace_hard" => left <= -SuspensionDay

LEMMA LockFrame ==
  ASSUME LockInv, UNCHANGED <<state, lock, left, cron>>
  PROVE  LockInv'
BY DEF LockInv, PastDueOnlyFromSuspension

\* A legal move by a writer other than the engine, with a motive of its own.
LEMMA LockMove ==
  ASSUME TypeInv, LockInv, NEW to \in {"active", "cancelled", "suspended", "grace_soft"},
         NEW given \in {NoLock, "chargeback", "plan_retired"},
         to = "suspended" => given = "chargeback", to = "grace_soft" => given = "plan_retired",
         Transition(to, given), left' = left, cron' = cron
  PROVE  LockInv'
<1>1. CASE ~Moves(to)
  BY <1>1, LockFrame DEF Transition
<1>2. CASE Moves(to)
  <2>1. state' = to /\ lock' = LockAfter(to, given, lock)
    BY <1>2 DEF Transition
  <2>2. lock' = "past_due" => to = "cancelled"
    BY <2>1 DEF LockAfter, NoLock, Operational
  <2> QED
    BY <2>1, <2>2 DEF LockInv, PastDueOnlyFromSuspension
<1> QED
  BY <1>1, <1>2

\* A reactivation wipes the motive.
LEMMA LockReactivate ==
  ASSUME LockInv, Reactivate, cron' = cron
  PROVE  LockInv'
<1>1. CASE state \in Operational
  BY <1>1, LockFrame DEF Reactivate, rowVars
<1>2. CASE state \notin Operational
  <2>1. state' = "active" /\ lock' = NoLock
    BY <1>2 DEF Reactivate
  <2> QED
    BY <2>1 DEF LockInv, PastDueOnlyFromSuspension, NoLock
<1> QED
  BY <1>1, <1>2

\* The engine's verdict is about past_due only at the suspension rung or when
\* it closes a store suspended for it.
LEMMA LockRead ==
  ASSUME TypeInv, LockInv, CronRead
  PROVE  LockInv'
<1>1. PICK converts \in BOOLEAN :
        /\ cron' = [pc |-> "decided", target |-> Target(converts), lock |-> Motive]
        /\ Target(converts) # state /\ state' = state /\ lock' = lock /\ left' = left
  BY DEF CronRead, rowVars
<1>2. left \in Int
  BY Constants DEF TypeInv, TypeOK, Dates
<1>3. ASSUME Motive = "past_due"
      PROVE  /\ Target(converts) \in {"suspended", "cancelled"}
             /\ Target(converts) = "suspended" => left <= -SuspensionDay
  <2>1. state # "trial" /\ Target(converts) = Rung
    BY <1>3 DEF Motive, Target, NoLock
  <2>2. CASE lock = "past_due"
    <3>1. state \in {"suspended", "cancelled"} /\ state \notin NotEvaluated
      BY <2>2 DEF LockInv, PastDueOnlyFromSuspension, CronRead, Evaluated
    <3>2. left <= -SuspensionDay
      BY <2>2, <3>1 DEF LockInv, NotEvaluated
    <3>3. Rung \in {"cancelled", "suspended"}
      BY <1>2, <3>2, Constants DEF Rung
    <3> QED
      BY <2>1, <3>2, <3>3
  <2>3. CASE lock # "past_due"
    <3>1. Target(converts) = "suspended" /\ lock = NoLock
      BY <1>3, <2>1, <2>3 DEF Motive, NoLock
    <3>2. state # "suspended"
      BY <1>1, <3>1
    <3>3. left <= -SuspensionDay
      BY <1>2, <2>1, <3>1, <3>2, Constants DEF Rung
    <3> QED
      BY <3>1, <3>3
  <2> QED
    BY <2>2, <2>3
<1> QED
  BY <1>1, <1>3 DEF LockInv, PastDueOnlyFromSuspension

\* The engine writes its verdict.
LEMMA LockCommit ==
  ASSUME TypeInv, LockInv, CronCommit
  PROVE  LockInv'
<1>1. cron.pc = "decided" /\ Transition(cron.target, cron.lock) /\ cron' = IdleCron /\ left' = left
  BY DEF CronCommit
<1>2. cron'.pc # "decided"
  BY <1>1 DEF IdleCron
<1>3. CASE ~Moves(cron.target)
  BY <1>1, <1>2, <1>3 DEF LockInv, PastDueOnlyFromSuspension, Transition
<1>4. CASE Moves(cron.target)
  <2>1. state' = cron.target /\ lock' = LockAfter(cron.target, cron.lock, lock)
        /\ Legal(state, cron.target) /\ state \in DunningStates
    BY <1>1, <1>4 DEF Transition, Moves, TypeInv, TypeOK
  <2>2. CASE cron.target = "suspended"
    <3>1. state = "grace_hard"
      BY <2>1, <2>2 DEF Legal, Transitions, DunningStates
    <3>2. lock' = "past_due" => cron.lock = "past_due"
      <4>1. lock' = IF cron.lock = NoLock THEN "admin_manual" ELSE cron.lock
        BY <2>1, <2>2 DEF LockAfter, Operational
      <4> QED
        BY <4>1
    <3> QED
      BY <1>1, <1>2, <2>1, <2>2, <3>1, <3>2 DEF LockInv, PastDueOnlyFromSuspension
  <2>3. CASE cron.target = "cancelled"
    BY <1>2, <2>1, <2>3 DEF LockInv, PastDueOnlyFromSuspension
  <2>4. CASE cron.target \in DunningStates \ {"suspended", "cancelled"}
    <3>1. state \notin {"suspended", "cancelled"} \/ cron.target \in Operational
      BY <2>1, <2>4 DEF Legal, Transitions, DunningStates, Operational
    <3>2. lock' # "past_due"
      <4>1. cron.lock # "past_due"
        BY <1>1, <2>4 DEF LockInv
      <4>2. CASE cron.target \in Operational
        BY <2>1, <4>2 DEF LockAfter, Operational, NoLock
      <4>3. CASE state \notin {"suspended", "cancelled"}
        <5>1. lock # "past_due"
          BY <4>3 DEF LockInv, PastDueOnlyFromSuspension
        <5> QED
          BY <2>1, <2>4, <4>1, <5>1 DEF LockAfter, NoLock
      <4> QED
        BY <3>1, <4>2, <4>3
    <3> QED
      BY <1>2, <3>2 DEF LockInv, PastDueOnlyFromSuspension
  <2>5. cron.target \in DunningStates
    BY <1>1 DEF TypeInv, TypeOK, IdleCron, Verdicts
  <2> QED
    BY <2>2, <2>3, <2>4, <2>5
<1> QED
  BY <1>3, <1>4

\* A day passing takes a suspended store further past its deadline.
LEMMA LockTick ==
  ASSUME TypeInv, LockInv, Tick
  PROVE  LockInv'
<1>1. state' = state /\ lock' = lock /\ cron' = cron /\ cron.pc = "idle" /\ left' = DayBefore(left)
  BY DEF Tick
<1>2. left \in Dates /\ left' <= left /\ left' \in Int /\ left \in Int
  BY <1>1, DayBeforeType, Constants DEF TypeInv, TypeOK, Dates
<1> QED
  BY <1>1, <1>2, Constants DEF LockInv, PastDueOnlyFromSuspension

LEMMA LockHolds == Spec => []LockInv
<1>1. Init => LockInv
  BY DEF Init, LockInv, PastDueOnlyFromSuspension, NoLock, IdleCron
<1>2. TypeInv /\ LockInv /\ Next => LockInv'
  <2> SUFFICES ASSUME TypeInv, LockInv, Next PROVE LockInv'
    OBVIOUS
  <2>1. ASSUME NEW c \in Chargers, NEW i \in Invoices, NEW b \in BOOLEAN,
               RetryStart(i) \/ CustomerPays(c, i) \/ GatewayFails(c, i, b) \/ GatewaySettles(i, b)
        PROVE  LockInv'
    BY <2>1, LockFrame DEF RetryStart, CustomerPays, GatewayFails, GatewaySettles, rowVars
  <2>2. ASSUME NEW i \in Invoices, ManualPayment(i)
        PROVE  LockInv'
    BY <2>2, LockMove DEF ManualPayment
  <2>3. ASSUME NEW c \in Chargers, NEW i \in Invoices, NEW h \in BOOLEAN, NEW b \in BOOLEAN,
               GatewayCollects(c, i, h, b)
        PROVE  LockInv'
    BY <2>3, LockReactivate DEF GatewayCollects, ChargeSuccess
  <2>4. CASE RenewSelect \/ RenewIssue \/ RenewAdvance \/ RenewCrash
    BY <2>4, LockFrame DEF RenewSelect, RenewIssue, RenewAdvance, RenewCrash, rowVars
  <2>5. CASE RenewCancel
    BY <2>5 DEF RenewCancel, LockInv, PastDueOnlyFromSuspension
  <2>6. CASE RenewPlanRetired
    <3>1. CASE renew.left <= 0 /\ renew.state = "active"
      BY <2>6, <3>1, LockMove DEF RenewPlanRetired
    <3>2. CASE ~(renew.left <= 0 /\ renew.state = "active")
      BY <2>6, <3>2, LockFrame DEF RenewPlanRetired
    <3> QED
      BY <3>1, <3>2
  <2>7. CASE CronRead \/ CronCommit
    BY <2>7, LockRead, LockCommit
  <2>8. CASE CancelNow \/ Chargeback
    BY <2>8, LockMove DEF CancelNow, Chargeback
  <2>9. CASE ScheduleCancel \/ UnscheduleCancel \/ AddCard \/ LoseCard \/ TogglePlan
    BY <2>9, LockFrame DEF ScheduleCancel, UnscheduleCancel, AddCard, LoseCard, TogglePlan, rowVars
  <2>10. CASE Tick
    BY <2>10, LockTick
  <2>11. "cron" \in Chargers
    BY DEF Chargers
  <2> QED
    BY <2>1, <2>2, <2>3, <2>4, <2>5, <2>6, <2>7, <2>8, <2>9, <2>10, <2>11 DEF Next, GatewayAnswers
<1>3. LockInv /\ UNCHANGED vars => LockInv'
  BY LockFrame DEF vars
<1>4. Spec => []TypeInv
  BY TypeCorrect DEF TypeInv
<1> QED
  BY <1>1, <1>2, <1>3, <1>4, PTL DEF Spec

\* Grace never carries the payment motive, whatever the interleaving of
\* payments, cancellations and the two jobs.
THEOREM PastDueOnlyFromSuspensionHolds == Spec => []PastDueOnlyFromSuspension
<1>1. LockInv => PastDueOnlyFromSuspension
  BY DEF LockInv
<1> QED
  BY <1>1, LockHolds, PTL

-----------------------------------------------------------------------------
(* Invoices *)

\* issueInvoice reuses the open invoice, so retries, restarts of the job and
\* renewals that overlap never leave two of them to collect.
THEOREM OneOpenInvoiceHolds == Spec => []OneOpenInvoice
<1>1. Init => OneOpenInvoice
  BY DEF Init, OneOpenInvoice, Open
<1>2. TypeInv /\ OneOpenInvoice /\ Next => OneOpenInvoice'
  <2> SUFFICES ASSUME TypeInv, OneOpenInvoice, Next PROVE OneOpenInvoice'
    OBVIOUS
  <2>1. ASSUME inv' = inv PROVE OneOpenInvoice'
    BY <2>1 DEF OneOpenInvoice, Open
  <2>2. ASSUME NEW i \in Invoices, inv' = [inv EXCEPT ![i] = "paid"] PROVE OneOpenInvoice'
    <3>1. Open' \subseteq Open
      BY <2>2 DEF Open, TypeInv, TypeOK
    <3> QED
      BY <3>1 DEF OneOpenInvoice
  <2>3. CASE RenewIssue
    <3>1. PICK i \in Invoices : NewInvoice(i) \/ ReusedInvoice(i)
      BY <2>3 DEF RenewIssue
    <3>2. CASE NewInvoice(i)
      <4>1. Open' \subseteq {i}
        BY <3>2 DEF NewInvoice, Open, TypeInv, TypeOK
      <4> QED
        BY <4>1 DEF OneOpenInvoice
    <3> QED
      BY <2>1, <3>1, <3>2 DEF ReusedInvoice
  <2>4. CASE RenewSelect \/ RenewCancel \/ RenewPlanRetired \/ RenewAdvance \/ RenewCrash
    BY <2>1, <2>4 DEF RenewSelect, RenewCancel, RenewPlanRetired, RenewAdvance, RenewCrash, invVars
  <2>5. CASE CronRead \/ CronCommit
    BY <2>1, <2>5 DEF CronRead, CronCommit, invVars
  <2>6. ASSUME NEW c \in Chargers, NEW i \in Invoices, NEW b \in BOOLEAN,
               RetryStart(i) \/ CustomerPays(c, i) \/ GatewayFails(c, i, b) \/ GatewaySettles(i, b)
        PROVE  OneOpenInvoice'
    BY <2>1, <2>6 DEF RetryStart, CustomerPays, GatewayFails, GatewaySettles, invVars
  <2>7. ASSUME NEW c \in Chargers, NEW i \in Invoices, NEW h \in BOOLEAN, NEW b \in BOOLEAN,
               ManualPayment(i) \/ GatewayCollects(c, i, h, b)
        PROVE  OneOpenInvoice'
    BY <2>2, <2>7 DEF ManualPayment, GatewayCollects, ChargeSuccess
  <2>8. CASE ScheduleCancel \/ UnscheduleCancel \/ CancelNow \/ Chargeback
               \/ AddCard \/ LoseCard \/ TogglePlan \/ Tick
    BY <2>1, <2>8 DEF ScheduleCancel, UnscheduleCancel, CancelNow, Chargeback,
                      AddCard, LoseCard, TogglePlan, Tick, invVars
  <2>9. "cron" \in Chargers
    BY DEF Chargers
  <2> QED
    BY <2>3, <2>4, <2>5, <2>6, <2>7, <2>8, <2>9 DEF Next, GatewayAnswers
<1>3. OneOpenInvoice /\ UNCHANGED vars => OneOpenInvoice'
  BY DEF OneOpenInvoice, Open, vars
<1>4. Spec => []TypeInv
  BY TypeCorrect DEF TypeInv
<1> QED
  BY <1>1, <1>2, <1>3, <1>4, PTL DEF Spec

-----------------------------------------------------------------------------
(* The paid window and autopay *)

\* No job, payment or cancellation cuts a paid period short; only a lapsed
\* one is extended, to a date at most one cycle away.
THEOREM PaidWindowKeptHolds == Spec => PaidWindowKept
<1> DEFINE Kept == /\ left' > left => left <= 0 /\ left' \in 1..Cycle
                   /\ left' < left => left' = DayBefore(left)
<1>1. TypeInv /\ [Next]_vars => [Kept]_vars
  <2> SUFFICES ASSUME TypeInv, Next PROVE Kept
    OBVIOUS
  <2>1. left \in Int
    BY Constants DEF TypeInv, TypeOK, Dates
  <2>2. ASSUME left' = left PROVE Kept
    BY <2>1, <2>2
  <2>3. CASE Tick
    <3>1. left' = DayBefore(left) /\ left' <= left /\ left' \in Int
      BY <2>3, DayBeforeType, Constants DEF Tick, TypeInv, TypeOK, Dates
    <3> QED
      BY <2>1, <3>1
  <2>4. ASSUME NEW c \in Chargers, NEW i \in Invoices, NEW h \in BOOLEAN, NEW b \in BOOLEAN,
               GatewayCollects(c, i, h, b)
        PROVE  Kept
    <3>1. Reactivate
      BY <2>4 DEF GatewayCollects, ChargeSuccess
    <3>2. left' = left \/ (left <= 0 /\ left' = Window(left))
      BY <3>1 DEF Reactivate, rowVars
    <3> QED
      BY <2>1, <2>2, <3>2, WindowBounds, Constants
  <2>5. CASE RenewSelect \/ RenewCancel \/ RenewPlanRetired \/ RenewIssue \/ RenewAdvance \/ RenewCrash
    BY <2>2, <2>5 DEF RenewSelect, RenewCancel, RenewPlanRetired, RenewIssue, RenewAdvance, RenewCrash, rowVars
  <2>6. CASE CronRead \/ CronCommit
    BY <2>2, <2>6 DEF CronRead, CronCommit, rowVars
  <2>7. ASSUME NEW c \in Chargers, NEW i \in Invoices, NEW b \in BOOLEAN,
               \/ RetryStart(i) \/ CustomerPays(c, i) \/ ManualPayment(i)
               \/ GatewayFails(c, i, b) \/ GatewaySettles(i, b)
        PROVE  Kept
    BY <2>2, <2>7 DEF RetryStart, CustomerPays, ManualPayment, GatewayFails, GatewaySettles, rowVars
  <2>8. CASE ScheduleCancel \/ UnscheduleCancel \/ CancelNow \/ Chargeback \/ AddCard \/ LoseCard \/ TogglePlan
    BY <2>2, <2>8 DEF ScheduleCancel, UnscheduleCancel, CancelNow, Chargeback, AddCard, LoseCard, TogglePlan, rowVars
  <2>9. "cron" \in Chargers
    BY DEF Chargers
  <2> QED
    BY <2>3, <2>4, <2>5, <2>6, <2>7, <2>8, <2>9 DEF Next, GatewayAnswers
<1>2. Spec => []TypeInv
  BY TypeCorrect DEF TypeInv
<1> QED
  BY <1>1, <1>2, PTL DEF Spec, PaidWindowKept

\* Nothing switches autopay on for a store without an eligible card: not a
\* payment, not the way back from a cancellation, not a registered card.
THEOREM AutopayNeedsCardHolds == Spec => AutopayNeedsCard
<1> DEFINE Armed == ~auto /\ auto' => card'
<1>1. [Next]_vars => [Armed]_vars
  <2> SUFFICES ASSUME Next PROVE Armed
    OBVIOUS
  <2>1. ASSUME auto' = auto \/ auto' = FALSE PROVE Armed
    BY <2>1
  <2>2. CASE RenewSelect \/ RenewCancel \/ RenewPlanRetired \/ RenewIssue \/ RenewAdvance \/ RenewCrash
    BY <2>1, <2>2 DEF RenewSelect, RenewCancel, RenewPlanRetired, RenewIssue, RenewAdvance, RenewCrash, payVars
  <2>3. CASE CronRead \/ CronCommit
    BY <2>1, <2>3 DEF CronRead, CronCommit, payVars
  <2>4. ASSUME NEW c \in Chargers, NEW i \in Invoices, NEW b \in BOOLEAN,
               \/ RetryStart(i) \/ CustomerPays(c, i) \/ ManualPayment(i)
               \/ GatewayFails(c, i, b) \/ GatewaySettles(i, b)
        PROVE  Armed
    BY <2>1, <2>4 DEF RetryStart, CustomerPays, ManualPayment, GatewayFails, GatewaySettles, payVars
  <2>5. ASSUME NEW c \in Chargers, NEW i \in Invoices, NEW h \in BOOLEAN, NEW b \in BOOLEAN,
               GatewayCollects(c, i, h, b)
        PROVE  Armed
    <3>1. Rearm(h)
      BY <2>5 DEF GatewayCollects, ChargeSuccess
    <3> QED
      BY <3>1 DEF Rearm
  <2>6. CASE UnscheduleCancel \/ AddCard
    <3>1. auto' = card' \/ card' = TRUE
      BY <2>6 DEF UnscheduleCancel, AddCard
    <3> QED
      BY <3>1, Zenon
  <2>7. CASE ScheduleCancel \/ CancelNow \/ Chargeback \/ LoseCard \/ TogglePlan \/ Tick
    BY <2>1, <2>7 DEF ScheduleCancel, CancelNow, Chargeback, LoseCard, TogglePlan, Tick, payVars
  <2>8. "cron" \in Chargers
    BY DEF Chargers
  <2> QED
    BY <2>2, <2>3, <2>4, <2>5, <2>6, <2>7, <2>8 DEF Next, GatewayAnswers
<1> QED
  BY <1>1, PTL DEF Spec, AutopayNeedsCard

-----------------------------------------------------------------------------
(* Degradation, when nobody writes between a job's read and its write *)

\* The jobs take turns, and what a job decided on is still so when it writes:
\* the period end it read, and that it is past.
LapseInv ==
  /\ DegradedOnlyWhenLapsed
  /\ renew.pc = "idle" \/ cron.pc = "idle"
  /\ renew.pc = "selected" => renew.left = left
  /\ cron.pc = "decided" => left < 0

LEMMA LapseFrame ==
  ASSUME LapseInv, UNCHANGED <<state, lock, left, cron>>,
         renew' = renew \/ renew'.pc \in {"idle", "issued"}, renew'.pc = "idle" \/ cron.pc = "idle"
  PROVE  LapseInv'
BY DEF LapseInv, DegradedOnlyWhenLapsed

\* A move by a writer that waits for the jobs.
LEMMA LapseMove ==
  ASSUME TypeInv, LapseInv, NEW to \in {"active", "cancelled", "suspended"}, NEW given,
         to = "suspended" => given = "chargeback", Transition(to, given),
         renew.pc = "idle", cron.pc = "idle", UNCHANGED <<left, cron, renew>>
  PROVE  LapseInv'
<1>1. CASE ~Moves(to)
  BY <1>1, LapseFrame DEF Transition
<1>2. CASE Moves(to)
  <2>1. state' = to /\ lock' = LockAfter(to, given, lock)
    BY <1>2 DEF Transition
  <2>2. to = "suspended" => lock' = "chargeback"
    <3>1. to = "suspended" => lock' = IF given = NoLock THEN "admin_manual" ELSE given
      BY <2>1 DEF LockAfter, Operational
    <3>2. "chargeback" # NoLock
      BY DEF NoLock
    <3> QED
      BY <3>1, <3>2
  <2> QED
    BY <2>1, <2>2 DEF LapseInv, DegradedOnlyWhenLapsed
<1> QED
  BY <1>1, <1>2

LEMMA LapseRenew ==
  ASSUME TypeInv, LapseInv, "overlap" \notin Env,
         RenewSelect \/ RenewCancel \/ RenewPlanRetired \/ RenewIssue \/ RenewAdvance \/ RenewCrash
  PROVE  LapseInv'
<1>1. CASE RenewSelect
  <2>1. renew'.pc = "selected" /\ renew'.left = left /\ cron.pc = "idle" /\ UNCHANGED <<state, lock, left, cron>>
    BY <1>1 DEF RenewSelect, Undisturbed, On, rowVars
  <2> QED
    BY <2>1 DEF LapseInv, DegradedOnlyWhenLapsed
<1>2. CASE RenewIssue \/ RenewAdvance \/ RenewCrash
  <2>1. UNCHANGED <<state, lock, left, cron>> /\ renew'.pc \in {"idle", "issued"} /\ renew.pc # "idle"
    BY <1>2 DEF RenewIssue, RenewAdvance, RenewCrash, IdleRenewal, rowVars
  <2> QED
    BY <2>1, LapseFrame DEF LapseInv
<1>3. CASE RenewCancel
  BY <1>3 DEF RenewCancel, IdleRenewal, LapseInv, DegradedOnlyWhenLapsed
<1>4. CASE RenewPlanRetired
  <2>1. /\ renew.pc = "selected" /\ renew.left = left /\ cron.pc = "idle"
        /\ renew'.pc = "idle" /\ left' = left /\ cron' = cron
    BY <1>4 DEF RenewPlanRetired, LapseInv, IdleRenewal
  <2>2. CASE UNCHANGED <<state, lock>>
    BY <2>1, <2>2, LapseFrame
  <2>3. CASE ~UNCHANGED <<state, lock>>
    <3>1. left <= 0 /\ state' = "grace_soft" /\ lock' = "plan_retired"
      BY <1>4, <2>1, <2>3 DEF RenewPlanRetired, Transition, LockAfter, NoLock, Operational
    <3> QED
      BY <2>1, <3>1 DEF LapseInv, DegradedOnlyWhenLapsed
  <2> QED
    BY <2>2, <2>3
<1> QED
  BY <1>1, <1>2, <1>3, <1>4

\* The engine looks only at lapsed stores, and an existing motive wins.
LEMMA LapseRead ==
  ASSUME TypeInv, LapseInv, "overlap" \notin Env, CronRead
  PROVE  LapseInv'
<1>1. /\ \E converts \in BOOLEAN :
           cron' = [pc |-> "decided", target |-> Target(converts), lock |-> Motive]
      /\ left < 0 /\ renew.pc = "idle" /\ UNCHANGED <<state, lock, left, renew>>
  BY DEF CronRead, Evaluated, Undisturbed, On, rowVars
<1> QED
  BY <1>1 DEF LapseInv, DegradedOnlyWhenLapsed

LEMMA LapseCommit ==
  ASSUME TypeInv, LapseInv, CronCommit PROVE LapseInv'
<1>1. /\ cron.pc = "decided" /\ renew.pc = "idle" /\ cron' = IdleCron /\ cron'.pc = "idle"
      /\ left < 0 /\ UNCHANGED <<left, renew>> /\ Transition(cron.target, cron.lock)
  BY DEF CronCommit, LapseInv, IdleCron
<1>2. CASE ~Moves(cron.target)
  BY <1>1, <1>2 DEF Transition, LapseInv, DegradedOnlyWhenLapsed
<1>3. CASE Moves(cron.target)
  <2>1. state' = cron.target /\ lock' = LockAfter(cron.target, cron.lock, lock)
    BY <1>1, <1>3 DEF Transition
  <2>2. left \in Int
    BY Constants DEF TypeInv, TypeOK, Dates
  <2> QED
    BY <1>1, <2>1, <2>2 DEF LapseInv, DegradedOnlyWhenLapsed
<1> QED
  BY <1>2, <1>3

\* A collected charge opens the window of the store it brings back.
LEMMA LapseCollect ==
  ASSUME LapseInv, Reactivate, renew.pc = "idle", cron.pc = "idle", UNCHANGED <<renew, cron>>
  PROVE  LapseInv'
<1>1. CASE state \in Operational
  BY <1>1, LapseFrame DEF Reactivate, rowVars
<1>2. CASE state \notin Operational
  <2>1. state' = "active"
    BY <1>2 DEF Reactivate
  <2> QED
    BY <2>1 DEF LapseInv, DegradedOnlyWhenLapsed
<1> QED
  BY <1>1, <1>2

LEMMA LapseTick ==
  ASSUME TypeInv, LapseInv, Tick PROVE LapseInv'
<1>1. UNCHANGED <<state, lock, renew, cron>> /\ renew.pc = "idle" /\ cron.pc = "idle" /\ left' = DayBefore(left)
  BY DEF Tick
<1>2. left \in Int /\ left' \in Int /\ left' <= left
  BY <1>1, DayBeforeType, Constants DEF TypeInv, TypeOK, Dates
<1> QED
  BY <1>1, <1>2 DEF LapseInv, DegradedOnlyWhenLapsed

LEMMA LapseKept ==
  ASSUME "overlap" \notin Env PROVE TypeInv /\ LapseInv /\ [Next]_vars => LapseInv'
<1> SUFFICES ASSUME TypeInv, LapseInv, [Next]_vars PROVE LapseInv'
  OBVIOUS
<1>1. ASSUME NEW c \in Chargers, NEW i \in Invoices, NEW b \in BOOLEAN,
             RetryStart(i) \/ CustomerPays(c, i) \/ GatewayFails(c, i, b) \/ GatewaySettles(i, b)
      PROVE  LapseInv'
  <2>1. UNCHANGED <<state, lock, left, cron, renew>>
    BY <1>1 DEF RetryStart, CustomerPays, GatewayFails, GatewaySettles, rowVars
  <2> QED
    BY <2>1, LapseFrame DEF LapseInv
<1>2. ASSUME NEW i \in Invoices, ManualPayment(i) PROVE LapseInv'
  BY <1>2, LapseMove DEF ManualPayment, Undisturbed, On
<1>3. ASSUME NEW c \in Chargers, NEW i \in Invoices, NEW h \in BOOLEAN, NEW b \in BOOLEAN,
             GatewayCollects(c, i, h, b)
      PROVE  LapseInv'
  BY <1>3, LapseCollect DEF GatewayCollects, ChargeSuccess, Undisturbed, On
<1>4. CASE CancelNow \/ Chargeback
  BY <1>4, LapseMove DEF CancelNow, Chargeback, Undisturbed, On
<1>5. CASE ScheduleCancel \/ UnscheduleCancel \/ AddCard \/ LoseCard \/ TogglePlan \/ UNCHANGED vars
  <2>1. UNCHANGED <<state, lock, left, cron, renew>>
    BY <1>5 DEF ScheduleCancel, UnscheduleCancel, AddCard, LoseCard, TogglePlan, rowVars, vars
  <2> QED
    BY <2>1, LapseFrame DEF LapseInv
<1>6. "cron" \in Chargers
  BY DEF Chargers
<1> QED
  BY <1>1, <1>2, <1>3, <1>4, <1>5, <1>6, LapseRenew, LapseRead, LapseCommit, LapseTick
     DEF Next, GatewayAnswers

LEMMA LapseInit == Init => LapseInv
BY DEF Init, LapseInv, DegradedOnlyWhenLapsed, IdleRenewal, IdleCron

\* While nobody writes between a job's read and its write, a store is degraded
\* only once its paid period is over.
THEOREM DegradedOnlyWhenLapsedHolds ==
  ASSUME "overlap" \notin Env PROVE Spec => []DegradedOnlyWhenLapsed
<1>1. LapseInv => DegradedOnlyWhenLapsed
  BY DEF LapseInv
<1>2. Spec => []TypeInv
  BY TypeCorrect DEF TypeInv
<1> QED
  BY <1>1, <1>2, LapseInit, LapseKept, PTL DEF Spec

-----------------------------------------------------------------------------
(* The motive of a retired plan *)

\* What a step may do to it.
MotiveKept == lock = "plan_retired" /\ lock' # lock => state' = "active" \/ lock' = "chargeback"

\* Nobody stamps a motive of the administration, a suspension always carries
\* one, and the engine does not suspend as past_due, from grace_hard, a store
\* whose plan was retired: the one transition that leads to grace_hard is its
\* own, so the motive it decided on is the one that is still there.
RetiredInv ==
  /\ lock # "admin_manual"
  /\ cron.pc = "decided" =>
       /\ cron.lock # "admin_manual"
       /\ cron.target = "suspended" =>
            /\ cron.lock # NoLock
            /\ state = "grace_hard" /\ lock = "plan_retired" => cron.lock # "past_due"
RetiredStep == RetiredInv' /\ MotiveKept

LEMMA RetiredFrame ==
  ASSUME RetiredInv, UNCHANGED <<state, lock, cron>> PROVE RetiredStep
BY DEF RetiredInv, RetiredStep, MotiveKept

\* The other writers move the store out of the engine's way.
LEMMA RetiredMove ==
  ASSUME RetiredInv, NEW to \in {"active", "cancelled", "suspended", "grace_soft"},
         NEW given \in {NoLock, "chargeback", "plan_retired"},
         to = "suspended" => given = "chargeback", to = "grace_soft" => given = "plan_retired",
         Transition(to, given), cron' = cron
  PROVE  RetiredStep
<1>1. CASE ~Moves(to)
  BY <1>1, RetiredFrame DEF Transition
<1>2. CASE Moves(to)
  <2>1. state' = to /\ lock' = LockAfter(to, given, lock)
    BY <1>2 DEF Transition
  <2>2. /\ to = "active" => lock' = NoLock
        /\ to = "cancelled" => lock' = lock
        /\ to = "suspended" => lock' = "chargeback"
        /\ to = "grace_soft" => lock' = "plan_retired"
    BY <2>1 DEF LockAfter, NoLock, Operational
  <2> QED
    BY <2>1, <2>2 DEF RetiredInv, RetiredStep, MotiveKept, NoLock
<1> QED
  BY <1>1, <1>2

LEMMA RetiredReactivate ==
  ASSUME RetiredInv, Reactivate, cron' = cron PROVE RetiredStep
<1>1. CASE state \in Operational
  BY <1>1, RetiredFrame DEF Reactivate, rowVars
<1>2. CASE state \notin Operational
  <2>1. state' = "active" /\ lock' = NoLock
    BY <1>2 DEF Reactivate
  <2> QED
    BY <2>1 DEF RetiredInv, RetiredStep, MotiveKept, NoLock
<1> QED
  BY <1>1, <1>2

\* An existing motive wins, and the suspension rung has one in any case.
LEMMA RetiredRead ==
  ASSUME RetiredInv, CronRead PROVE RetiredStep
<1>1. PICK converts \in BOOLEAN :
        /\ cron' = [pc |-> "decided", target |-> Target(converts), lock |-> Motive]
        /\ UNCHANGED <<state, lock>>
  BY DEF CronRead, rowVars
<1>2. Motive # "admin_manual" /\ (Target(converts) = "suspended" => Motive # NoLock)
  BY DEF RetiredInv, Motive, Target, NoLock
<1>3. state = "grace_hard" /\ lock = "plan_retired" => Motive = "plan_retired"
  BY DEF Motive, NoLock
<1> QED
  BY <1>1, <1>2, <1>3 DEF RetiredInv, RetiredStep, MotiveKept

LEMMA RetiredCommit ==
  ASSUME TypeInv, LockInv, RetiredInv, CronCommit PROVE RetiredStep
<1>1. cron.pc = "decided" /\ cron'.pc = "idle" /\ Transition(cron.target, cron.lock)
  BY DEF CronCommit, IdleCron
<1>2. CASE ~Moves(cron.target)
  BY <1>1, <1>2 DEF Transition, RetiredInv, RetiredStep, MotiveKept
<1>3. CASE Moves(cron.target)
  <2>1. state' = cron.target /\ lock' = LockAfter(cron.target, cron.lock, lock)
        /\ Legal(state, cron.target) /\ state \in DunningStates /\ cron.target \in DunningStates
        /\ cron.lock \in Locks
    BY <1>1, <1>3 DEF Transition, Moves, TypeInv, TypeOK, IdleCron, Verdicts
  <2>2. CASE cron.target = "suspended"
    <3>1. state = "grace_hard"
      BY <2>1, <2>2 DEF Legal, Transitions, DunningStates
    <3>2. lock' = cron.lock
      BY <1>1, <2>1, <2>2 DEF RetiredInv, LockAfter, Operational
    <3> QED
      BY <1>1, <2>1, <2>2, <3>1, <3>2 DEF RetiredInv, RetiredStep, MotiveKept, Locks, Motives
  <2>3. CASE cron.target \in {"grace_soft", "grace_hard"}
    <3>1. cron.lock # "past_due"
      BY <1>1, <2>3 DEF LockInv
    <3>2. lock' = IF cron.lock = NoLock THEN lock ELSE cron.lock
      BY <2>1, <2>3 DEF LockAfter, Operational
    <3> QED
      BY <1>1, <2>1, <3>1, <3>2 DEF RetiredInv, RetiredStep, MotiveKept, Locks, Motives
  <2>4. CASE cron.target \in {"cancelled", "expired"}
    <3>1. lock' = lock
      BY <2>1, <2>4 DEF LockAfter, Operational
    <3> QED
      BY <1>1, <3>1 DEF RetiredInv, RetiredStep, MotiveKept
  <2>5. CASE cron.target \in Operational
    <3>1. state' = "active"
      BY <2>1, <2>5 DEF Legal, Transitions, DunningStates, Operational
    <3>2. lock' = NoLock
      BY <2>1, <2>5 DEF LockAfter, Operational
    <3> QED
      BY <1>1, <3>1, <3>2 DEF RetiredInv, RetiredStep, MotiveKept, NoLock
  <2> QED
    BY <2>1, <2>2, <2>3, <2>4, <2>5 DEF DunningStates, Operational
<1> QED
  BY <1>2, <1>3

LEMMA RetiredKept == TypeInv /\ LockInv /\ RetiredInv /\ [Next]_vars => RetiredStep
<1> SUFFICES ASSUME TypeInv, LockInv, RetiredInv, [Next]_vars PROVE RetiredStep
  OBVIOUS
<1>1. ASSUME NEW c \in Chargers, NEW i \in Invoices, NEW b \in BOOLEAN,
             RetryStart(i) \/ CustomerPays(c, i) \/ GatewayFails(c, i, b) \/ GatewaySettles(i, b)
      PROVE  RetiredStep
  BY <1>1, RetiredFrame DEF RetryStart, CustomerPays, GatewayFails, GatewaySettles, rowVars
<1>2. ASSUME NEW i \in Invoices, ManualPayment(i) PROVE RetiredStep
  BY <1>2, RetiredMove DEF ManualPayment
<1>3. ASSUME NEW c \in Chargers, NEW i \in Invoices, NEW h \in BOOLEAN, NEW b \in BOOLEAN,
             GatewayCollects(c, i, h, b)
      PROVE  RetiredStep
  BY <1>3, RetiredReactivate DEF GatewayCollects, ChargeSuccess
<1>4. CASE RenewSelect \/ RenewIssue \/ RenewAdvance \/ RenewCrash
  BY <1>4, RetiredFrame DEF RenewSelect, RenewIssue, RenewAdvance, RenewCrash, rowVars
<1>5. CASE RenewCancel
  BY <1>5 DEF RenewCancel, RetiredInv, RetiredStep, MotiveKept
<1>6. CASE RenewPlanRetired
  <2>1. cron' = cron /\ (Transition("grace_soft", "plan_retired") \/ UNCHANGED <<state, lock>>)
    BY <1>6 DEF RenewPlanRetired
  <2> QED
    BY <2>1, RetiredMove, RetiredFrame
<1>7. CASE CancelNow \/ Chargeback
  BY <1>7, RetiredMove DEF CancelNow, Chargeback
<1>8. CASE ScheduleCancel \/ UnscheduleCancel \/ AddCard \/ LoseCard \/ TogglePlan \/ Tick \/ UNCHANGED vars
  BY <1>8, RetiredFrame DEF ScheduleCancel, UnscheduleCancel, AddCard, LoseCard, TogglePlan, Tick, rowVars, vars
<1>9. "cron" \in Chargers
  BY DEF Chargers
<1> QED
  BY <1>1, <1>2, <1>3, <1>4, <1>5, <1>6, <1>7, <1>8, <1>9, RetiredRead, RetiredCommit DEF Next, GatewayAnswers

\* Whatever the interleaving of jobs, payments and cancellations, the motive of
\* a retired plan survives every rung down to the cancellation: only recovery
\* or a chargeback replaces it, and a stale verdict of the engine never does.
THEOREM RetiredMotiveSurvivesHolds == Spec => RetiredMotiveSurvives
<1>1. Init => RetiredInv
  BY DEF Init, RetiredInv, NoLock, IdleCron
<1>2. RetiredStep => RetiredInv' /\ [MotiveKept]_vars
  BY DEF RetiredStep
<1>3. Spec => []TypeInv
  BY TypeCorrect DEF TypeInv
<1> QED
  BY <1>1, <1>2, <1>3, LockHolds, RetiredKept, PTL DEF Spec, RetiredMotiveSurvives, MotiveKept

-----------------------------------------------------------------------------
(* Terminal stores *)

\* A trial, and the store it expires into, was never billed: no job or charge
\* holds anything of it.  The engine's verdict outlives a cancellation only.
NeverBilled ==
  /\ \A i \in Invoices : inv[i] = "none"
  /\ \A c \in Chargers : flight[c] = NoInvoice
  /\ renew.pc = "idle"
ToExpire == cron.pc = "decided" /\ cron.target = "expired"
TerminalInv ==
  /\ state \in {"trial", "expired"} => NeverBilled
  /\ ToExpire => state \in {"trial", "expired", "cancelled"} /\ NeverBilled

\* A terminal store stays so unless the step collects a charge.
Terminal == state \in {"cancelled", "expired"} /\ state' # state => Collects
TerminalStep == TerminalInv' /\ Terminal

LEMMA TerminalFrame ==
  ASSUME TerminalInv, UNCHANGED <<state, cron>>, NeverBilled => NeverBilled'
  PROVE  TerminalStep
BY DEF TerminalInv, ToExpire, TerminalStep, Terminal

\* A legal move to a state other than trial and expired leaves neither
\* terminal state, and leaves a trial to be closed or to become active.
LEMMA TerminalMove ==
  ASSUME TypeInv, TerminalInv, NEW to \in {"active", "cancelled", "suspended", "grace_soft"}, NEW given,
         Transition(to, given), cron' = cron, NeverBilled => NeverBilled',
         NeverBilled => to = "cancelled" \/ state \notin {"trial", "expired", "cancelled"}
  PROVE  TerminalStep
<1>1. CASE ~Moves(to)
  BY <1>1, TerminalFrame DEF Transition
<1>2. CASE Moves(to)
  <2>1. state' = to
    BY <1>2 DEF Transition
  <2>2. state \notin {"cancelled", "expired"}
    BY <1>2 DEF Moves, Legal, Transitions
  <2> QED
    BY <2>1, <2>2 DEF TerminalInv, ToExpire, TerminalStep, Terminal
<1> QED
  BY <1>1, <1>2

LEMMA TerminalRenew ==
  ASSUME TypeInv, TerminalInv,
         RenewSelect \/ RenewCancel \/ RenewPlanRetired \/ RenewIssue \/ RenewAdvance \/ RenewCrash
  PROVE  TerminalStep
<1>1. CASE RenewSelect
  <2>1. state \in Billable /\ UNCHANGED <<state, cron>>
    BY <1>1 DEF RenewSelect, rowVars
  <2> QED
    BY <2>1 DEF TerminalInv, ToExpire, Billable, TerminalStep, Terminal
<1>2. ASSUME RenewCancel \/ RenewPlanRetired \/ RenewIssue \/ RenewAdvance \/ RenewCrash
      PROVE  ~NeverBilled /\ cron' = cron
  BY <1>2 DEF RenewCancel, RenewPlanRetired, RenewIssue, RenewAdvance, RenewCrash, NeverBilled
<1>3. CASE RenewIssue \/ RenewAdvance \/ RenewCrash
  BY <1>2, <1>3, TerminalFrame DEF RenewIssue, RenewAdvance, RenewCrash, rowVars
<1>4. CASE RenewCancel
  BY <1>2, <1>4 DEF RenewCancel, TerminalInv, ToExpire, TerminalStep, Terminal
<1>5. CASE RenewPlanRetired
  <2>1. CASE UNCHANGED state
    BY <1>2, <1>5, <2>1, TerminalFrame
  <2>2. CASE ~UNCHANGED state
    <3>1. Transition("grace_soft", "plan_retired")
      BY <1>5, <2>2 DEF RenewPlanRetired
    <3> QED
      BY <1>2, <1>5, <3>1, TerminalMove
  <2> QED
    BY <2>1, <2>2
<1> QED
  BY <1>1, <1>3, <1>4, <1>5

LEMMA TerminalCron ==
  ASSUME TypeInv, TerminalInv, CronRead \/ CronCommit PROVE TerminalStep
<1>1. UNCHANGED <<inv, flight, renew>> /\ (NeverBilled => NeverBilled')
  BY DEF CronRead, CronCommit, invVars, NeverBilled
<1>2. CASE CronRead
  <2>1. PICK converts \in BOOLEAN :
          cron'.target = Target(converts) /\ UNCHANGED state /\ Target(converts) # state
    BY <1>2 DEF CronRead, rowVars
  <2>2. Target(converts) = "expired" => state = "trial"
    BY <2>1 DEF Target, Rung
  <2> QED
    BY <1>1, <2>1, <2>2 DEF TerminalInv, ToExpire, TerminalStep, Terminal
<1>3. CASE CronCommit
  <2>1. cron.pc = "decided" /\ cron'.pc = "idle" /\ Transition(cron.target, cron.lock)
    BY <1>3 DEF CronCommit, IdleCron
  <2>2. CASE ~Moves(cron.target)
    BY <1>1, <2>1, <2>2 DEF Transition, TerminalInv, ToExpire, TerminalStep, Terminal
  <2>3. CASE Moves(cron.target)
    <3>1. state' = cron.target /\ cron.target \in DunningStates
      BY <2>1, <2>3 DEF Transition, TypeInv, TypeOK, IdleCron, Verdicts
    <3>2. state \notin {"cancelled", "expired"} /\ cron.target # "trial"
      BY <2>3, <3>1 DEF Moves, Legal, Transitions, DunningStates, TypeInv, TypeOK
    <3> QED
      BY <1>1, <2>1, <3>1, <3>2 DEF TerminalInv, ToExpire, TerminalStep, Terminal
  <2> QED
    BY <2>2, <2>3
<1> QED
  BY <1>2, <1>3

LEMMA TerminalCharge ==
  ASSUME TypeInv, TerminalInv, NEW c \in Chargers, NEW i \in Invoices, NEW b \in BOOLEAN,
         \/ RetryStart(i) \/ CustomerPays(c, i) \/ ManualPayment(i) \/ GatewayFails(c, i, b)
         \/ GatewaySettles(i, b) \/ \E hasCard \in BOOLEAN : GatewayCollects(c, i, hasCard, b)
  PROVE  TerminalStep
<1>1. CASE GatewaySettles(i, b)
  BY <1>1, TerminalFrame DEF GatewaySettles, rowVars, NeverBilled
<1>2. CASE RetryStart(i)
  BY <1>2, TerminalFrame DEF RetryStart, rowVars, invVars, NeverBilled
<1>3. CASE CustomerPays(c, i)
  BY <1>3, TerminalFrame DEF CustomerPays, rowVars, NeverBilled
<1>4. CASE GatewayFails(c, i, b)
  BY <1>4, TerminalFrame DEF GatewayFails, rowVars, NeverBilled
<1>5. CASE ManualPayment(i)
  <2>1. ~NeverBilled
    BY <1>5 DEF ManualPayment, NeverBilled
  <2> QED
    BY <1>5, <2>1, TerminalMove DEF ManualPayment
<1>6. CASE \E hasCard \in BOOLEAN : GatewayCollects(c, i, hasCard, b)
  <2>1. /\ flight[c] = i /\ i # NoInvoice /\ cron' = cron /\ Reactivate
        /\ flight' = [flight EXCEPT ![c] = NoInvoice] /\ inv' = [inv EXCEPT ![i] = "paid"]
    BY <1>6 DEF GatewayCollects, ChargeSuccess
  <2>2. ~NeverBilled
    BY <2>1 DEF NeverBilled
  <2>3. Collects
    BY <2>1 DEF Collects, TypeInv, TypeOK
  <2>4. state' \in {state, "active"}
    BY <2>1 DEF Reactivate, rowVars
  <2> QED
    BY <2>1, <2>2, <2>3, <2>4 DEF TerminalInv, ToExpire, TerminalStep, Terminal
<1> QED
  BY <1>1, <1>2, <1>3, <1>4, <1>5, <1>6

LEMMA TerminalKept == TypeInv /\ TerminalInv /\ [Next]_vars => TerminalStep
<1> SUFFICES ASSUME TypeInv, TerminalInv, [Next]_vars PROVE TerminalStep
  OBVIOUS
<1>1. CASE CancelNow
  BY <1>1, TerminalMove DEF CancelNow, invVars, NeverBilled
<1>2. CASE Chargeback
  <2>1. state \notin {"trial", "expired", "cancelled"}
    BY <1>2 DEF Chargeback, Moves, Legal, Transitions
  <2> QED
    BY <1>2, <2>1, TerminalMove DEF Chargeback, invVars, NeverBilled
<1>3. CASE ScheduleCancel \/ UnscheduleCancel \/ AddCard \/ LoseCard \/ TogglePlan \/ Tick \/ UNCHANGED vars
  BY <1>3, TerminalFrame DEF ScheduleCancel, UnscheduleCancel, AddCard, LoseCard, TogglePlan, Tick,
     rowVars, invVars, vars, NeverBilled
<1>4. CASE \E c \in Chargers, i \in Invoices, b \in BOOLEAN :
             \/ RetryStart(i) \/ CustomerPays(c, i) \/ ManualPayment(i) \/ GatewayFails(c, i, b)
             \/ GatewaySettles(i, b) \/ \E hasCard \in BOOLEAN : GatewayCollects(c, i, hasCard, b)
  BY <1>4, TerminalCharge
<1>5. "cron" \in Chargers /\ TRUE \in BOOLEAN
  BY DEF Chargers
<1> QED
  BY <1>1, <1>2, <1>3, <1>4, <1>5, TerminalRenew, TerminalCron DEF Next, GatewayAnswers

\* Whatever the interleaving, a cancelled or expired store comes back only in
\* the step that collects a charge: a stale verdict, snapshot or manual payment
\* never revives it.
THEOREM TerminalNeedsPaymentHolds == Spec => TerminalNeedsPayment
<1>1. Init => TerminalInv
  BY DEF Init, TerminalInv, ToExpire, NeverBilled, IdleRenewal, IdleCron
<1>2. TerminalStep => TerminalInv' /\ [Terminal]_vars
  BY DEF TerminalStep
<1>3. Spec => []TypeInv
  BY TypeCorrect DEF TypeInv
<1> QED
  BY <1>1, <1>2, <1>3, TerminalKept, PTL DEF Spec, TerminalNeedsPayment, Terminal

=============================================================================
