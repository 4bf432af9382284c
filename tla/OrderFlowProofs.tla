-------------------------- MODULE OrderFlowProofs --------------------------
(***************************************************************************)
(* Proofs about OrderFlow, for any orders, users, stock and bounds.        *)
(***************************************************************************)
EXTENDS OrderFlow, FiniteSetTheorems, TLAPS

Processes == Users \union Jobs

\* What a request or a job carries from its read to its writes.
Carried(r) ==
  /\ r.o \in Orders
  /\ r.pc \in Ops => r.seen \in States /\ r.pays \in PaymentRows
  /\ r.pc = "cancel" => r.seen \in Cancelable
  /\ r.pc \in {"reactivate", "reserve"} => r.level \in LevelType
  /\ r.pc = "reactivate" => r.to \in Cancelable

Requests == DOMAIN req = Processes /\ \A u \in Processes : req[u] # Idle => Carried(req[u])
Tables ==
  /\ state \in [Orders -> States]
  /\ prev \in [Orders -> Cancelable \union {"none"}]
  /\ taken \in [Orders -> BOOLEAN]
  /\ pay \in [Orders -> PaymentRows]
Stocked ==
  /\ level \in LevelType
  /\ rows \in [Orders -> SUBSET Rows] /\ made \in [Orders -> 0..MaxRows]
Gateway == gate \in [Orders -> {"none", "approved", "declined"}] /\ heard \subseteq Orders

Typed == Tables /\ Stocked /\ Gateway /\ Requests

LEMMA TypedIsTypeOK == Typed => TypeOK
  BY DEF Typed, Tables, Stocked, Gateway, Requests, TypeOK, Processes, Carried

LEMMA Named ==
  /\ Cancelable \subseteq States /\ Live \subseteq {"none", "cancelled", "failed"} \union Live
  /\ Idle.pc = "idle" /\ "idle" \notin Ops
  /\ {"finished", "cancelled", "processing", "created", "pending_payment", "draft"} \subseteq States
  BY DEF Cancelable, States, Live, Idle, Ops

-----------------------------------------------------------------------------
(* Stock *)

LEMMA ClippedIsNat ==
  ASSUME NEW n \in Int PROVE NotNegative(n) \in Nat
  BY DEF NotNegative

LEMMA QuantitiesOf ==
  ASSUME NEW lv \in LevelType
  PROVE  lv.on_hand \in Nat /\ lv.reserved \in Nat /\ lv.available \in Int
  BY DEF LevelType

LEMMA SoldTyped ==
  ASSUME NEW lv \in LevelType, NEW q \in Nat PROVE Sold(lv, q) \in LevelType
<1> DEFINE n == NotNegative(lv.on_hand - q)  a == NotNegative(lv.available - q)
<1>1. n \in Nat /\ a \in Int BY QuantitiesOf, ClippedIsNat
<1>2. Sold(lv, q) = [lv EXCEPT !.on_hand = n, !.available = a] BY Zenon DEF Sold
<1> HIDE DEF n, a
<1> QED BY <1>1, <1>2, QuantitiesOf DEF LevelType

LEMMA FreedTyped ==
  ASSUME NEW lv \in LevelType, NEW q \in Nat PROVE Freed(lv, q) \in LevelType
<1> DEFINE r == NotNegative(lv.reserved - q)  a == lv.available + q
<1>1. r \in Nat /\ a \in Int BY QuantitiesOf, ClippedIsNat
<1>2. Freed(lv, q) = [lv EXCEPT !.reserved = r, !.available = a] BY Zenon DEF Freed
<1> HIDE DEF r, a
<1> QED BY <1>1, <1>2, QuantitiesOf DEF LevelType

LEMMA ConsumedTyped ==
  ASSUME NEW lv \in LevelType, NEW q \in Nat PROVE Consumed(lv, q) \in LevelType
<1> DEFINE r == NotNegative(lv.reserved - q)  a == NotNegative(lv.on_hand - r)
<1>1. r \in Nat BY QuantitiesOf, ClippedIsNat
<1>2. a \in Int BY <1>1, QuantitiesOf, ClippedIsNat
<1>3. Consumed(lv, q) = [lv EXCEPT !.reserved = r, !.available = a] BY Zenon DEF Consumed
<1> HIDE DEF r, a
<1> QED BY <1>1, <1>2, <1>3, QuantitiesOf DEF LevelType

LEMMA HeldIsNat ==
  ASSUME Stocked, NEW o \in Orders PROVE HeldUnits(o) \in Nat
<1>1. IsFiniteSet(Rows)
  BY FS_Interval, BoundsAssumption DEF Rows
<1>2. Cardinality(rows[o]) \in Nat
  BY <1>1, FS_Subset, FS_CardinalityType DEF Stocked
<1>3. Units[o] \in Nat
  BY UnitsAssumption
<1> QED
  BY <1>2, <1>3 DEF HeldUnits

LEMMA ReserveTyped ==
  ASSUME Stocked, NEW o \in Orders, NEW read \in LevelType, Reserve(o, read)
  PROVE  Stocked'
<1> DEFINE r == read.reserved + Units[o]  a == read.available - Units[o]
<1>1. r \in Nat /\ a \in Int
  BY QuantitiesOf, UnitsAssumption
<1>2. level' = [level EXCEPT !.reserved = r, !.available = a]
  BY DEF Reserve
<1>3. level' \in LevelType
  <2> HIDE DEF r, a
  <2> QED BY <1>1, <1>2 DEF Stocked, LevelType
<1>4. made[o] + 1 \in 1..MaxRows
  BY BoundsAssumption DEF Reserve, Stocked
<1> QED
  BY <1>3, <1>4, BoundsAssumption DEF Reserve, Stocked, Rows

LEMMA ReleaseTyped ==
  ASSUME Stocked, NEW o \in Orders, ReleaseAll(o) PROVE Stocked'
<1>1. level' \in LevelType
  BY HeldIsNat, FreedTyped DEF ReleaseAll, Stocked
<1> QED
  BY <1>1 DEF ReleaseAll, NoRows, Stocked

LEMMA CommitTyped ==
  ASSUME Stocked, Tables, NEW o \in Orders, Commit(o)
  PROVE  Stocked' /\ taken' \in [Orders -> BOOLEAN]
<1>1. OnTheShelf(o) \in LevelType
  BY HeldIsNat, FreedTyped DEF OnTheShelf, Stocked
<1>2. Sold(OnTheShelf(o), Units[o]) \in LevelType
  BY <1>1, SoldTyped, UnitsAssumption
<1>3. Consumed(level, HeldUnits(o)) \in LevelType
  BY HeldIsNat, ConsumedTyped DEF Stocked
<1>4. level' \in LevelType
  BY <1>2, <1>3 DEF Commit, Stocked
<1> QED
  BY <1>4 DEF Commit, NoRows, Stocked, Tables

-----------------------------------------------------------------------------
(* Requests and tables *)

LEMMA BeginTyped ==
  ASSUME Requests, NEW u \in Processes, NEW r, r = Idle \/ Carried(r), Begin(u, r)
  PROVE  Requests'
<1>1. DOMAIN req' = Processes
  BY DEF Begin, Requests
<1>2. ASSUME NEW v \in Processes, req'[v] # Idle PROVE Carried(req'[v])
  <2>1. CASE v = u
    BY <1>2, <2>1 DEF Begin, Requests
  <2>2. CASE v # u
    BY <1>2, <2>2 DEF Begin, Requests
  <2> QED
    BY <2>1, <2>2
<1> QED
  BY <1>1, <1>2 DEF Requests, Carried

LEMMA DoneTyped ==
  ASSUME Requests, NEW u \in Processes, Done(u) PROVE Requests'
  BY BeginTyped DEF Done

LEMMA Busy ==
  ASSUME Typed, NEW u \in Processes, req[u].pc # "idle"
  PROVE  req[u] # Idle /\ Carried(req[u]) /\ req[u].o \in Orders
<1>1. req[u] # Idle
  BY DEF Idle
<1> QED
  BY <1>1 DEF Typed, Requests, Carried

LEMMA SnapshotCarried ==
  ASSUME Typed, NEW pc \in Ops, NEW o \in Orders, pc = "cancel" => state[o] \in Cancelable
  PROVE  Carried(Snapshot(pc, o))
<1> DEFINE r == Snapshot(pc, o)
<1>1. r.pc = pc /\ r.o = o /\ r.seen = state[o] /\ r.pays = pay[o]
  BY DEF Snapshot
<1>2. pc \notin {"reactivate", "reserve"}
  BY DEF Ops
<1>3. state[o] \in States /\ pay[o] \in PaymentRows
  BY DEF Typed, Tables
<1> HIDE DEF r
<1>4. Carried(r)
  BY <1>1, <1>2, <1>3 DEF Carried
<1> QED
  BY <1>4 DEF r

\* A request of which nothing but the order and its place is known.
LEMMA PlainCarried ==
  ASSUME NEW r, r.o \in Orders, r.pc \notin Ops, r.pc \notin {"reactivate", "reserve", "cancel"}
  PROVE  Carried(r)
  BY DEF Carried

LEMMA MovesTyped ==
  ASSUME Tables, NEW o \in Orders, NEW s \in States, MovesTo(o, s)
  PROVE  state' \in [Orders -> States]
  BY DEF Tables, MovesTo

LEMMA WritesTyped ==
  ASSUME Tables, NEW o \in Orders, NEW p, NEW s \in {"none", "cancelled", "failed"} \union Live,
         Writes(o, p, s)
  PROVE  pay' \in [Orders -> PaymentRows]
<1>1. [pay[o] EXCEPT ![p] = s] \in PaymentRows
  BY DEF Tables, PaymentRows
<1>2. pay' = [pay EXCEPT ![o] = [pay[o] EXCEPT ![p] = s]]
  BY DEF Writes
<1> QED
  BY <1>1, <1>2 DEF Tables

LEMMA GatewayKept ==
  ASSUME Gateway, UNCHANGED <<gate, heard>> PROVE Gateway'
  BY DEF Gateway

LEMMA StockKept ==
  ASSUME Stocked, UNCHANGED stock PROVE Stocked'
  BY DEF Stocked, stock

-----------------------------------------------------------------------------
(* Each step is well typed *)

LEMMA PlacementTyped ==
  ASSUME Typed, NEW o \in Orders, PlaceAtPos(o) \/ Checkout(o) PROVE Typed'
<1>1. Requests' /\ Gateway'
  BY DEF PlaceAtPos, Checkout, Typed, Requests, Gateway, Carried
<1>2. CASE PlaceAtPos(o)
  <2>1. Stocked'
    BY <1>2, ReserveTyped, StockKept DEF PlaceAtPos, Typed, Stocked
  <2>2. Tables'
    BY <1>2 DEF PlaceAtPos, Typed, Tables, States
  <2> QED
    BY <1>1, <2>1, <2>2 DEF Typed
<1>3. CASE Checkout(o)
  <2>1. Stocked'
    BY <1>3, ReserveTyped, StockKept DEF Checkout, Typed, Stocked
  <2>2. pay' \in [Orders -> PaymentRows]
    BY <1>3, WritesTyped DEF Checkout, Writes, Typed, Live
  <2>3. Tables'
    BY <1>3, <2>2 DEF Checkout, Typed, Tables, States
  <2> QED
    BY <1>1, <2>1, <2>3 DEF Typed
<1> QED
  BY <1>2, <1>3

\* A step of one process that only changes what it carries.
LEMMA BeginningTyped ==
  ASSUME Typed, NEW u \in Processes, NEW r, r = Idle \/ Carried(r), Begin(u, r),
         UNCHANGED <<state, prev, taken, pay, stock, gate>>, heard' \subseteq Orders
  PROVE  Typed'
<1>1. Requests'
  BY BeginTyped DEF Typed
<1> QED
  BY <1>1, StockKept DEF Typed, Tables, Gateway

LEMMA ReadTyped ==
  ASSUME Typed, NEW u \in Users, NEW o \in Orders,
         (\E op \in Ops : Read(u, op, o)) \/ ReactivateRead(u, o)
  PROVE  Typed'
<1>1. u \in Processes
  BY DEF Processes
<1>2. ASSUME NEW op \in Ops, Read(u, op, o) PROVE Typed'
  <2>1. op = "cancel" => state[o] \in Cancelable
    BY <1>2 DEF Read, Accepts
  <2>2. Carried(Snapshot(op, o))
    BY <2>1, SnapshotCarried
  <2> QED
    BY <1>1, <1>2, <2>2, BeginningTyped DEF Read, Typed, Gateway
<1>3. CASE ReactivateRead(u, o)
  <2> DEFINE r == [pc |-> "reactivate", o |-> o, level |-> level,
                   to |-> IF prev[o] = "none" THEN "pending_payment" ELSE prev[o]]
  <2>1. Carried(r)
    <3>1. "reactivate" \notin Ops
      BY DEF Ops
    <3>2. (IF prev[o] = "none" THEN "pending_payment" ELSE prev[o]) \in Cancelable
      BY DEF Typed, Tables, Cancelable
    <3> QED
      BY <3>1, <3>2 DEF Carried, Typed, Stocked
  <2>2. Begin(u, r)
    BY <1>3 DEF ReactivateRead
  <2> HIDE DEF r
  <2> QED
    BY <1>1, <1>3, <2>1, <2>2, BeginningTyped DEF ReactivateRead, Typed, Gateway
<1> QED
  BY <1>2, <1>3

LEMMA JobReadTyped ==
  ASSUME Typed, NEW o \in Orders,
         \/ HookHears(o) \/ PollReads(o) \/ TimeoutReads(o) \/ FinisherReads(o)
         \/ \E r \in Rows : ExpirerReads(o, r)
  PROVE  Typed'
<1>1. Jobs \subseteq Processes /\ {"hook", "poll", "timeout", "finisher", "expirer"} \subseteq Processes
  BY DEF Processes, Jobs
<1>2. {"apply", "timeout", "expire"} \cap (Ops \union {"reactivate", "reserve", "cancel"}) = {}
  BY DEF Ops
<1>3. CASE HookHears(o)
  <2>1. Carried([pc |-> "apply", o |-> o])
    BY <1>2, PlainCarried
  <2>2. heard' \subseteq Orders
    BY <1>3 DEF HookHears, Typed, Gateway
  <2> QED
    BY <1>1, <1>3, <2>1, <2>2, BeginningTyped DEF HookHears
<1>4. CASE PollReads(o)
  <2>1. Carried([pc |-> "apply", o |-> o])
    BY <1>2, PlainCarried
  <2> QED
    BY <1>1, <1>4, <2>1, BeginningTyped DEF PollReads, Typed, Gateway
<1>5. CASE TimeoutReads(o)
  <2>1. Carried([pc |-> "timeout", o |-> o])
    BY <1>2, PlainCarried
  <2> QED
    BY <1>1, <1>5, <2>1, BeginningTyped DEF TimeoutReads, Typed, Gateway
<1>6. CASE FinisherReads(o)
  <2>1. Carried(Snapshot("finish", o))
    BY SnapshotCarried DEF Ops
  <2> QED
    BY <1>1, <1>6, <2>1, BeginningTyped DEF FinisherReads, Typed, Gateway
<1>7. ASSUME NEW r \in Rows, ExpirerReads(o, r) PROVE Typed'
  <2>1. Carried([pc |-> "expire", o |-> o, row |-> r])
    BY <1>2, PlainCarried
  <2> QED
    BY <1>1, <1>7, <2>1, BeginningTyped DEF ExpirerReads, Typed, Gateway
<1> QED
  BY <1>3, <1>4, <1>5, <1>6, <1>7

LEMMA DecisionTyped ==
  ASSUME Typed, NEW o \in Orders, NEW answer \in {"approved", "declined"}, Decides(o, answer)
  PROVE  Typed'
  BY DEF Decides, Typed, Tables, Stocked, Gateway, Requests, Carried, stock

LEMMA ThenReadsTyped ==
  ASSUME Typed, NEW w \in Processes, ThenReads(w) PROVE Typed'
<1> DEFINE o == req[w].o
<1>1. o \in Orders
  BY Busy DEF ThenReads, At
<1>2. UNCHANGED <<state, prev, taken, pay, stock, gate>> /\ heard' \subseteq Orders
  BY DEF ThenReads, Typed, Gateway
<1>3. CASE At(w, "then_confirm")
  <2>1. Begin(w, IF state[o] = "pending_payment" THEN Snapshot("confirm", o) ELSE Idle)
    BY <1>3 DEF ThenReads, At
  <2>2. Carried(Snapshot("confirm", o))
    BY <1>1, SnapshotCarried DEF Ops
  <2> HIDE DEF o
  <2> QED
    BY <1>2, <2>1, <2>2, BeginningTyped
<1>4. CASE At(w, "then_cancel")
  <2>1. Begin(w, IF state[o] \in Cancelable THEN Snapshot("cancel", o) ELSE Idle)
    BY <1>4 DEF ThenReads, At
  <2>2. state[o] \in Cancelable => Carried(Snapshot("cancel", o))
    BY <1>1, SnapshotCarried DEF Ops
  <2> HIDE DEF o
  <2> QED
    BY <1>2, <2>1, <2>2, BeginningTyped
<1> QED
  BY <1>3, <1>4 DEF ThenReads

LEMMA CrashTyped ==
  ASSUME Typed, NEW u \in Processes, Crash(u) PROVE Typed'
  BY BeginningTyped DEF Crash, Done, Typed, Gateway

\* A step that writes states or payments of its order, and no stock.
LEMMA WritingTyped ==
  ASSUME Typed, NEW u \in Processes, NEW r, r = Idle \/ Carried(r), Begin(u, r),
         state' \in [Orders -> States], prev' \in [Orders -> Cancelable \union {"none"}],
         pay' \in [Orders -> PaymentRows], UNCHANGED <<taken, stock, gate, heard>>
  PROVE  Typed'
<1>1. Requests'
  BY BeginTyped DEF Typed
<1> QED
  BY <1>1, StockKept DEF Typed, Tables, Gateway

LEMMA PayTyped ==
  ASSUME Typed, NEW u \in Processes,
         PayClaim(u) \/ PayRefused(u) \/ PayOnline(u) \/ PayDirect(u)
  PROVE  Typed'
<1> DEFINE o == req[u].o
<1>1. o \in Orders
  BY Busy DEF PayClaim, PayRefused, PayOnline, PayDirect, At
<1>2. Tables /\ state \in [Orders -> States] /\ pay \in [Orders -> PaymentRows]
      /\ prev \in [Orders -> Cancelable \union {"none"}]
  BY DEF Typed, Tables
<1>3. {"claimed", "paid"} \cap (Ops \union {"reactivate", "reserve", "cancel"}) = {}
  BY DEF Ops
<1>4. CASE PayClaim(u)
  <2>1. Carried([pc |-> "claimed", o |-> o])
    BY <1>1, <1>3, PlainCarried
  <2>2. Begin(u, [pc |-> "claimed", o |-> o]) \/ Begin(u, Idle)
    BY <1>4 DEF PayClaim, Done
  <2>3. state' \in [Orders -> States]
    BY <1>1, <1>2, <1>4, MovesTyped, Named DEF PayClaim
  <2> HIDE DEF o
  <2> QED
    BY <1>2, <1>4, <2>1, <2>2, <2>3, WritingTyped DEF PayClaim
<1>5. CASE PayRefused(u)
  BY <1>2, <1>5, WritingTyped DEF PayRefused, Done
<1>6. CASE PayOnline(u)
  <2>1. pay' \in [Orders -> PaymentRows]
    BY <1>1, <1>2, <1>6, WritesTyped DEF PayOnline, Live
  <2> QED
    BY <1>2, <1>6, <2>1, WritingTyped DEF PayOnline, Done
<1>7. CASE PayDirect(u)
  <2>1. Carried([pc |-> "paid", o |-> o, p |-> FreePayment(o)])
    BY <1>1, <1>3, PlainCarried
  <2>2. pay' \in [Orders -> PaymentRows]
    BY <1>1, <1>2, <1>7, WritesTyped DEF PayDirect, Live
  <2>3. Begin(u, [pc |-> "paid", o |-> o, p |-> FreePayment(o)])
    BY <1>7 DEF PayDirect
  <2> HIDE DEF o
  <2> QED
    BY <1>2, <1>7, <2>1, <2>2, <2>3, WritingTyped DEF PayDirect
<1> QED
  BY <1>4, <1>5, <1>6, <1>7

LEMMA CommittingTyped ==
  ASSUME Typed, NEW u \in Processes, PayEnds(u) \/ Finish(u) PROVE Typed'
<1> DEFINE o == req[u].o
<1>1. o \in Orders
  BY Busy DEF PayEnds, Finish, At
<1>2. Requests' /\ Gateway'
  BY DoneTyped, GatewayKept DEF PayEnds, Finish, Typed
<1>3. Tables /\ Stocked
  BY DEF Typed
<1>4. CASE Commit(o) /\ MovesTo(o, "finished") /\ UNCHANGED <<prev, pay>>
  BY <1>1, <1>2, <1>3, <1>4, CommitTyped, MovesTyped, Named DEF Typed, Tables
<1>5. CASE MovesTo(o, "processing") /\ UNCHANGED <<prev, taken, pay, stock>>
  BY <1>1, <1>2, <1>3, <1>5, StockKept, MovesTyped, Named DEF Typed, Tables
<1>6. CASE Writes(o, req[u].p, "cancelled") /\ UNCHANGED <<state, prev, taken, stock>>
  BY <1>1, <1>2, <1>3, <1>6, StockKept, WritesTyped DEF Typed, Tables
<1>7. CASE UNCHANGED <<state, prev, taken, pay, stock>>
  BY <1>2, <1>3, <1>7, StockKept DEF Typed, Tables
<1> QED
  BY <1>4, <1>5, <1>6, <1>7 DEF PayEnds, Finish

LEMMA MovingTyped ==
  ASSUME Typed, NEW u \in Processes, Move(u) \/ ConfirmState(u) \/ ConfirmPayment(u) \/ CancelPayment(u)
  PROVE  Typed'
<1> DEFINE o == req[u].o
<1>1. o \in Orders
  BY Busy DEF Move, ConfirmState, ConfirmPayment, CancelPayment, At
<1>2. Tables /\ state \in [Orders -> States] /\ pay \in [Orders -> PaymentRows]
      /\ prev \in [Orders -> Cancelable \union {"none"}]
  BY DEF Typed, Tables
<1>3. CASE Move(u) \/ ConfirmState(u)
  <2>1. \E s \in States : MovesTo(o, s)
    BY <1>3 DEF Move, ConfirmState, Lands, States
  <2>2. state' \in [Orders -> States]
    BY <1>1, <1>2, <2>1, MovesTyped
  <2> QED
    BY <1>2, <1>3, <2>2, WritingTyped DEF Move, ConfirmState, Done
<1>4. CASE ConfirmPayment(u)
  <2>1. pay' \in [Orders -> PaymentRows]
    BY <1>1, <1>2, <1>4, WritesTyped DEF ConfirmPayment, Live
  <2>2. Carried([pc |-> "confirmed", o |-> o])
    BY <1>1, PlainCarried DEF Ops
  <2>3. Begin(u, Idle) \/ Begin(u, [pc |-> "confirmed", o |-> o])
    BY <1>4 DEF ConfirmPayment, Done
  <2> HIDE DEF o
  <2> QED
    BY <1>2, <1>4, <2>1, <2>2, <2>3, WritingTyped DEF ConfirmPayment
<1>5. CASE CancelPayment(u)
  <2>1. pay' \in [Orders -> PaymentRows]
    BY <1>1, <1>2, <1>5, WritesTyped DEF CancelPayment
  <2>2. state' \in [Orders -> States]
    BY <1>1, <1>2, <1>5, MovesTyped, Named DEF CancelPayment
  <2> QED
    BY <1>2, <1>5, <2>1, <2>2, WritingTyped DEF CancelPayment, Done
<1> QED
  BY <1>3, <1>4, <1>5

\* All the payments of an order at once.
LEMMA WithdrawnTyped ==
  ASSUME Tables, NEW o \in Orders, NEW gone \in SUBSET Payments,
         pay' = [pay EXCEPT ![o] = [p \in Payments |-> IF p \in gone THEN "cancelled" ELSE @[p]]]
  PROVE  pay' \in [Orders -> PaymentRows]
<1>1. [p \in Payments |-> IF p \in gone THEN "cancelled" ELSE pay[o][p]] \in PaymentRows
  BY DEF Tables, PaymentRows
<1> QED
  BY <1>1 DEF Tables

LEMMA CancellingTyped ==
  ASSUME Typed, NEW u \in Processes, CancelClaim(u) \/ CancelRelease(u) PROVE Typed'
<1> DEFINE o == req[u].o
<1>1. o \in Orders /\ Carried(req[u])
  BY Busy DEF CancelClaim, CancelRelease, At
<1>2. Tables /\ Stocked /\ Gateway /\ Requests
  BY DEF Typed
<1>3. CASE CancelClaim(u) /\ state[o] \in Cancelable
  <2>1. MovesTo(o, "cancelled") /\ Begin(u, [pc |-> "release", o |-> o])
        /\ prev' = [prev EXCEPT ![o] = req[u].seen]
        /\ pay' = [pay EXCEPT ![o] = [p \in Payments |->
                     IF p \in Withdraws(req[u].pays) THEN "cancelled" ELSE @[p]]]
        /\ UNCHANGED <<taken, stock, gate, heard>>
    BY <1>3 DEF CancelClaim
  <2>2. req[u].seen \in Cancelable
    BY <1>1, <1>3 DEF CancelClaim, At, Carried
  <2>3. Carried([pc |-> "release", o |-> o])
    BY <1>1, PlainCarried DEF Ops
  <2>4. pay' \in [Orders -> PaymentRows]
    BY <1>1, <1>2, <2>1, WithdrawnTyped DEF Withdraws
  <2>5. state' \in [Orders -> States]
    BY <1>1, <1>2, <2>1, MovesTyped, Named
  <2>6. prev' \in [Orders -> Cancelable \union {"none"}]
    BY <1>1, <1>2, <2>1, <2>2 DEF Tables
  <2> HIDE DEF o
  <2> QED
    BY <2>1, <2>3, <2>4, <2>5, <2>6, WritingTyped
<1>4. CASE CancelClaim(u) /\ state[o] \notin Cancelable
  BY <1>2, <1>4, WritingTyped DEF CancelClaim, Done, Tables
<1>5. CASE CancelRelease(u)
  <2>1. Requests' /\ Gateway'
    BY <1>2, <1>5, DoneTyped, GatewayKept DEF CancelRelease
  <2>2. Stocked'
    BY <1>1, <1>2, <1>5, ReleaseTyped DEF CancelRelease
  <2> QED
    BY <1>2, <1>5, <2>1, <2>2 DEF CancelRelease, Typed, Tables
<1> QED
  BY <1>3, <1>4, <1>5

LEMMA ReactivatingTyped ==
  ASSUME Typed, NEW u \in Processes, ReactivateState(u) \/ ReactivateStock(u) PROVE Typed'
<1>1. req[u].o \in Orders /\ Carried(req[u])
  BY Busy DEF ReactivateState, ReactivateStock, At
<1>2. Tables /\ Stocked /\ Gateway /\ Requests
  BY DEF Typed
<1>3. CASE ReactivateState(u)
  <2> DEFINE r == [pc |-> "reserve", o |-> req[u].o, level |-> req[u].level]
  <2>1. req[u].level \in LevelType /\ req[u].to \in Cancelable
    BY <1>1, <1>3 DEF ReactivateState, At, Carried
  <2>2. Carried(r)
    BY <1>1, <2>1 DEF Carried, Ops
  <2>3. state' \in [Orders -> States]
    BY <1>1, <1>2, <1>3, <2>1, MovesTyped, Named DEF ReactivateState
  <2>4. Begin(u, r)
    BY <1>3 DEF ReactivateState
  <2> HIDE DEF r
  <2> QED
    BY <1>2, <1>3, <2>2, <2>3, <2>4, WritingTyped DEF ReactivateState, Tables
<1>4. CASE ReactivateStock(u)
  <2>1. req[u].level \in LevelType
    BY <1>1, <1>4 DEF ReactivateStock, At, Carried
  <2>2. Stocked'
    BY <1>1, <1>2, <1>4, <2>1, ReserveTyped DEF ReactivateStock
  <2>3. Requests' /\ Gateway'
    BY <1>2, <1>4, DoneTyped, GatewayKept DEF ReactivateStock
  <2> QED
    BY <1>2, <1>4, <2>2, <2>3 DEF ReactivateStock, Typed, Tables
<1> QED
  BY <1>3, <1>4

LEMMA ApplyTyped ==
  ASSUME Typed, NEW w \in Processes, Apply(w) PROVE Typed'
<1> DEFINE o == req[w].o
<1>1. o \in Orders
  BY Busy DEF Apply, At
<1>2. Tables
  BY DEF Typed
<1>3. pay' \in [Orders -> PaymentRows]
  <2>1. CASE pay[o][1] = "pending"
    BY <1>1, <1>2, <2>1, WritesTyped DEF Apply, Means, Live
  <2>2. CASE pay[o][1] # "pending"
    BY <1>2, <2>2 DEF Apply, Tables
  <2> QED
    BY <2>1, <2>2
<1>4. PICK r : Begin(w, r) /\ r \in {Idle, [pc |-> "then_cancel", o |-> o], [pc |-> "then_confirm", o |-> o]}
  BY DEF Apply
<1>5. Carried([pc |-> "then_cancel", o |-> o]) /\ Carried([pc |-> "then_confirm", o |-> o])
  BY <1>1, PlainCarried DEF Ops
<1> HIDE DEF o
<1>6. r = Idle \/ Carried(r)
  BY <1>4, <1>5
<1> QED
  BY <1>2, <1>3, <1>4, <1>6, WritingTyped DEF Apply, Tables

LEMMA JobWriteTyped ==
  ASSUME Typed, TimeoutCancels \/ Expires PROVE Typed'
<1>1. "timeout" \in Processes /\ "expirer" \in Processes
  BY DEF Processes, Jobs
<1>2. Tables /\ Stocked /\ Gateway /\ Requests
  BY DEF Typed
<1>3. Requests' /\ Gateway'
  BY <1>1, <1>2, DoneTyped, GatewayKept DEF TimeoutCancels, Expires
<1>4. CASE TimeoutCancels
  <2> DEFINE o == req["timeout"].o
             gone == {p \in Payments : pay[o][p] = "pending"}
  <2>1. o \in Orders
    BY <1>1, <1>4, Busy DEF TimeoutCancels, At
  <2>2. Stocked'
    BY <1>2, <1>4, <2>1, ReleaseTyped DEF TimeoutCancels
  <2>3. [p \in Payments |-> IF pay[o][p] = "pending" THEN "cancelled" ELSE pay[o][p]]
          = [p \in Payments |-> IF p \in gone THEN "cancelled" ELSE pay[o][p]]
    OBVIOUS
  <2>4. pay' = [pay EXCEPT ![o] = [p \in Payments |-> IF p \in gone THEN "cancelled" ELSE pay[o][p]]]
    BY <1>4, <2>3, Zenon DEF TimeoutCancels
  <2>5. pay' \in [Orders -> PaymentRows]
    <3>1. gone \in SUBSET Payments
      OBVIOUS
    <3> HIDE DEF gone, o
    <3> QED BY <1>2, <2>1, <2>4, <3>1, WithdrawnTyped
  <2> QED
    BY <1>2, <1>3, <1>4, <2>1, <2>2, <2>5, MovesTyped, Named DEF TimeoutCancels, Typed, Tables
<1>5. CASE Expires
  <2>1. req["expirer"].o \in Orders
    BY <1>1, <1>5, Busy DEF Expires, At
  <2>2. Freed(level, Units[req["expirer"].o]) \in LevelType
    BY <1>2, <2>1, FreedTyped, UnitsAssumption DEF Stocked
  <2>3. Stocked'
    BY <1>2, <1>5, <2>1, <2>2 DEF Expires, Stocked
  <2> QED
    BY <1>2, <1>3, <1>5, <2>3 DEF Expires, Typed, Tables
<1> QED
  BY <1>4, <1>5

LEMMA ProcessTyped ==
  ASSUME Typed, NEW u \in Processes, Works(u) PROVE Typed'
  BY ApplyTyped, ThenReadsTyped, MovingTyped, PayTyped, CommittingTyped, CancellingTyped,
     ReactivatingTyped DEF Works, Step

LEMMA StepTyped == Typed /\ [Next]_vars => Typed'
<1> SUFFICES ASSUME Typed, [Next]_vars PROVE Typed'
  OBVIOUS
<1>1. CASE UNCHANGED vars
  BY <1>1 DEF vars, stock, Typed, Tables, Stocked, Gateway, Requests, Carried
<1>2. Users \subseteq Processes /\ {"hook", "poll", "finisher"} \subseteq Processes
  BY DEF Processes, Jobs
<1>3. CASE \E o \in Orders : PlaceAtPos(o) \/ Checkout(o)
  BY <1>3, PlacementTyped
<1>4. CASE \E u \in Users, o \in Orders : ReactivateRead(u, o) \/ \E op \in Ops : Read(u, op, o)
  BY <1>4, ReadTyped
<1>5. CASE (\E u \in Users : Step(u)) \/ Works("hook") \/ Works("poll") \/ Finish("finisher")
  BY <1>2, <1>5, ProcessTyped DEF Works, Step
<1>6. CASE \E o \in Orders : HookHears(o) \/ PollReads(o) \/ TimeoutReads(o) \/ FinisherReads(o)
             \/ \E r \in Rows : ExpirerReads(o, r)
  BY <1>6, JobReadTyped
<1>7. CASE \E o \in Orders, answer \in {"approved", "declined"} : Decides(o, answer)
  BY <1>7, DecisionTyped
<1>8. CASE TimeoutCancels \/ Expires \/ \E u \in Users \union Jobs : Crash(u)
  BY <1>8, JobWriteTyped, CrashTyped DEF Processes
<1> QED
  BY <1>1, <1>3, <1>4, <1>5, <1>6, <1>7, <1>8 DEF Next

LEMMA StartTyped == Init => Typed
<1> SUFFICES ASSUME Init PROVE Typed
  OBVIOUS
<1>1. level \in LevelType
  BY UnitsAssumption DEF Init, Opening, LevelType
<1>2. Tables
  BY DEF Init, Tables, States, PaymentRows
<1>3. Stocked
  BY <1>1, BoundsAssumption DEF Init, Stocked
<1> QED
  BY <1>2, <1>3 DEF Init, Typed, Gateway, Requests, Processes

\* Orders, payments, quantities, reservation rows and requests are well typed in
\* every environment, for any orders, stock and users: no operation of the flow,
\* its webhook and its jobs writes a state or a payment outside its enumeration,
\* or reserves more rows than it counted.
THEOREM TypeCorrect == Spec => []TypeOK
<1> QED
  BY StartTyped, StepTyped, TypedIsTypeOK, PTL DEF Spec

-----------------------------------------------------------------------------
(* What an order keeps when requests take turns *)

Turns ==
  \A u \in Processes : req[u] # Idle => \A v \in Processes \ {u} : req[v] = Idle

Over == {"finished", "cancelled"}

\* Where a request or a job is about to write the state or the stock of an order
\* that was not over when it was read.
Writing == Ops \union {"claimed", "paid", "confirmed", "timeout", "reserve"}

\* What such a process knows still holds.
Knows(r) ==
  /\ r.pc \in Writing => state[r.o] \notin Over
  /\ r.pc \in Ops => r.pays = pay[r.o]
  /\ r.pc = "timeout" => ~Has(r.o, {"succeeded"})
  /\ r.pc = "reactivate" => state[r.o] = "cancelled"
Known == \A u \in Processes : req[u] # Idle => Knows(req[u])

Settled == Typed /\ Turns /\ Known /\ TakenIsOver /\ CancelledOwesNothing

\* The process that acts is the only one.
LEMMA AloneAtWork ==
  ASSUME Settled, NEW u \in Processes, req[u].pc # "idle"
  PROVE  /\ req[u].o \in Orders /\ Knows(req[u])
         /\ \A v \in Processes \ {u} : req[v] = Idle
  BY Busy DEF Settled, Turns, Known

\* It goes on with r, knowing what r needs.
LEMMA GoesOn ==
  ASSUME Settled, NEW u \in Processes, NEW r, Begin(u, r),
         \A v \in Processes \ {u} : req[v] = Idle, r = Idle \/ Knows(r)'
  PROVE  Turns' /\ Known'
<1>1. \A v \in Processes \ {u} : req'[v] = Idle
  BY DEF Begin, Settled, Typed, Requests
<1>2. req'[u] = r
  BY DEF Begin, Settled, Typed, Requests
<1> QED
  BY <1>1, <1>2 DEF Turns, Known, Knows, Has

Kept == Turns' /\ Known' /\ TakenIsOver' /\ CancelledOwesNothing'

\* The step is about order o alone.
LEMMA OneOrder ==
  ASSUME Settled, NEW o \in Orders,
         \A q \in Orders \ {o} : /\ state'[q] = state[q] /\ taken'[q] = taken[q]
                                 /\ pay'[q] = pay[q] /\ rows'[q] = rows[q],
         taken'[o] => state'[o] = "finished" /\ rows'[o] = {},
         state'[o] = "cancelled" => \A p \in Payments : pay'[o][p] \notin Live
  PROVE  TakenIsOver' /\ CancelledOwesNothing'
  BY DEF Settled, TakenIsOver, CancelledOwesNothing

LEMMA OpenIsNotTaken ==
  ASSUME Settled, NEW o \in Orders, state[o] # "finished" PROVE taken[o] = FALSE
  BY DEF Settled, TakenIsOver, Typed, Tables

\* A step that writes nothing but what its process carries.
LEMMA BeginningIsKept ==
  ASSUME Settled, NEW u \in Processes, NEW r, Begin(u, r),
         \A v \in Processes \ {u} : req[v] = Idle, r = Idle \/ Knows(r),
         UNCHANGED <<state, taken, pay, rows>>
  PROVE  Kept
<1>1. r = Idle \/ Knows(r)'
  BY DEF Knows, Has
<1>2. Turns' /\ Known'
  BY <1>1, GoesOn
<1> QED
  BY <1>2 DEF Kept, Settled, TakenIsOver, CancelledOwesNothing

LEMMA AcceptedKnows ==
  ASSUME NEW op \in Ops, NEW o \in Orders, Accepts(op, o)
  PROVE  Knows(Snapshot(op, o))
<1> DEFINE r == Snapshot(op, o)
<1>1. r.pc = op /\ r.o = o /\ r.pays = pay[o]
  BY DEF Snapshot
<1>2. state[o] \notin Over
  BY DEF Accepts, Over, Ops, Cancelable
<1>3. op # "timeout" /\ op # "reactivate"
  BY DEF Ops
<1> HIDE DEF r
<1>4. Knows(r)
  BY <1>1, <1>2, <1>3 DEF Knows
<1> QED
  BY <1>4 DEF r

LEMMA PlainKnows ==
  ASSUME NEW r, r.pc \notin Writing, r.pc \notin {"reactivate"} PROVE Knows(r)
  BY DEF Knows, Writing

LEMMA UserReadIsKept ==
  ASSUME "overlap" \notin Env, Settled, NEW u \in Users, NEW o \in Orders,
         (\E op \in Ops : Read(u, op, o)) \/ ReactivateRead(u, o)
  PROVE  Kept
<1>1. u \in Processes /\ \A v \in Processes \ {u} : req[v] = Idle
  BY DEF Read, ReactivateRead, Undisturbed, On, Settled, Typed, Requests, Processes
<1>2. ASSUME NEW op \in Ops, Read(u, op, o) PROVE Kept
  <2>1. Knows(Snapshot(op, o)) /\ Begin(u, Snapshot(op, o)) /\ UNCHANGED <<state, taken, pay, rows>>
    BY <1>2, AcceptedKnows DEF Read, stock
  <2> QED
    BY <1>1, <2>1, BeginningIsKept
<1>3. CASE ReactivateRead(u, o)
  <2> DEFINE r == [pc |-> "reactivate", o |-> o, level |-> level,
                   to |-> IF prev[o] = "none" THEN "pending_payment" ELSE prev[o]]
  <2>1. r.pc = "reactivate" /\ r.o = o /\ state[o] = "cancelled"
    BY <1>3 DEF ReactivateRead
  <2>2. Begin(u, r) /\ UNCHANGED <<state, taken, pay, rows>>
    BY <1>3 DEF ReactivateRead, stock
  <2> HIDE DEF r
  <2>3. Knows(r)
    BY <2>1 DEF Knows, Writing, Ops
  <2> QED
    BY <1>1, <2>2, <2>3, BeginningIsKept
<1> QED
  BY <1>2, <1>3

LEMMA JobReadIsKept ==
  ASSUME "overlap" \notin Env, Settled, NEW o \in Orders,
         \/ HookHears(o) \/ PollReads(o) \/ TimeoutReads(o) \/ FinisherReads(o)
         \/ \E r \in Rows : ExpirerReads(o, r)
  PROVE  Kept
<1>1. \A v \in Processes : req[v] = Idle
  BY DEF HookHears, PollReads, TimeoutReads, FinisherReads, ExpirerReads, Undisturbed, On,
         Settled, Typed, Requests
<1>2. Jobs \subseteq Processes /\ {"hook", "poll", "timeout", "finisher", "expirer"} \subseteq Processes
  BY DEF Processes, Jobs
<1>3. UNCHANGED <<state, taken, pay, rows>>
  BY DEF HookHears, PollReads, TimeoutReads, FinisherReads, ExpirerReads, stock
<1>4. CASE HookHears(o) \/ PollReads(o)
  <2>1. Knows([pc |-> "apply", o |-> o])
    BY PlainKnows DEF Writing, Ops
  <2> QED
    BY <1>1, <1>2, <1>3, <1>4, <2>1, BeginningIsKept DEF HookHears, PollReads
<1>5. CASE TimeoutReads(o)
  <2>1. Knows([pc |-> "timeout", o |-> o])
    BY <1>5 DEF TimeoutReads, Knows, Over, Ops
  <2> QED
    BY <1>1, <1>2, <1>3, <1>5, <2>1, BeginningIsKept DEF TimeoutReads
<1>6. CASE FinisherReads(o)
  <2>1. "finish" \in Ops /\ Accepts("finish", o)
    BY <1>6 DEF FinisherReads, Accepts, Ops
  <2>2. Knows(Snapshot("finish", o))
    BY <2>1, AcceptedKnows
  <2> QED
    BY <1>1, <1>2, <1>3, <1>6, <2>2, BeginningIsKept DEF FinisherReads
<1>7. ASSUME NEW r \in Rows, ExpirerReads(o, r) PROVE Kept
  <2>1. Knows([pc |-> "expire", o |-> o, row |-> r])
    BY PlainKnows DEF Writing, Ops
  <2> QED
    BY <1>1, <1>2, <1>3, <1>7, <2>1, BeginningIsKept DEF ExpirerReads
<1> QED
  BY <1>4, <1>5, <1>6, <1>7

\* A step of the process that works on order o, then goes on with r.
LEMMA WorkIsKept ==
  ASSUME Settled, NEW u \in Processes, NEW r, Begin(u, r), NEW o \in Orders,
         \A v \in Processes \ {u} : req[v] = Idle, r = Idle \/ Knows(r)',
         \A q \in Orders \ {o} : /\ state'[q] = state[q] /\ taken'[q] = taken[q]
                                 /\ pay'[q] = pay[q] /\ rows'[q] = rows[q],
         taken'[o] => state'[o] = "finished" /\ rows'[o] = {},
         state'[o] = "cancelled" => \A p \in Payments : pay'[o][p] \notin Live
  PROVE  Kept
  BY GoesOn, OneOrder DEF Kept

\* What the process at work on an order that was open knows of it.
LEMMA OpenAtWork ==
  ASSUME Settled, NEW u \in Processes, req[u].pc \in Writing
  PROVE  /\ req[u].o \in Orders /\ state[req[u].o] \notin Over /\ taken[req[u].o] = FALSE
         /\ \A v \in Processes \ {u} : req[v] = Idle
<1>1. req[u].pc # "idle"
  BY DEF Writing, Ops
<1>2. req[u].o \in Orders /\ Knows(req[u]) /\ \A v \in Processes \ {u} : req[v] = Idle
  BY <1>1, AloneAtWork
<1>3. state[req[u].o] \notin Over
  BY <1>2 DEF Knows
<1> QED
  BY <1>2, <1>3, OpenIsNotTaken DEF Over

LEMMA TableShapes ==
  ASSUME Settled
  PROVE  /\ state \in [Orders -> States] /\ taken \in [Orders -> BOOLEAN]
         /\ pay \in [Orders -> PaymentRows] /\ rows \in [Orders -> SUBSET Rows]
  BY DEF Settled, Typed, Tables, Stocked

LEMMA PayIsKept ==
  ASSUME Settled, NEW u \in Processes,
         PayClaim(u) \/ PayRefused(u) \/ PayOnline(u) \/ PayDirect(u)
  PROVE  Kept
<1>1. PICK o \in Orders :
        /\ req[u].o = o /\ state[o] \notin Over /\ taken[o] = FALSE
        /\ \A v \in Processes \ {u} : req[v] = Idle
  BY OpenAtWork DEF PayClaim, PayRefused, PayOnline, PayDirect, At, Writing, Ops
<1>2. taken' = taken /\ rows' = rows
  BY DEF PayClaim, PayRefused, PayOnline, PayDirect, stock
<1>3. CASE PayClaim(u)
  <2>1. \/ MovesTo(o, "processing") /\ Begin(u, [pc |-> "claimed", o |-> o])
        \/ UNCHANGED state /\ Begin(u, Idle)
    BY <1>1, <1>3 DEF PayClaim, Done
  <2>2. pay' = pay
    BY <1>3 DEF PayClaim
  <2>3. CASE UNCHANGED state /\ Begin(u, Idle)
    BY <1>1, <1>2, <2>2, <2>3, BeginningIsKept
  <2>4. CASE MovesTo(o, "processing") /\ Begin(u, [pc |-> "claimed", o |-> o])
    <3>1. state'[o] = "processing" /\ \A q \in Orders \ {o} : state'[q] = state[q]
      BY <1>1, <2>4, TableShapes DEF MovesTo
    <3>2. Knows([pc |-> "claimed", o |-> o])'
      BY <3>1 DEF Knows, Over, Ops
    <3> QED
      BY <1>1, <1>2, <2>2, <2>4, <3>1, <3>2, WorkIsKept
  <2> QED
    BY <2>1, <2>3, <2>4
<1>4. CASE PayRefused(u)
  BY <1>1, <1>2, <1>4, BeginningIsKept DEF PayRefused, Done
<1>5. CASE PayOnline(u) \/ PayDirect(u)
  <2>1. PICK r : Begin(u, r) /\ (r = Idle \/ (r.pc = "paid" /\ r.o = o))
    BY <1>1, <1>5 DEF PayOnline, PayDirect, Done
  <2>2. \E p, s : Writes(o, p, s) /\ state' = state
    BY <1>1, <1>5 DEF PayOnline, PayDirect
  <2>3. state'[o] = state[o] /\ \A q \in Orders \ {o} : pay'[q] = pay[q] /\ state'[q] = state[q]
    BY <1>1, <2>2, TableShapes DEF Writes
  <2>4. r = Idle \/ Knows(r)'
    BY <1>1, <2>1, <2>3 DEF Knows, Ops
  <2> QED
    BY <1>1, <1>2, <2>1, <2>3, <2>4, WorkIsKept DEF Over
<1> QED
  BY <1>3, <1>4, <1>5

LEMMA CommittingIsKept ==
  ASSUME Settled, NEW u \in Processes, PayEnds(u) \/ Finish(u) PROVE Kept
<1>1. PICK o \in Orders :
        /\ req[u].o = o /\ state[o] \notin Over /\ taken[o] = FALSE
        /\ \A v \in Processes \ {u} : req[v] = Idle
  BY OpenAtWork DEF PayEnds, Finish, At, Writing, Ops
<1>2. Begin(u, Idle)
  BY DEF PayEnds, Finish, Done
<1>3. CASE Commit(o) /\ MovesTo(o, "finished") /\ UNCHANGED pay
  <2>1. /\ state'[o] = "finished" /\ rows'[o] = {}
        /\ \A q \in Orders \ {o} : state'[q] = state[q] /\ taken'[q] = taken[q] /\ rows'[q] = rows[q]
    BY <1>3, TableShapes DEF Commit, NoRows, MovesTo
  <2> QED
    BY <1>1, <1>2, <1>3, <2>1, WorkIsKept
<1>4. CASE MovesTo(o, "processing") /\ UNCHANGED <<taken, pay, stock>>
  <2>1. state'[o] = "processing" /\ \A q \in Orders \ {o} : state'[q] = state[q]
    BY <1>4, TableShapes DEF MovesTo
  <2> QED
    BY <1>1, <1>2, <1>4, <2>1, WorkIsKept DEF stock
<1>5. CASE Writes(o, req[u].p, "cancelled") /\ UNCHANGED <<state, taken, stock>>
  <2>1. \A q \in Orders \ {o} : pay'[q] = pay[q]
    BY <1>5, TableShapes DEF Writes
  <2> QED
    BY <1>1, <1>2, <1>5, <2>1, WorkIsKept DEF stock, Over
<1>6. CASE UNCHANGED <<state, taken, pay, stock>>
  BY <1>1, <1>2, <1>6, BeginningIsKept DEF stock
<1> QED
  BY <1>1, <1>3, <1>4, <1>5, <1>6 DEF PayEnds, Finish

LEMMA MovingIsKept ==
  ASSUME Settled, NEW u \in Processes, Move(u) \/ ConfirmState(u) \/ ConfirmPayment(u) \/ CancelPayment(u)
  PROVE  Kept
<1>1. PICK o \in Orders :
        /\ req[u].o = o /\ state[o] \notin Over /\ taken[o] = FALSE
        /\ \A v \in Processes \ {u} : req[v] = Idle
  BY OpenAtWork DEF Move, ConfirmState, ConfirmPayment, CancelPayment, At, Writing, Ops
<1>2. taken' = taken /\ rows' = rows
  BY DEF Move, ConfirmState, ConfirmPayment, CancelPayment, stock
<1>3. CASE Move(u) \/ ConfirmState(u)
  <2>1. PICK s \in {"shipped", "delivered", "processing"} : MovesTo(o, s)
    BY <1>1, <1>3 DEF Move, ConfirmState, Lands
  <2>2. state'[o] = s /\ \A q \in Orders \ {o} : state'[q] = state[q]
    BY <1>1, <2>1, TableShapes DEF MovesTo
  <2>3. Begin(u, Idle) /\ pay' = pay
    BY <1>3 DEF Move, ConfirmState, Done
  <2> QED
    BY <1>1, <1>2, <2>2, <2>3, WorkIsKept
<1>4. CASE ConfirmPayment(u)
  <2>1. PICK r : Begin(u, r) /\ (r = Idle \/ (r.pc = "confirmed" /\ r.o = o))
    BY <1>1, <1>4 DEF ConfirmPayment, Done
  <2>2. state' = state /\ \A q \in Orders \ {o} : pay'[q] = pay[q]
    BY <1>1, <1>4, TableShapes DEF ConfirmPayment, Writes
  <2>3. r = Idle \/ Knows(r)'
    BY <1>1, <2>1, <2>2 DEF Knows, Ops
  <2> QED
    BY <1>1, <1>2, <2>1, <2>2, <2>3, WorkIsKept DEF Over
<1>5. CASE CancelPayment(u)
  <2>1. state'[o] = "created" /\ \A q \in Orders \ {o} : state'[q] = state[q] /\ pay'[q] = pay[q]
    BY <1>1, <1>5, TableShapes DEF CancelPayment, Writes, MovesTo
  <2>2. Begin(u, Idle)
    BY <1>5 DEF CancelPayment, Done
  <2> QED
    BY <1>1, <1>2, <2>1, <2>2, WorkIsKept
<1> QED
  BY <1>3, <1>4, <1>5

LEMMA CancellingIsKept ==
  ASSUME Settled, NEW u \in Processes, CancelClaim(u) PROVE Kept
<1>1. PICK o \in Orders :
        /\ req[u].o = o /\ state[o] \notin Over /\ taken[o] = FALSE
        /\ \A v \in Processes \ {u} : req[v] = Idle
  BY OpenAtWork DEF CancelClaim, At, Writing, Ops
<1>2. req[u].pays = pay[o]
  <2>1. req[u].pc = "cancel" /\ req[u].pc # "idle" /\ "cancel" \in Ops
    BY DEF CancelClaim, At, Ops
  <2> QED
    BY <1>1, <2>1, AloneAtWork DEF Knows
<1>3. taken' = taken /\ rows' = rows
  BY DEF CancelClaim, stock
<1>4. CASE state[o] \in Cancelable
  <2>1. /\ MovesTo(o, "cancelled") /\ Begin(u, [pc |-> "release", o |-> o])
        /\ pay' = [pay EXCEPT ![o] = [p \in Payments |->
                     IF p \in Withdraws(pay[o]) THEN "cancelled" ELSE @[p]]]
    BY <1>1, <1>2, <1>4 DEF CancelClaim
  <2>2. state'[o] = "cancelled" /\ \A q \in Orders \ {o} : state'[q] = state[q] /\ pay'[q] = pay[q]
    BY <2>1, TableShapes DEF MovesTo
  <2>3. ASSUME NEW p \in Payments PROVE pay'[o][p] \notin Live
    BY <2>1, TableShapes DEF Withdraws, Live
  <2>4. Knows([pc |-> "release", o |-> o])'
    BY DEF Knows, Writing, Ops
  <2> QED
    BY <1>1, <1>3, <2>1, <2>2, <2>3, <2>4, WorkIsKept
<1>5. CASE state[o] \notin Cancelable
  BY <1>1, <1>3, <1>5, BeginningIsKept DEF CancelClaim, Done
<1> QED
  BY <1>4, <1>5

\* The release of a cancelled order and the expiry of a reservation.
LEMMA ReleasingIsKept ==
  ASSUME Settled, NEW u \in Processes,
         CancelRelease(u) \/ (u = "expirer" /\ Expires)
  PROVE  Kept
<1>1. PICK o \in Orders : req[u].o = o /\ \A v \in Processes \ {u} : req[v] = Idle
  BY AloneAtWork DEF CancelRelease, Expires, At
<1>2. /\ UNCHANGED <<state, taken, pay>> /\ Begin(u, Idle)
      /\ rows'[o] \subseteq rows[o] /\ \A q \in Orders \ {o} : rows'[q] = rows[q]
  BY <1>1, TableShapes DEF CancelRelease, Expires, ReleaseAll, NoRows, Done
<1>3. taken'[o] => state'[o] = "finished" /\ rows'[o] = {}
  BY <1>2 DEF Settled, TakenIsOver
<1>4. state'[o] = "cancelled" => \A p \in Payments : pay'[o][p] \notin Live
  BY <1>2 DEF Settled, CancelledOwesNothing
<1> QED
  BY <1>1, <1>2, <1>3, <1>4, WorkIsKept

LEMMA ReactivatingIsKept ==
  ASSUME Settled, NEW u \in Processes, ReactivateState(u) \/ ReactivateStock(u) PROVE Kept
<1>1. CASE ReactivateState(u)
  <2>1. PICK o \in Orders :
          /\ req[u].o = o /\ state[o] = "cancelled" /\ req[u].to \in Cancelable
          /\ \A v \in Processes \ {u} : req[v] = Idle
    BY <1>1, AloneAtWork, Busy DEF ReactivateState, At, Knows, Carried, Settled
  <2>2. PICK r : Begin(u, r) /\ r.pc = "reserve" /\ r.o = o
    BY <1>1, <2>1 DEF ReactivateState
  <2>3. state'[o] \in Cancelable /\ \A q \in Orders \ {o} : state'[q] = state[q]
    BY <1>1, <2>1, TableShapes DEF ReactivateState, MovesTo
  <2>4. Knows(r)'
    BY <2>2, <2>3 DEF Knows, Over, Cancelable, Ops
  <2>5. taken[o] = FALSE /\ "cancelled" \notin Cancelable
    BY <2>1, OpenIsNotTaken DEF Cancelable
  <2>6. UNCHANGED <<taken, pay, rows>>
    BY <1>1 DEF ReactivateState, stock
  <2> QED
    BY <2>1, <2>2, <2>3, <2>4, <2>5, <2>6, WorkIsKept
<1>2. CASE ReactivateStock(u)
  <2>1. PICK o \in Orders :
          /\ req[u].o = o /\ state[o] \notin Over /\ taken[o] = FALSE
          /\ \A v \in Processes \ {u} : req[v] = Idle
    BY <1>2, OpenAtWork DEF ReactivateStock, At, Writing
  <2>2. UNCHANGED <<state, taken, pay>> /\ Begin(u, Idle) /\ \A q \in Orders \ {o} : rows'[q] = rows[q]
    BY <1>2, <2>1, TableShapes DEF ReactivateStock, Reserve, Done
  <2> QED
    BY <2>1, <2>2, WorkIsKept DEF Over
<1> QED
  BY <1>1, <1>2

LEMMA GatewayWorkIsKept ==
  ASSUME Settled, NEW w \in Processes, Apply(w) \/ ThenReads(w) PROVE Kept
<1>1. PICK o \in Orders : req[w].o = o /\ \A v \in Processes \ {w} : req[v] = Idle
  BY AloneAtWork DEF Apply, ThenReads, At
<1>2. UNCHANGED <<state, taken, rows>>
  BY DEF Apply, ThenReads, stock
<1>3. CASE Apply(w)
  <2>1. PICK r : Begin(w, r) /\ (r = Idle \/ r.pc \in {"then_cancel", "then_confirm"})
    BY <1>3 DEF Apply
  <2>2. r = Idle \/ Knows(r)'
    BY <2>1 DEF Knows, Writing, Ops
  <2>3. \A q \in Orders \ {o} : pay'[q] = pay[q]
    BY <1>1, <1>3, TableShapes DEF Apply, Writes
  <2>4. taken'[o] => state'[o] = "finished" /\ rows'[o] = {}
    BY <1>2 DEF Settled, TakenIsOver
  <2>5. state'[o] = "cancelled" => \A p \in Payments : pay'[o][p] \notin Live
    <3>1. CASE pay[o][1] = "pending"
      <4>1. 1 \in Payments
        BY BoundsAssumption DEF Payments
      <4> QED
        BY <1>2, <3>1, <4>1 DEF Settled, CancelledOwesNothing, Live
    <3>2. CASE pay[o][1] # "pending"
      BY <1>1, <1>2, <1>3, <3>2 DEF Apply, Settled, CancelledOwesNothing
    <3> QED
      BY <3>1, <3>2
  <2> QED
    BY <1>1, <1>2, <2>1, <2>2, <2>3, <2>4, <2>5, WorkIsKept
<1>4. CASE ThenReads(w)
  <2>1. /\ Accepts("cancel", o) <=> state[o] \in Cancelable
        /\ state[o] = "pending_payment" => Accepts("confirm", o)
        /\ "cancel" \in Ops /\ "confirm" \in Ops
    BY DEF Accepts, Ops
  <2>2. \/ Begin(w, Idle)
        \/ Accepts("confirm", o) /\ Begin(w, Snapshot("confirm", o))
        \/ Accepts("cancel", o) /\ Begin(w, Snapshot("cancel", o))
    BY <1>1, <1>4, <2>1 DEF ThenReads
  <2>3. UNCHANGED pay
    BY <1>4 DEF ThenReads
  <2> QED
    BY <1>1, <1>2, <2>1, <2>2, <2>3, AcceptedKnows, BeginningIsKept
<1> QED
  BY <1>3, <1>4

LEMMA TimeoutIsKept ==
  ASSUME Settled, TimeoutCancels PROVE Kept
<1>1. "timeout" \in Processes
  BY DEF Processes, Jobs
<1>2. PICK o \in Orders :
        /\ req["timeout"].o = o /\ state[o] \notin Over /\ taken[o] = FALSE
        /\ \A v \in Processes \ {"timeout"} : req[v] = Idle
  BY <1>1, OpenAtWork DEF TimeoutCancels, At, Writing
<1>3. ~Has(o, {"succeeded"})
  BY <1>1, <1>2, AloneAtWork DEF TimeoutCancels, At, Knows
<1>4. /\ Begin("timeout", Idle) /\ taken' = taken
      /\ MovesTo(o, "cancelled") /\ rows' = [rows EXCEPT ![o] = {}]
      /\ pay' = [pay EXCEPT ![o] = [p \in Payments |-> IF @[p] = "pending" THEN "cancelled" ELSE @[p]]]
  BY <1>2 DEF TimeoutCancels, ReleaseAll, NoRows, Done
<1>5. \A q \in Orders \ {o} : state'[q] = state[q] /\ pay'[q] = pay[q] /\ rows'[q] = rows[q]
  BY <1>4, TableShapes DEF MovesTo
<1>6. ASSUME NEW p \in Payments PROVE pay'[o][p] \notin Live
  <2>1. pay[o][p] # "succeeded"
    BY <1>3 DEF Has
  <2>2. pay'[o][p] = IF pay[o][p] = "pending" THEN "cancelled" ELSE pay[o][p]
    BY <1>4, TableShapes
  <2> QED
    BY <2>1, <2>2 DEF Live
<1> QED
  BY <1>1, <1>2, <1>4, <1>5, <1>6, WorkIsKept

LEMMA PlacementIsKept ==
  ASSUME "overlap" \notin Env, Settled, NEW o \in Orders, PlaceAtPos(o) \/ Checkout(o)
  PROVE  Kept
<1>1. \A v \in Processes : req'[v] = Idle
  BY DEF PlaceAtPos, Checkout, Undisturbed, On, Settled, Typed, Requests
<1>2. taken[o] = FALSE
  BY OpenIsNotTaken DEF PlaceAtPos, Checkout
<1>3. taken' = taken /\ state'[o] # "cancelled"
  BY TableShapes DEF PlaceAtPos, Checkout
<1>4. \A q \in Orders \ {o} : /\ state'[q] = state[q] /\ taken'[q] = taken[q]
                              /\ pay'[q] = pay[q] /\ rows'[q] = rows[q]
  BY TableShapes DEF PlaceAtPos, Checkout, Reserve, stock
<1> QED
  BY <1>1, <1>2, <1>3, <1>4, OneOrder DEF Kept, Turns, Known

LEMMA NothingDoneIsKept ==
  ASSUME Settled, UNCHANGED <<state, taken, pay, rows, req>> PROVE Kept
  BY DEF Kept, Settled, Turns, Known, Knows, Has, TakenIsOver, CancelledOwesNothing

LEMMA CrashIsKept ==
  ASSUME Settled, NEW u \in Processes, Crash(u) PROVE Kept
<1>1. req[u] # Idle /\ Begin(u, Idle) /\ UNCHANGED <<state, taken, pay, rows>>
  BY DEF Crash, Done, stock
<1>2. \A v \in Processes \ {u} : req[v] = Idle
  BY <1>1 DEF Settled, Turns
<1> QED
  BY <1>1, <1>2, BeginningIsKept

LEMMA ProcessIsKept ==
  ASSUME Settled, NEW u \in Processes, Works(u) PROVE Kept
  BY GatewayWorkIsKept, MovingIsKept, PayIsKept, CommittingIsKept, CancellingIsKept,
     ReleasingIsKept, ReactivatingIsKept DEF Works, Step

LEMMA StepIsKept ==
  ASSUME "overlap" \notin Env PROVE Settled /\ [Next]_vars => Settled'
<1> SUFFICES ASSUME Settled, [Next]_vars PROVE Kept
  BY StepTyped DEF Settled, Kept
<1>1. CASE UNCHANGED vars
  BY <1>1, NothingDoneIsKept DEF vars, stock
<1>2. Users \subseteq Processes /\ {"hook", "poll", "finisher", "expirer"} \subseteq Processes
  BY DEF Processes, Jobs
<1>3. CASE \E o \in Orders : PlaceAtPos(o) \/ Checkout(o)
  BY <1>3, PlacementIsKept
<1>4. CASE \E u \in Users, o \in Orders : ReactivateRead(u, o) \/ \E op \in Ops : Read(u, op, o)
  BY <1>4, UserReadIsKept
<1>5. CASE (\E u \in Users : Step(u)) \/ Works("hook") \/ Works("poll") \/ Finish("finisher")
  BY <1>2, <1>5, ProcessIsKept DEF Works, Step
<1>6. CASE \E o \in Orders : HookHears(o) \/ PollReads(o) \/ TimeoutReads(o) \/ FinisherReads(o)
             \/ \E r \in Rows : ExpirerReads(o, r)
  BY <1>6, JobReadIsKept
<1>7. CASE \E o \in Orders, answer \in {"approved", "declined"} : Decides(o, answer)
  BY <1>7, NothingDoneIsKept DEF Decides, stock
<1>8. CASE TimeoutCancels \/ Expires
  BY <1>2, <1>8, TimeoutIsKept, ReleasingIsKept
<1>9. CASE \E u \in Users \union Jobs : Crash(u)
  BY <1>9, CrashIsKept DEF Processes
<1> QED
  BY <1>1, <1>3, <1>4, <1>5, <1>6, <1>7, <1>8, <1>9 DEF Next

LEMMA StartIsSettled == Init => Settled
<1> SUFFICES ASSUME Init PROVE Settled
  OBVIOUS
<1>1. Typed
  BY StartTyped
<1>2. Turns /\ Known
  BY DEF Init, Turns, Known, Processes
<1>3. TakenIsOver /\ CancelledOwesNothing
  BY DEF Init, TakenIsOver, CancelledOwesNothing
<1> QED
  BY <1>1, <1>2, <1>3 DEF Settled

\* When requests and jobs take turns, an order that took its stock is finished
\* and holds no reservation, for any orders, stock, users and bounds: no
\* cancellation, reactivation, kitchen reversal, expiry or crash reopens it.
THEOREM TakenIsOverHolds == ASSUME "overlap" \notin Env PROVE Spec => []TakenIsOver
<1>1. Settled => TakenIsOver
  BY DEF Settled
<1> QED
  BY <1>1, StartIsSettled, StepIsKept, PTL DEF Spec

\* When requests and jobs take turns, a cancelled order has no payment pending
\* or collected, whoever cancelled it: the till, the gateway's decline or the
\* cleanup job, and whichever steps a crash cut off.
THEOREM CancelledOwesNothingHolds ==
  ASSUME "overlap" \notin Env PROVE Spec => []CancelledOwesNothing
<1>1. Settled => CancelledOwesNothing
  BY DEF Settled
<1> QED
  BY <1>1, StartIsSettled, StepIsKept, PTL DEF Spec
=============================================================================
