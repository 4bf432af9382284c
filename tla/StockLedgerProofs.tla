--------------------------- MODULE StockLedgerProofs ---------------------------
(***************************************************************************)
(* Proofs about the totals of StockTransfers: the reserved counter against *)
(* the reservations it counts, and the goods on the shelves and the road.  *)
(***************************************************************************)
EXTENDS StockTransfersProofs, Sums

HeldType == [Owners -> [Products -> [Locations -> Nat]]]

LEMMA OwnersAreFinite == IsFiniteSet(Owners)
  BY FinitenessAssumption, FS_Union DEF Owners

\* The units that owners hold of one product in one location.
Ledger(h, p, l) == [o \in Owners |-> h[o][p][l]]
Active(h, p, l) == SumFunctionOnSet(Ledger(h, p, l), Owners)

Counted == \A p \in Products, l \in Locations : level[p][l].reserved = Active(held, p, l)

LEMMA CountedIsActive == Counted => ReservedIsActive
<1>1. \A h, p, l : MapThenSumSet(LAMBDA o : h[o][p][l], Owners) = SumsOf(Ledger(h, p, l), Owners)[Owners]
  BY DEF MapThenSumSet, MapThenFoldSet, SumsOf, StepOf, FirstOf, RestOf, Ledger
<1>2. \A p, l : MapThenSumSet(LAMBDA o : held[o][p][l], Owners) = Active(held, p, l)
  BY <1>1, SumIsSums DEF Active
<1> QED
  BY <1>2 DEF ReservedIsActive, Counted

\* Nobody holds more than is reserved, so no release is clipped at zero.
LEMMA HeldIsReserved ==
  ASSUME Sound, Counted, NEW o \in Owners, NEW p \in Products, NEW l \in Locations
  PROVE  held[o][p][l] \in Nat /\ held[o][p][l] <= level[p][l].reserved
<1>1. \A w \in Owners : Ledger(held, p, l)[w] = held[w][p][l] /\ held[w][p][l] \in Nat
  BY DEF Sound, Ledger
<1>2. /\ SumFunctionOnSet(Ledger(held, p, l), {o}) <= Active(held, p, l)
      /\ SumFunctionOnSet(Ledger(held, p, l), {o}) = held[o][p][l]
  <2>1. SumFunctionOnSet(Ledger(held, p, l), {o}) <= Active(held, p, l)
    BY <1>1, OwnersAreFinite, SumOfPart DEF Active
  <2>2. SumFunctionOnSet(Ledger(held, p, l), {o}) = held[o][p][l]
    <3>1. Ledger(held, p, l)[o] \in Int
      BY <1>1
    <3> QED
      BY <1>1, <3>1, SumOfOne
  <2> QED
    BY <2>1, <2>2
<1> QED
  BY <1>1, <1>2 DEF Counted

\* One owner's units and the counters change together.
LEMMA BalanceIsKept ==
  ASSUME Sound, Counted, Sound', NEW o \in Owners,
         \A w \in Owners \ {o} : held'[w] = held[w],
         \A p \in Products, l \in Locations :
           level'[p][l].reserved - level[p][l].reserved = held'[o][p][l] - held[o][p][l]
  PROVE  Counted'
<1> SUFFICES ASSUME NEW p \in Products, NEW l \in Locations
             PROVE  level'[p][l].reserved = Active(held', p, l)
  BY DEF Counted
<1>1. \A w \in Owners : /\ Ledger(held, p, l)[w] = held[w][p][l] /\ held[w][p][l] \in Int
                        /\ Ledger(held', p, l)[w] = held'[w][p][l] /\ held'[w][p][l] \in Int
  BY DEF Sound, Ledger
<1>2. Active(held', p, l) = Active(held, p, l) + held'[o][p][l] - held[o][p][l]
  <2> DEFINE f == Ledger(held, p, l)  g == Ledger(held', p, l)
  <2>1. \A w \in Owners : f[w] \in Int /\ g[w] \in Int
    BY <1>1
  <2>2. \A w \in Owners \ {o} : g[w] = f[w]
    BY <1>1
  <2>3. f[o] = held[o][p][l] /\ g[o] = held'[o][p][l]
    BY <1>1
  <2>4. Active(held, p, l) = SumFunctionOnSet(f, Owners) /\ Active(held', p, l) = SumFunctionOnSet(g, Owners)
    BY DEF Active
  <2> HIDE DEF f, g
  <2>5. SumFunctionOnSet(g, Owners) = SumFunctionOnSet(f, Owners) + g[o] - f[o]
    <3>1. \A F, G : /\ \A y \in Owners : F[y] \in Int /\ G[y] \in Int
                    /\ \A y \in Owners \ {o} : G[y] = F[y]
                    => SumFunctionOnSet(G, Owners) = SumFunctionOnSet(F, Owners) + G[o] - F[o]
      BY OwnersAreFinite, SumOfChanged
    <3> QED
      BY <2>1, <2>2, <3>1
  <2> QED
    BY <2>3, <2>4, <2>5
<1>3. level[p][l].reserved \in Nat /\ level'[p][l].reserved \in Nat
  BY Fields DEF Sound, Levels
<1> QED
  BY <1>1, <1>2, <1>3 DEF Counted

-----------------------------------------------------------------------------
(* What the operations do to the counters *)

LEMMA CounterStays ==
  ASSUME NEW lv \in SoundLevel, NEW n
  PROVE  Moved(lv, n).reserved = lv.reserved /\ Sold(lv, n).reserved = lv.reserved
         /\ Out(lv, n).reserved = lv.reserved
<1>1. lv = [on_hand |-> lv.on_hand, reserved |-> lv.reserved, available |-> lv.available]
  BY Fields DEF LevelType
<1> QED
  BY <1>1, Zenon DEF Moved, Sold, Out

LEMMA CounterGrows ==
  ASSUME NEW lv \in SoundLevel, NEW n \in Nat PROVE Reserved(lv, n).reserved = lv.reserved + n
  BY Fields DEF Reserved, LevelType

LEMMA CounterShrinks ==
  ASSUME NEW lv \in SoundLevel, NEW n \in Nat, n <= lv.reserved
  PROVE  Freed(lv, n).reserved = lv.reserved - n /\ Consumed(lv, n).reserved = lv.reserved - n
<1> DEFINE r == NotNegative(lv.reserved - n)  a == NotNegative(lv.on_hand - r)  b == lv.available + n
<1>1. r = lv.reserved - n
  BY Fields DEF NotNegative
<1>2. Freed(lv, n) = [lv EXCEPT !.reserved = r, !.available = b] BY Zenon DEF Freed
<1>3. Consumed(lv, n) = [lv EXCEPT !.reserved = r, !.available = a] BY Zenon DEF Consumed
<1> HIDE DEF r, a, b
<1> QED
  BY <1>1, <1>2, <1>3, Fields DEF LevelType

Steady(lv) == \A p \in Products, l \in Locations : lv[p][l].reserved = level[p][l].reserved

LEMMA ShiftIsSteady ==
  ASSUME level \in Levels, NEW units \in Units, NEW from \in Locations, NEW to \in Locations
  PROVE  Steady(Shift(units, from, to))
<1> SUFFICES ASSUME NEW p \in Products, NEW l \in Locations
             PROVE  Shift(units, from, to)[p][l].reserved = level[p][l].reserved
  BY DEF Steady
<1> DEFINE n == units[p]  mid == [level[p] EXCEPT ![from] = Moved(@, -n)]
           end == [mid EXCEPT ![to] = Moved(@, n)]
<1>1. level[p] \in [Locations -> SoundLevel] /\ n \in Int
  BY DEF Levels, Units
<1>2. mid \in [Locations -> SoundLevel] /\ mid[l].reserved = level[p][l].reserved
  BY <1>1, MovedSound, CounterStays
<1>3. Shift(units, from, to)[p] \in {level[p], end}
  BY DEF Shift
<1> HIDE DEF mid, n
<1>4. end[l].reserved = mid[l].reserved
  BY <1>2, CounterStays
<1> QED
  BY <1>2, <1>3, <1>4

LEMMA MovesAreSteady ==
  ASSUME level \in Levels, NEW units, NEW l \in Locations
  PROVE  Steady(AtLocation(Moved, units, l)) /\ Steady(AtLocation(Out, units, l))
<1>1. \A p \in Products : level[p] \in [Locations -> SoundLevel]
  BY DEF Levels
<1>2. Steady(AtLocation(Moved, units, l))
  BY <1>1, CounterStays DEF Steady, AtLocation
<1>3. Steady(AtLocation(Out, units, l))
  BY <1>1, CounterStays DEF Steady, AtLocation
<1> QED
  BY <1>2, <1>3

LEMMA ReservationIsCounted ==
  ASSUME level \in Levels, NEW units \in Units, NEW from \in Locations,
         NEW p \in Products, NEW l \in Locations
  PROVE  AtLocation(Reserved, units, from)[p][l].reserved
           = level[p][l].reserved + IF l = from THEN units[p] ELSE 0
<1>1. level[p] \in [Locations -> SoundLevel] /\ units[p] \in Nat
  BY DEF Levels, Units
<1>2. level[p][l].reserved \in Int
  BY <1>1, Fields
<1> QED
  BY <1>1, <1>2, CounterGrows DEF AtLocation

LEMMA ReleaseIsCounted ==
  ASSUME NEW lv \in Levels, Steady(lv), Sound, Counted, NEW o \in Owners,
         NEW p \in Products, NEW l \in Locations
  PROVE  /\ Release(lv, o, Freed)[p][l].reserved = level[p][l].reserved - held[o][p][l]
         /\ Release(lv, o, Consumed)[p][l].reserved = level[p][l].reserved - held[o][p][l]
<1>1. lv[p][l] \in SoundLevel /\ lv[p][l].reserved = level[p][l].reserved
  BY DEF Levels, Steady
<1>2. held[o][p][l] \in Nat /\ held[o][p][l] <= lv[p][l].reserved /\ lv[p][l].reserved \in Int
  BY <1>1, HeldIsReserved, Fields
<1>3. /\ Freed(lv[p][l], held[o][p][l]).reserved = level[p][l].reserved - held[o][p][l]
      /\ Consumed(lv[p][l], held[o][p][l]).reserved = level[p][l].reserved - held[o][p][l]
  BY <1>1, <1>2, CounterShrinks
<1> QED
  BY <1>1, <1>2, <1>3 DEF Release

-----------------------------------------------------------------------------
(* The reserved counter.  The expiry job writes what it read, so what it    *)
(* read must still be there: that is why it may not overlap with requests.  *)

JobTrue ==
  job # Idle => /\ "overlap" \notin Env /\ \A u \in Users : req[u] = Idle
                /\ held[job.o][job.p][job.l] = job.q

Booked == Sound /\ Counted /\ JobTrue

LEMMA SteadyIsKept ==
  ASSUME Counted, held' = held, Steady(level') PROVE Counted'
  BY DEF Counted, Steady

LEMMA OnlyTheJob ==
  ASSUME JobTrue, Next, job # Idle PROVE ExpireWrite
<1>1. ~Undisturbed
  BY DEF JobTrue, Undisturbed, On
<1>2. ~(\E t \in Transfers, from, to \in Locations, units \in Quantities :
          Create(t, from, to, units) \/ CreateAndComplete(t, from, to, units))
  BY <1>1 DEF Create, CreateAndComplete
<1>3. ~(\E u \in Users : Request(u))
  <2> SUFFICES ASSUME NEW u \in Users, Request(u) PROVE FALSE
    OBVIOUS
  <2>1. ~(\E op \in Ops, t \in Transfers : Read(u, op, t))
    BY <1>1 DEF Read
  <2> QED
    BY <2>1, WritesAnswer DEF JobTrue
<1>4. ~(\E p \in Products, l \in Locations : Shop(p, l))
  <2> SUFFICES ASSUME NEW p \in Products, NEW l \in Locations, Shop(p, l) PROVE FALSE
    OBVIOUS
  <2>1. \A lv : ~World(p, l, lv)
    BY <1>1 DEF World
  <2>2. \A q, o, found : ~Buy(p, l, q) /\ ~Sell(p, l, q) /\ ~Count(p, l, found)
                        /\ ~Hold(o, p, l, q) /\ ~Drop(o, p, l)
    BY <2>1 DEF Buy, Sell, Count, Hold, Drop
  <2>3. \A o : ~ExpireRead(o, p, l)
    BY DEF ExpireRead
  <2> QED
    BY <2>2, <2>3, Zenon DEF Shop
<1> QED
  BY <1>2, <1>3, <1>4 DEF Next

LEMMA ExpiryIsCounted ==
  ASSUME Booked, Sound', ExpireWrite PROVE Counted'
<1> DEFINE o == job.o  p == job.p  l == job.l
<1>1. o \in Owners /\ p \in Products /\ l \in Locations /\ job.q = held[o][p][l]
  BY DEF ExpireWrite, Booked, Sound, ExpiryType, JobTrue
<1>2. /\ level' = [level EXCEPT ![p][l] = Freed(@, held[o][p][l])]
      /\ held' = [held EXCEPT ![o][p][l] = 0]
  BY <1>1 DEF ExpireWrite
<1> HIDE DEF o, p, l
<1>3. held[o][p][l] \in Nat /\ held[o][p][l] <= level[p][l].reserved /\ level[p][l] \in SoundLevel
  BY <1>1, HeldIsReserved DEF Booked, Sound, Levels
<1>4. Freed(level[p][l], held[o][p][l]).reserved = level[p][l].reserved - held[o][p][l]
  BY <1>3, CounterShrinks
<1>5. \A w \in Owners \ {o} : held'[w] = held[w]
  BY <1>2 DEF Booked, Sound
<1>6. ASSUME NEW q \in Products, NEW m \in Locations
      PROVE  level'[q][m].reserved - level[q][m].reserved = held'[o][q][m] - held[o][q][m]
  <2>1. level[q][m].reserved \in Int /\ held[o][q][m] \in Int
    BY <1>1, Fields DEF Booked, Sound, Levels
  <2>2. CASE q = p /\ m = l
    <3>1. level'[p][l] = Freed(level[p][l], held[o][p][l]) /\ held'[o][p][l] = 0
      BY <1>1, <1>2 DEF Booked, Sound, Levels
    <3> QED
      BY <1>4, <2>1, <2>2, <3>1
  <2>3. CASE ~(q = p /\ m = l)
    <3>1. level'[q][m] = level[q][m] /\ held'[o][q][m] = held[o][q][m]
      BY <1>1, <1>2, <2>3 DEF Booked, Sound, Levels
    <3> QED
      BY <2>1, <3>1
  <2> QED
    BY <2>2, <2>3
<1> QED
  BY <1>1, <1>5, <1>6, BalanceIsKept DEF Booked

LEMMA CreationIsCounted ==
  ASSUME Booked, NEW t \in Transfers, NEW from \in Locations, NEW to \in Locations,
         NEW units \in Quantities,
         Create(t, from, to, units) \/ CreateAndComplete(t, from, to, units)
  PROVE  Counted'
<1>1. held' = held /\ level' \in {level, Shift(units, from, to)}
  BY DEF Create, CreateAndComplete
<1>2. Steady(level) /\ Steady(Shift(units, from, to))
  BY LinesAreUnits, ShiftIsSteady DEF Booked, Sound, Steady
<1> QED
  BY <1>1, <1>2, SteadyIsKept DEF Booked

LEMMA OrgRequestIsCounted ==
  ASSUME Booked, NEW u \in Users,
         \/ OrgApprove(u) \/ OrgDispatch(u) \/ OrgCancel(u)
         \/ \E got \in Quantities : OrgReceive(u, got)
  PROVE  Counted'
<1>1. held' = held
  BY DEF OrgApprove, OrgDispatch, OrgCancel, OrgReceive, Refuse
<1>2. Steady(level)
  BY DEF Steady
<1>3. ASSUME NEW op \in Ops, At(u, op, "org")
      PROVE  req[u].row.from \in Locations /\ req[u].row.to \in Locations
  BY <1>3, CarriedRow DEF Booked, TransferType
<1>4. CASE OrgApprove(u) \/ (OrgDispatch(u) /\ Refuse(u))
  BY <1>1, <1>2, <1>4, SteadyIsKept DEF OrgApprove, Refuse, Booked
<1>5. CASE OrgDispatch(u) /\ ~Refuse(u)
  <2>1. level' = AtLocation(Out, req[u].row.qty, req[u].row.from) /\ At(u, "dispatch", "org")
    BY <1>5 DEF OrgDispatch
  <2> QED
    BY <1>1, <1>3, <2>1, MovesAreSteady, SteadyIsKept DEF Ops, Booked, Sound
<1>6. CASE OrgCancel(u)
  BY <1>1, <1>3, <1>6, MovesAreSteady, SteadyIsKept DEF OrgCancel, Ops, Booked, Sound
<1>7. ASSUME NEW got \in Quantities, OrgReceive(u, got) PROVE Counted'
  <2>1. level' = AtLocation(Moved, got, req[u].row.to) /\ At(u, "receive", "org")
    BY <1>7 DEF OrgReceive
  <2> QED
    <3>1. req[u].row.to \in Locations
      BY <1>3, <2>1 DEF Ops
    <3>2. Steady(level')
      BY <2>1, <3>1, MovesAreSteady DEF Booked, Sound
    <3> QED
      BY <1>1, <3>2, SteadyIsKept DEF Booked
<1> QED
  BY <1>4, <1>5, <1>6, <1>7

\* A request of the store reserves, or releases all that its transfer holds.
LEMMA StoreApprovalIsCounted ==
  ASSUME Booked, Sound', NEW u \in Users, StoreApprove(u) PROVE Counted'
<1> DEFINE t == req[u].t  row == req[u].row
           line == [p \in Products |-> [l \in Locations |->
                      held[t][p][l] + IF l = row.from THEN row.qty[p] ELSE 0]]
<1>1. t \in Owners /\ row.qty \in Units /\ row.from \in Locations
  BY CarriedRow, LinesAreUnits DEF StoreApprove, Ops, Booked, TransferType, Owners
<1>2. CASE Refuse(u)
  BY <1>2, SteadyIsKept DEF Refuse, Booked, Steady
<1>3. CASE ~Refuse(u)
  <2>1. level' = AtLocation(Reserved, row.qty, row.from) /\ held' = [held EXCEPT ![t] = line]
    BY <1>3 DEF StoreApprove
  <2>2. \A p \in Products, l \in Locations :
          line[p][l] = held[t][p][l] + IF l = row.from THEN row.qty[p] ELSE 0
    OBVIOUS
  <2> HIDE DEF line, t, row
  <2>3. held'[t] = line /\ \A w \in Owners \ {t} : held'[w] = held[w]
    BY <1>1, <2>1 DEF Booked, Sound
  <2>4. ASSUME NEW p \in Products, NEW l \in Locations
        PROVE  level'[p][l].reserved - level[p][l].reserved = held'[t][p][l] - held[t][p][l]
    <3>1. level'[p][l].reserved = level[p][l].reserved + IF l = row.from THEN row.qty[p] ELSE 0
      BY <1>1, <2>1, ReservationIsCounted DEF Booked, Sound
    <3>2. level[p][l].reserved \in Int /\ held[t][p][l] \in Int /\ row.qty[p] \in Int
      BY <1>1, Fields DEF Booked, Sound, Levels, Units
    <3> QED
      BY <2>2, <2>3, <3>1, <3>2
  <2> QED
    BY <1>1, <2>3, <2>4, BalanceIsKept DEF Booked
<1> QED
  BY <1>2, <1>3

LEMMA WholeReleaseIsCounted ==
  ASSUME Booked, Sound', NEW t \in Owners, NEW lv \in Levels, Steady(lv), NothingHeld(t),
         level' = Release(lv, t, Freed) \/ level' = Release(lv, t, Consumed)
  PROVE  Counted'
<1>1. \A w \in Owners \ {t} : held'[w] = held[w]
  BY DEF NothingHeld, Booked, Sound
<1>2. ASSUME NEW p \in Products, NEW l \in Locations
      PROVE  level'[p][l].reserved - level[p][l].reserved = held'[t][p][l] - held[t][p][l]
  <2>1. level'[p][l].reserved = level[p][l].reserved - held[t][p][l]
    BY ReleaseIsCounted DEF Booked
  <2>2. held'[t][p][l] = 0
    BY DEF NothingHeld, Booked, Sound
  <2>3. level[p][l].reserved \in Int /\ held[t][p][l] \in Int
    BY Fields DEF Booked, Sound, Levels
  <2> QED
    BY <2>1, <2>2, <2>3
<1> QED
  BY <1>1, <1>2, BalanceIsKept DEF Booked

LEMMA StoreRequestIsCounted ==
  ASSUME Booked, Sound', NEW u \in Users,
         \/ \E op \in Ops, t \in Transfers : Read(u, op, t)
         \/ \E from, to \in Locations : Reroute(u, from, to)
         \/ StoreCancel(u) \/ GiveUp(u)
         \/ \E named \in SUBSET Products, units \in Quantities : StoreReceive(u, named, units)
  PROVE  Counted'
<1>1. CASE \/ \E op \in Ops, t \in Transfers : Read(u, op, t)
           \/ \E from, to \in Locations : Reroute(u, from, to)
           \/ GiveUp(u)
  <2>1. level' = level /\ held' = held
    BY <1>1 DEF Read, Reroute, GiveUp, Refuse
  <2> QED
    BY <2>1, SteadyIsKept DEF Booked, Steady
<1>2. ASSUME NEW op \in Ops, At(u, op, "store")
      PROVE  /\ req[u].t \in Owners /\ req[u].row.from \in Locations /\ req[u].row.to \in Locations
  BY <1>2, CarriedRow DEF Booked, TransferType, Owners
<1>3. CASE StoreCancel(u)
  <2>1. req[u].t \in Owners
    BY <1>2, <1>3 DEF StoreCancel, Ops
  <2>2. Steady(level) /\ level \in Levels
    BY DEF Steady, Booked, Sound
  <2>3. CASE ReservedBy(req[u].row.status)
    <3>1. level' = Release(level, req[u].t, Freed) /\ NothingHeld(req[u].t)
      BY <1>3, <2>3 DEF StoreCancel
    <3> QED
      BY <2>1, <2>2, <3>1, WholeReleaseIsCounted
  <2>4. CASE ~ReservedBy(req[u].row.status)
    <3>1. level' = level /\ held' = held
      BY <1>3, <2>4 DEF StoreCancel
    <3> QED
      BY <2>2, <3>1, SteadyIsKept DEF Booked
  <2> QED
    BY <2>3, <2>4
<1>4. ASSUME NEW named \in SUBSET Products, NEW units \in Quantities, StoreReceive(u, named, units)
      PROVE  Counted'
  <2> DEFINE got == [p \in Products |-> IF p \in named THEN units[p] ELSE 0]
             lv == Shift(got, req[u].row.from, req[u].row.to)
  <2>1. got \in Units
    BY LinesAreUnits DEF Units
  <2>2. /\ level' = Release(lv, req[u].t, Consumed) /\ NothingHeld(req[u].t)
        /\ At(u, "receive", "store")
    BY <1>4 DEF StoreReceive
  <2> HIDE DEF got
  <2>3. lv \in Levels /\ Steady(lv)
    BY <1>2, <2>1, <2>2, ShiftSound, ShiftIsSteady DEF Ops, Booked, Sound, Units
  <2> HIDE DEF lv
  <2> QED
    BY <1>2, <2>2, <2>3, WholeReleaseIsCounted DEF Ops
<1> QED
  BY <1>1, <1>3, <1>4

\* One level and one owner's units there.
LEMMA OneChangeIsCounted ==
  ASSUME Booked, Sound', NEW o \in Owners, NEW p \in Products, NEW l \in Locations,
         NEW lv \in SoundLevel, NEW n \in Nat,
         level' = [level EXCEPT ![p][l] = lv], held' = [held EXCEPT ![o][p][l] = n],
         lv.reserved - level[p][l].reserved = n - held[o][p][l]
  PROVE  Counted'
<1>1. \A w \in Owners \ {o} : held'[w] = held[w]
  BY DEF Booked, Sound
<1>2. ASSUME NEW q \in Products, NEW m \in Locations
      PROVE  level'[q][m].reserved - level[q][m].reserved = held'[o][q][m] - held[o][q][m]
  <2>1. level[q][m].reserved \in Int /\ held[o][q][m] \in Int
    BY Fields DEF Booked, Sound, Levels
  <2>2. CASE q = p /\ m = l
    <3>1. level'[p][l] = lv /\ held'[o][p][l] = n
      BY DEF Booked, Sound, Levels
    <3> QED
      BY <2>2, <3>1
  <2>3. CASE ~(q = p /\ m = l)
    <3>1. level'[q][m] = level[q][m] /\ held'[o][q][m] = held[o][q][m]
      BY <2>3 DEF Booked, Sound, Levels
    <3> QED
      BY <2>1, <3>1
  <2> QED
    BY <2>2, <2>3
<1> QED
  BY <1>1, <1>2, BalanceIsKept DEF Booked

LEMMA ShopIsCounted ==
  ASSUME Booked, Sound', NEW p \in Products, NEW l \in Locations, Shop(p, l)
  PROVE  Counted'
<1>1. level[p][l] \in SoundLevel /\ level[p][l].reserved \in Int
  BY Fields DEF Booked, Sound, Levels
<1>2. ASSUME NEW lv, lv.reserved = level[p][l].reserved, World(p, l, lv), held' = held
      PROVE  Counted'
  <2>1. Steady(level')
    BY <1>2 DEF Steady, World, Booked, Sound, Levels
  <2> QED
    BY <1>2, <2>1, SteadyIsKept DEF Booked
<1>3. ASSUME NEW q \in 1..MaxLine, Buy(p, l, q) \/ Sell(p, l, q) PROVE Counted'
  BY <1>1, <1>2, <1>3, CounterStays DEF Buy, Sell
<1>4. ASSUME NEW found \in 0..MaxStock, Count(p, l, found) PROVE Counted'
  BY <1>1, <1>2, <1>4, CounterStays DEF Count
<1>5. ASSUME NEW o \in Orders, NEW q \in 1..MaxLine, Hold(o, p, l, q) PROVE Counted'
  <2>1. q \in Nat /\ o \in Owners /\ held[o][p][l] = 0
    BY <1>5 DEF Hold, Owners
  <2> DEFINE lv == Reserved(level[p][l], q)
  <2>2. lv \in SoundLevel /\ lv.reserved - level[p][l].reserved = q - held[o][p][l]
    BY <1>1, <2>1, ReservedSound, CounterGrows
  <2>3. level' = [level EXCEPT ![p][l] = lv] /\ held' = [held EXCEPT ![o][p][l] = q]
    BY <1>5 DEF Hold, World
  <2> HIDE DEF lv
  <2> QED
    BY <2>1, <2>2, <2>3, OneChangeIsCounted
<1>6. ASSUME NEW o \in Orders, Drop(o, p, l) PROVE Counted'
  <2>1. o \in Owners /\ held[o][p][l] \in Nat /\ held[o][p][l] <= level[p][l].reserved
    BY HeldIsReserved DEF Owners, Booked
  <2> DEFINE lv == Freed(level[p][l], held[o][p][l])
  <2>2. lv \in SoundLevel /\ lv.reserved - level[p][l].reserved = 0 - held[o][p][l]
    <3>1. lv \in SoundLevel
      BY <1>1, <2>1, FreedSound, Zenon
    <3>2. lv.reserved = level[p][l].reserved - held[o][p][l]
      BY <1>1, <2>1, CounterShrinks, Zenon
    <3> HIDE DEF lv
    <3> QED
      BY <1>1, <2>1, <3>1, <3>2
  <2>3. level' = [level EXCEPT ![p][l] = lv] /\ held' = [held EXCEPT ![o][p][l] = 0]
    BY <1>6 DEF Drop, World
  <2> HIDE DEF lv
  <2> QED
    BY <2>1, <2>2, <2>3, OneChangeIsCounted
<1>7. ASSUME NEW o \in Owners, ExpireRead(o, p, l) PROVE Counted'
  BY <1>7, SteadyIsKept DEF ExpireRead, Booked, Steady
<1> QED
  BY <1>3, <1>4, <1>5, <1>6, <1>7 DEF Shop

LEMMA StepIsCounted ==
  ASSUME Booked, Next PROVE Counted'
<1>1. Sound'
  BY StepIsSound DEF Booked
<1> QED
  BY <1>1, CreationIsCounted, StoreApprovalIsCounted, StoreRequestIsCounted, OrgRequestIsCounted,
     ShopIsCounted, ExpiryIsCounted DEF Next, Request

LEMMA StepKeepsJobTrue ==
  ASSUME "overlap" \notin Env \/ "expiry" \notin Env, Booked, [Next]_vars PROVE JobTrue'
<1>1. CASE UNCHANGED vars
  BY <1>1 DEF vars, Booked, JobTrue
<1>2. CASE ExpireWrite
  BY <1>2 DEF ExpireWrite, JobTrue
<1>3. ASSUME NEW o \in Owners, NEW p \in Products, NEW l \in Locations, ExpireRead(o, p, l)
      PROVE  JobTrue'
  <2> DEFINE r == [pc |-> "expire", o |-> o, p |-> p, l |-> l, q |-> held[o][p][l]]
  <2>1. /\ "expiry" \in Env /\ Undisturbed /\ job' = r /\ UNCHANGED <<held, req>>
    BY <1>3 DEF ExpireRead, On
  <2>2. r.o = o /\ r.p = p /\ r.l = l /\ r.q = held[o][p][l]
    OBVIOUS
  <2> HIDE DEF r
  <2> QED
    BY <2>1, <2>2 DEF JobTrue, Undisturbed, On
<1>4. ASSUME job' = job, job = Idle PROVE JobTrue'
  BY <1>4 DEF JobTrue
<1>5. ASSUME Next, job = Idle, ~ExpireWrite,
             ~(\E o \in Owners, p \in Products, l \in Locations : ExpireRead(o, p, l))
      PROVE  job' = job
  <2>1. CASE \E t \in Transfers, from, to \in Locations, units \in Quantities :
               Create(t, from, to, units) \/ CreateAndComplete(t, from, to, units)
    BY <2>1 DEF Create, CreateAndComplete
  <2>2. ASSUME NEW u \in Users, Request(u) PROVE job' = job
    <3>1. CASE \E op \in Ops, t \in Transfers : Read(u, op, t)
      BY <3>1 DEF Read
    <3> QED
      BY <2>2, <3>1, WritesAnswer DEF Answer
  <2>3. ASSUME NEW p \in Products, NEW l \in Locations, Shop(p, l) PROVE job' = job
    <3>1. ASSUME NEW lv, World(p, l, lv) PROVE job' = job
      BY <3>1 DEF World
    <3>2. \A q, o, found :
            Buy(p, l, q) \/ Sell(p, l, q) \/ Count(p, l, found) \/ Hold(o, p, l, q) \/ Drop(o, p, l)
              => job' = job
      BY <3>1 DEF Buy, Sell, Count, Hold, Drop
    <3>3. ~(\E o \in Owners : ExpireRead(o, p, l))
      BY <1>5
    <3> QED
      BY <2>3, <3>2, <3>3, Zenon DEF Shop
  <2> QED
    BY <1>5, <2>1, <2>2, <2>3 DEF Next
<1> QED
  BY <1>1, <1>2, <1>3, <1>4, <1>5, OnlyTheJob DEF Booked

\* As long as the expiry job does not overlap with requests, the reserved
\* counter of every level is the sum of the reservations that are active there:
\* approvals, receptions, cancellations, expiries and orders release what is
\* registered, and none of them is clipped at zero.
THEOREM ReservedIsActiveHolds ==
  ASSUME "overlap" \notin Env \/ "expiry" \notin Env PROVE Spec => []ReservedIsActive
<1>1. Init => Booked
  <2> SUFFICES ASSUME Init PROVE Counted /\ JobTrue
    BY StartIsSound DEF Booked
  <2>1. ASSUME NEW p \in Products, NEW l \in Locations PROVE level[p][l].reserved = Active(held, p, l)
    <3>1. \A o \in Owners : Ledger(held, p, l)[o] = 0
      BY DEF Init, Ledger
    <3>2. level[p][l].reserved = 0
      BY DEF Init, Opening
    <3> QED
      BY <3>1, <3>2, OwnersAreFinite, SumOfZeros DEF Active
  <2> QED
    BY <2>1 DEF Counted, Init, JobTrue
<1>2. Booked /\ [Next]_vars => Booked'
  <2> SUFFICES ASSUME Booked, [Next]_vars PROVE Booked'
    OBVIOUS
  <2>1. Sound' /\ JobTrue'
    BY StepIsSound, StepKeepsJobTrue DEF Booked
  <2>2. Counted'
    <3>1. CASE UNCHANGED vars
      BY <3>1 DEF vars, Booked, Counted
    <3> QED
      BY <3>1, StepIsCounted
  <2> QED
    BY <2>1, <2>2 DEF Booked
<1>3. Booked => ReservedIsActive
  BY CountedIsActive DEF Booked
<1> QED
  BY <1>1, <1>2, <1>3, PTL DEF Spec

-----------------------------------------------------------------------------
(* The goods on the shelves and on the road *)

Shelved(lv, p) == [l \in Locations |-> lv[p][l].on_hand]
Travelling(m, p) == [t \in ByOrg |-> m[t].out[p] - m[t].in[p] - m[t].back[p]]
Total(lv, m, p) ==
  SumFunctionOnSet(Shelved(lv, p), Locations) + SumFunctionOnSet(Travelling(m, p), ByOrg)
TotalIsAllUnits == \A p \in Products : AllUnits(p) = Total(level, moved, p)

LEMMA AllUnitsAreSummed == TotalIsAllUnits
<1>1. \A lv, p : MapThenSumSet(LAMBDA l : lv[p][l].on_hand, Locations) = SumsOf(Shelved(lv, p), Locations)[Locations]
  BY DEF MapThenSumSet, MapThenFoldSet, SumsOf, StepOf, FirstOf, RestOf, Shelved
<1>2. \A p : MapThenSumSet(LAMBDA l : level[p][l].on_hand, Locations)
               = SumFunctionOnSet(Shelved(level, p), Locations)
  BY <1>1, SumIsSums
<1>3. \A p : MapThenSumSet(LAMBDA t : OnTheRoad(t)[p], ByOrg)
               = SumsOf([t \in ByOrg |-> OnTheRoad(t)[p]], ByOrg)[ByOrg]
  BY DEF MapThenSumSet, MapThenFoldSet, SumsOf, StepOf, FirstOf, RestOf
<1>4. \A p \in Products : [t \in ByOrg |-> OnTheRoad(t)[p]] = Travelling(moved, p)
  BY DEF OnTheRoad, Travelling
<1> QED
  BY <1>2, <1>3, <1>4, SumIsSums DEF TotalIsAllUnits, Total, AllUnits

LEMMA SummandsAreIntegers ==
  ASSUME Sound, NEW p \in Products
  PROVE  /\ \A l \in Locations : Shelved(level, p)[l] = level[p][l].on_hand /\ level[p][l].on_hand \in Nat
         /\ \A t \in ByOrg : /\ moved[t].out[p] \in Nat /\ moved[t].in[p] \in Nat /\ moved[t].back[p] \in Nat
                             /\ Travelling(moved, p)[t] = moved[t].out[p] - moved[t].in[p] - moved[t].back[p]
<1>1. \A l \in Locations : level[p][l].on_hand \in Nat
  BY Fields DEF Sound, Levels
<1>2. \A t \in ByOrg : moved[t] \in TallyType
  BY DEF Sound, ByOrg
<1> QED
  BY <1>1, <1>2 DEF Shelved, Travelling, TallyType, Units

\* Units cross from one shelf to the road of one transfer, or come from it.
LEMMA CrossingConserves ==
  ASSUME Sound, Sound', NEW p \in Products, NEW l \in Locations, NEW t \in ByOrg, NEW n \in Int,
         level'[p][l].on_hand = level[p][l].on_hand - n,
         \A m \in Locations \ {l} : level'[p][m].on_hand = level[p][m].on_hand,
         moved'[t].out[p] - moved'[t].in[p] - moved'[t].back[p]
           = moved[t].out[p] - moved[t].in[p] - moved[t].back[p] + n,
         \A s \in ByOrg \ {t} : moved'[s] = moved[s]
  PROVE  Total(level', moved', p) = Total(level, moved, p)
<1> DEFINE f == Shelved(level, p)  g == Shelved(level', p)
           h == Travelling(moved, p)  k == Travelling(moved', p)
<1>1. /\ \A m \in Locations : f[m] = level[p][m].on_hand /\ f[m] \in Int
      /\ \A s \in ByOrg : h[s] = moved[s].out[p] - moved[s].in[p] - moved[s].back[p] /\ h[s] \in Int
  BY SummandsAreIntegers
<1>2. /\ \A m \in Locations : g[m] = level'[p][m].on_hand /\ g[m] \in Int
      /\ \A s \in ByOrg : k[s] = moved'[s].out[p] - moved'[s].in[p] - moved'[s].back[p] /\ k[s] \in Int
  <2>1. \A m \in Locations : level'[p][m].on_hand \in Nat
    BY Fields DEF Sound, Levels
  <2>2. \A s \in ByOrg : moved'[s] \in TallyType
    BY DEF Sound, ByOrg
  <2>3. \A s \in ByOrg : moved'[s].out[p] - moved'[s].in[p] - moved'[s].back[p] \in Int
    BY <2>2 DEF TallyType, Units
  <2> QED
    BY <2>1, <2>3 DEF Shelved, Travelling
<1>3. IsFiniteSet(Locations) /\ IsFiniteSet(ByOrg)
  BY FinitenessAssumption, FS_Subset DEF ByOrg
<1>4. Total(level, moved, p) = SumFunctionOnSet(f, Locations) + SumFunctionOnSet(h, ByOrg)
  BY DEF Total
<1>5. Total(level', moved', p) = SumFunctionOnSet(g, Locations) + SumFunctionOnSet(k, ByOrg)
  BY DEF Total
<1> HIDE DEF f, g, h, k
<1>6. SumFunctionOnSet(g, Locations) = SumFunctionOnSet(f, Locations) + g[l] - f[l]
  BY <1>1, <1>2, <1>3, SumOfChanged
<1>7. SumFunctionOnSet(k, ByOrg) = SumFunctionOnSet(h, ByOrg) + k[t] - h[t]
  <2>1. \A s \in ByOrg \ {t} : k[s] = h[s]
    BY <1>1, <1>2
  <2> QED
    BY <1>1, <1>2, <1>3, <2>1, SumOfChanged
<1>8. SumFunctionOnSet(f, Locations) \in Int /\ SumFunctionOnSet(h, ByOrg) \in Int
  BY <1>1, <1>3, SumTakesAny
<1>9. g[l] = f[l] - n /\ k[t] = h[t] + n
  BY <1>1, <1>2
<1>10. f[l] \in Int /\ h[t] \in Int
  BY <1>1
<1> QED
  BY <1>4, <1>5, <1>6, <1>7, <1>8, <1>9, <1>10

LEMMA ShelvesMove ==
  ASSUME Sound, NEW units \in Units, NEW l \in Locations, NEW p \in Products
  PROVE  /\ AtLocation(Moved, units, l)[p][l].on_hand = level[p][l].on_hand + units[p]
         /\ units[p] <= level[p][l].on_hand =>
              AtLocation(Out, units, l)[p][l].on_hand = level[p][l].on_hand - units[p]
         /\ \A m \in Locations \ {l} :
              /\ AtLocation(Moved, units, l)[p][m].on_hand = level[p][m].on_hand
              /\ AtLocation(Out, units, l)[p][m].on_hand = level[p][m].on_hand
<1>1. level[p] \in [Locations -> SoundLevel] /\ units[p] \in Nat
  BY DEF Sound, Levels, Units
<1>2. level[p][l] \in LevelType /\ level[p][l].on_hand \in Nat
  BY <1>1, Fields
<1>3. Moved(level[p][l], units[p]).on_hand = level[p][l].on_hand + units[p]
  BY <1>1, <1>2 DEF Moved, NotNegative, LevelType
<1>4. units[p] <= level[p][l].on_hand =>
        Out(level[p][l], units[p]).on_hand = level[p][l].on_hand - units[p]
  BY <1>1, <1>2 DEF Out, Moved, NotNegative, LevelType
<1>5. /\ AtLocation(Moved, units, l)[p] = IF units[p] = 0 THEN level[p]
            ELSE [level[p] EXCEPT ![l] = Moved(level[p][l], units[p])]
      /\ AtLocation(Out, units, l)[p] = IF units[p] = 0 THEN level[p]
            ELSE [level[p] EXCEPT ![l] = Out(level[p][l], units[p])]
  BY DEF AtLocation
<1>6. AtLocation(Moved, units, l)[p][l].on_hand = level[p][l].on_hand + units[p]
  BY <1>1, <1>2, <1>3, <1>5
<1>7. units[p] <= level[p][l].on_hand =>
        AtLocation(Out, units, l)[p][l].on_hand = level[p][l].on_hand - units[p]
  BY <1>1, <1>2, <1>4, <1>5
<1>8. \A m \in Locations \ {l} :
        /\ AtLocation(Moved, units, l)[p][m].on_hand = level[p][m].on_hand
        /\ AtLocation(Out, units, l)[p][m].on_hand = level[p][m].on_hand
  BY <1>1, <1>5
<1> QED
  BY <1>6, <1>7, <1>8

\* Once created, a transfer of the organization keeps its locations.
OrgStaysPut ==
  \A u \in Users : req[u] # Idle /\ Flow[req[u].t] = "org" => req[u].row.from = tr[req[u].t].from

Placed == Sound /\ OrgStaysPut

\* What a request of the organization touches: its own transfer.
LEMMA OrgTouchesOne ==
  ASSUME Placed, NEW u \in Users,
         \/ OrgApprove(u) \/ (OrgDispatch(u) /\ ~Refuse(u)) \/ OrgCancel(u)
         \/ \E got \in Quantities : OrgReceive(u, got)
  PROVE  /\ req[u].t \in ByOrg /\ req[u].row \in TransferType /\ WithinLine(req[u].row)
         /\ req[u].row.from = tr[req[u].t].from /\ tr'[req[u].t].from = tr[req[u].t].from
         /\ \A s \in ByOrg \ {req[u].t} : tr'[s] = tr[s] /\ moved'[s] = moved[s]
<1> DEFINE t == req[u].t
<1>1. PICK op \in Ops : At(u, op, "org")
  BY DEF OrgApprove, OrgDispatch, OrgCancel, OrgReceive, Ops
<1>2. /\ req[u] # Idle /\ t \in Transfers /\ Flow[t] = "org" /\ req[u].row \in TransferType
      /\ WithinLine(req[u].row)
  BY <1>1, CarriedRow DEF Placed
<1>3. t \in ByOrg /\ req[u].row.from = tr[t].from
  BY <1>2 DEF ByOrg, Placed, OrgStaysPut
<1>4. tr \in [Transfers -> TransferType] /\ moved \in [Transfers -> TallyType]
  BY DEF Placed, Sound, TransfersSound
<1>5. PICK r, m : /\ tr' = [tr EXCEPT ![t] = r] /\ r.from = tr[t].from
                  /\ moved' = [moved EXCEPT ![t] = m]
  <2>1. ASSUME NEW s PROVE /\ [tr EXCEPT ![t].status = s] = [tr EXCEPT ![t] = [tr[t] EXCEPT !.status = s]]
                           /\ [tr[t] EXCEPT !.status = s].from = tr[t].from
    BY <1>2, <1>4 DEF TransferType
  <2>2. CASE OrgApprove(u)
    <3>1. tr' = [tr EXCEPT ![t].status = "approved"] /\ moved' = [moved EXCEPT ![t] = moved[t]]
      BY <1>4, <2>2 DEF OrgApprove, Settled
    <3> QED
      BY <2>1, <3>1
  <2>3. CASE OrgDispatch(u) /\ ~Refuse(u)
    <3> DEFINE m == [moved[t] EXCEPT !.out = Plus(@, req[u].row.qty)]
    <3>1. tr' = [tr EXCEPT ![t].status = "in_transit"] /\ moved' = [moved EXCEPT ![t] = m]
      BY <1>2, <1>4, <2>3 DEF OrgDispatch, Settled
    <3> HIDE DEF m
    <3> QED
      BY <2>1, <3>1
  <2>4. CASE OrgCancel(u)
    <3> DEFINE rest == IF req[u].row.status = "in_transit" THEN Rest(req[u].row) ELSE None
               m == [moved[t] EXCEPT !.back = Plus(@, rest)]
    <3>1. tr' = [tr EXCEPT ![t].status = "cancelled"]
      BY <2>4 DEF OrgCancel, Settled
    <3>2. moved' = [moved EXCEPT ![t].back = Plus(@, rest)]
      BY <2>4 DEF OrgCancel
    <3> HIDE DEF rest
    <3>3. moved' = [moved EXCEPT ![t] = m]
      BY <1>2, <1>4, <3>2
    <3> HIDE DEF m
    <3> QED
      BY <2>1, <3>1, <3>3
  <2>5. ASSUME NEW got \in Quantities, OrgReceive(u, got)
        PROVE  \E r, m : /\ tr' = [tr EXCEPT ![t] = r] /\ r.from = tr[t].from
                         /\ moved' = [moved EXCEPT ![t] = m]
    <3> DEFINE received == [p \in Products |-> IF got[p] > 0 THEN req[u].row.received[p] + got[p]
                                               ELSE tr[t].received[p]]
               status == IF \A p \in Products : received[p] >= req[u].row.qty[p]
                         THEN "received" ELSE "in_transit"
               r == [tr[t] EXCEPT !.received = received, !.status = status]
               m == [moved[t] EXCEPT !.in = Plus(@, got)]
    <3>1. /\ tr' = [tr EXCEPT ![t].received = received, ![t].status = status]
          /\ moved' = [moved EXCEPT ![t].in = Plus(@, got)]
      BY <2>5 DEF OrgReceive
    <3> HIDE DEF received, status
    <3>2. tr' = [tr EXCEPT ![t] = r] /\ r.from = tr[t].from /\ moved' = [moved EXCEPT ![t] = m]
      BY <1>2, <1>4, <3>1 DEF TransferType
    <3> HIDE DEF r, m
    <3> QED
      BY <3>2
  <2> QED
    BY <2>2, <2>3, <2>4, <2>5
<1>6. tr'[t].from = tr[t].from /\ \A s \in ByOrg \ {t} : tr'[s] = tr[s] /\ moved'[s] = moved[s]
  BY <1>2, <1>4, <1>5 DEF ByOrg
<1> QED
  BY <1>2, <1>3, <1>6

LEMMA DispatchConserves ==
  ASSUME Placed, Sound', NEW u \in Users, OrgDispatch(u), ~Refuse(u), Backed(req[u].row.from),
         NEW p \in Products
  PROVE  Total(level', moved', p) = Total(level, moved, p)
<1> DEFINE t == req[u].t  row == req[u].row
<1>1. /\ t \in ByOrg /\ t \in Transfers /\ row.qty \in Units /\ row.from \in Locations
      /\ \A s \in ByOrg \ {t} : moved'[s] = moved[s]
  BY OrgTouchesOne, LinesAreUnits DEF ByOrg, TransferType
<1>2. /\ Covered(row.qty, row.from) /\ level' = AtLocation(Out, row.qty, row.from)
      /\ moved' = [moved EXCEPT ![t].out = Plus(@, row.qty)]
  BY DEF OrgDispatch
<1> HIDE DEF t, row
<1>3. row.qty[p] \in Nat /\ level[p][row.from].on_hand \in Nat /\ level[p][row.from].available \in Int
  BY <1>1, Fields DEF Placed, Sound, Levels, Units
<1>4. row.qty[p] <= level[p][row.from].on_hand
  <2>1. Backed(row.from)
    BY DEF row
  <2>2. row.qty[p] > 0 => level[p][row.from].available >= row.qty[p]
    BY <1>2 DEF Covered
  <2>3. level[p][row.from].available <= level[p][row.from].on_hand
    BY <2>1 DEF Backed
  <2> QED
    BY <1>3, <2>2, <2>3
<1>5. /\ level'[p][row.from].on_hand = level[p][row.from].on_hand - row.qty[p]
      /\ \A m \in Locations \ {row.from} : level'[p][m].on_hand = level[p][m].on_hand
  BY <1>1, <1>2, <1>4, ShelvesMove DEF Placed
<1>6. moved'[t].out[p] - moved'[t].in[p] - moved'[t].back[p]
        = moved[t].out[p] - moved[t].in[p] - moved[t].back[p] + row.qty[p]
  <2>1. moved[t] \in TallyType /\ moved \in [Transfers -> TallyType]
    BY <1>1 DEF Placed, Sound
  <2>2. /\ moved'[t].out = Plus(moved[t].out, row.qty) /\ moved'[t].in = moved[t].in
        /\ moved'[t].back = moved[t].back
    BY <1>1, <1>2, <2>1 DEF TallyType
  <2>3. moved'[t].out[p] = moved[t].out[p] + row.qty[p]
    BY <2>2 DEF Plus
  <2>4. moved[t].out[p] \in Nat /\ moved[t].in[p] \in Nat /\ moved[t].back[p] \in Nat
    BY <1>1, SummandsAreIntegers DEF Placed
  <2> QED
    BY <1>3, <2>2, <2>3, <2>4
<1> QED
  BY <1>1, <1>3, <1>5, <1>6, CrossingConserves DEF Placed

\* What comes back from the road, at either end.
LEMMA ArrivalConserves ==
  ASSUME Placed, Sound', NEW t \in ByOrg, NEW l \in Locations, NEW units \in Units,
         level' = AtLocation(Moved, units, l), NEW p \in Products,
         \A s \in ByOrg \ {t} : moved'[s] = moved[s],
         \/ moved' = [moved EXCEPT ![t].in = Plus(@, units)]
         \/ moved' = [moved EXCEPT ![t].back = Plus(@, units)]
  PROVE  Total(level', moved', p) = Total(level, moved, p)
<1>1. units[p] \in Nat /\ level[p][l].on_hand \in Nat /\ t \in Transfers
  BY Fields DEF Placed, Sound, Levels, Units, ByOrg
<1>2. /\ level'[p][l].on_hand = level[p][l].on_hand - (-units[p])
      /\ \A m \in Locations \ {l} : level'[p][m].on_hand = level[p][m].on_hand
  BY <1>1, ShelvesMove DEF Placed
<1>3. moved'[t].out[p] - moved'[t].in[p] - moved'[t].back[p]
        = moved[t].out[p] - moved[t].in[p] - moved[t].back[p] + (-units[p])
  <2>1. moved[t] \in TallyType /\ moved \in [Transfers -> TallyType]
    BY <1>1 DEF Placed, Sound
  <2>2. /\ moved'[t].out = moved[t].out
        /\ \/ moved'[t].in = Plus(moved[t].in, units) /\ moved'[t].back = moved[t].back
           \/ moved'[t].back = Plus(moved[t].back, units) /\ moved'[t].in = moved[t].in
    BY <1>1, <2>1 DEF TallyType
  <2>3. moved[t].out[p] \in Nat /\ moved[t].in[p] \in Nat /\ moved[t].back[p] \in Nat
    BY <1>1, SummandsAreIntegers DEF Placed
  <2> QED
    BY <1>1, <2>2, <2>3 DEF Plus
<1> DEFINE n == -units[p]
<1>4. n \in Int
  BY <1>1
<1> QED
  <2> HIDE DEF n
  <2>1. /\ level'[p][l].on_hand = level[p][l].on_hand - n
        /\ moved'[t].out[p] - moved'[t].in[p] - moved'[t].back[p]
             = moved[t].out[p] - moved[t].in[p] - moved[t].back[p] + n
    BY <1>2, <1>3 DEF n
  <2> QED
    BY <1>2, <1>4, <2>1, CrossingConserves DEF Placed

LEMMA StepStaysPut ==
  ASSUME Placed, Next
  PROVE  \A t \in ByOrg : tr[t].status = "none" \/ tr'[t].from = tr[t].from
<1>1. ASSUME NEW t \in Transfers, NEW from \in Locations, NEW to \in Locations,
             NEW units \in Quantities,
             Create(t, from, to, units) \/ CreateAndComplete(t, from, to, units)
      PROVE  \A s \in ByOrg : tr[s].status = "none" \/ tr'[s].from = tr[s].from
  BY <1>1 DEF Create, CreateAndComplete, New, ByOrg, Placed, Sound, TransfersSound
<1>2. ASSUME NEW u \in Users, Request(u) PROVE \A s \in ByOrg : tr'[s].from = tr[s].from
  <2>1. CASE \/ OrgApprove(u) \/ (OrgDispatch(u) /\ ~Refuse(u)) \/ OrgCancel(u)
             \/ \E got \in Quantities : OrgReceive(u, got)
    BY <2>1, OrgTouchesOne
  <2>2. CASE OrgDispatch(u) /\ Refuse(u)
    BY <2>2 DEF Refuse
  <2> QED
    BY <1>2, <2>1, <2>2, StoreTouchesItsOwn DEF Request, Placed
<1>3. CASE ExpireWrite \/ \E p \in Products, l \in Locations : Shop(p, l)
  BY <1>3, ShopTouchesNoTransfer DEF ExpireWrite
<1> QED
  BY <1>1, <1>2, <1>3 DEF Next

LEMMA StepIsPlaced ==
  ASSUME Placed, [Next]_vars PROVE Placed'
<1>1. Sound'
  BY StepIsSound DEF Placed
<1>2. CASE UNCHANGED vars
  BY <1>1, <1>2 DEF vars, Placed, OrgStaysPut
<1>3. CASE Next
  <2> SUFFICES ASSUME NEW u \in Users, req'[u] # Idle, Flow[req'[u].t] = "org"
               PROVE  req'[u].row.from = tr'[req'[u].t].from
    BY <1>1 DEF Placed, OrgStaysPut
  <2>1. \/ req'[u] = req[u]
        \/ \E op \in Ops, t \in Transfers : Read(u, op, t) /\ req'[u].t = t /\ req'[u].row = tr[t]
    <3>1. ASSUME NEW v \in Users, Request(v) PROVE req' = [req EXCEPT ![v] = req'[v]]
      <4>1. CASE \E op \in Ops, t \in Transfers : Read(v, op, t)
        BY <4>1 DEF Read, Placed, Sound, RequestsSound
      <4>2. CASE ~(\E op \in Ops, t \in Transfers : Read(v, op, t))
        BY <3>1, <4>2, WritesAnswer DEF Answer, Placed, Sound, RequestsSound
      <4> QED
        BY <4>1, <4>2
    <3>2. CASE Request(u)
      <4>1. ASSUME NEW op \in Ops, NEW t \in Transfers, Read(u, op, t)
            PROVE  req'[u].t = t /\ req'[u].row = tr[t]
        BY <4>1 DEF Read, Placed, Sound, RequestsSound
      <4>2. CASE ~(\E op \in Ops, t \in Transfers : Read(u, op, t))
        <5>1. req'[u] = Idle
          BY <3>2, <4>2, WritesAnswer DEF Answer, Placed, Sound, RequestsSound
        <5> QED
          BY <5>1
      <4> QED
        BY <4>1, <4>2
    <3>3. CASE \E v \in Users \ {u} : Request(v)
      BY <3>1, <3>3 DEF Placed, Sound, RequestsSound
    <3>4. CASE \E t \in Transfers, from, to \in Locations, units \in Quantities :
                 Create(t, from, to, units) \/ CreateAndComplete(t, from, to, units)
      BY <3>4 DEF Create, CreateAndComplete
    <3>5. CASE ExpireWrite \/ \E p \in Products, l \in Locations : Shop(p, l)
      BY <3>5, ShopTouchesNoTransfer DEF ExpireWrite
    <3> QED
      BY <1>3, <3>2, <3>3, <3>4, <3>5 DEF Next
  <2>2. CASE req'[u] = req[u]
    <3>1. req[u].t \in ByOrg /\ tr[req[u].t].status # "none"
      BY <2>2 DEF Placed, Sound, RequestsSound, RequestType, ByOrg
    <3> QED
      BY <1>3, <2>2, <3>1, StepStaysPut DEF Placed, OrgStaysPut
  <2>3. CASE \E op \in Ops, t \in Transfers : Read(u, op, t) /\ req'[u].t = t /\ req'[u].row = tr[t]
    BY <2>3 DEF Read
  <2> QED
    BY <2>1, <2>2, <2>3
<1> QED
  BY <1>2, <1>3

LEMMA StepConserves ==
  ASSUME Placed, Sound', Next, NEW t \in ByOrg, tr'[t] # tr[t] \/ moved'[t] # moved[t],
         Backed(tr[t].from), NEW p \in Products
  PROVE  Total(level', moved', p) = Total(level, moved, p)
<1>1. CASE \E s \in Transfers, from, to \in Locations, units \in Quantities :
             Create(s, from, to, units) \/ CreateAndComplete(s, from, to, units)
  <2>1. PICK s \in Transfers, from \in Locations, to \in Locations, units \in Quantities :
          Create(s, from, to, units) \/ CreateAndComplete(s, from, to, units)
    BY <1>1
  <2>2. ~CreateAndComplete(s, from, to, units)
    BY DEF CreateAndComplete, New, ByOrg, Placed, Sound, TransfersSound
  <2> QED
    BY <2>1, <2>2 DEF Create
<1>2. ASSUME NEW u \in Users, Request(u) PROVE Total(level', moved', p) = Total(level, moved, p)
  <2>1. \/ OrgApprove(u) \/ OrgDispatch(u) \/ OrgCancel(u)
        \/ \E got \in Quantities : OrgReceive(u, got)
    BY <1>2, StoreTouchesItsOwn DEF Request, Placed
  <2>2. ~(OrgDispatch(u) /\ Refuse(u))
    BY DEF Refuse
  <2>3. /\ req[u].t = t /\ req[u].row.from = tr[t].from /\ req[u].row \in TransferType
        /\ WithinLine(req[u].row) /\ \A s \in ByOrg \ {t} : moved'[s] = moved[s]
    BY <2>1, <2>2, OrgTouchesOne
  <2>4. req[u].row.from \in Locations /\ req[u].row.to \in Locations
    BY <2>3 DEF TransferType
  <2>5. CASE OrgApprove(u)
    BY <2>5 DEF OrgApprove
  <2>6. CASE OrgDispatch(u)
    BY <2>2, <2>3, <2>6, DispatchConserves
  <2>7. CASE OrgCancel(u)
    <3> DEFINE rest == IF req[u].row.status = "in_transit" THEN Rest(req[u].row) ELSE None
    <3>1. rest \in Units
      BY <2>3, RestIsUnits, NoneIsALine, LinesAreUnits
    <3>2. level' = AtLocation(Moved, rest, req[u].row.from) /\ moved' = [moved EXCEPT ![t].back = Plus(@, rest)]
      BY <2>3, <2>7 DEF OrgCancel
    <3> HIDE DEF rest
    <3> QED
      BY <2>3, <2>4, <3>1, <3>2, ArrivalConserves
  <2>8. ASSUME NEW got \in Quantities, OrgReceive(u, got)
        PROVE  Total(level', moved', p) = Total(level, moved, p)
    <3>1. level' = AtLocation(Moved, got, req[u].row.to) /\ moved' = [moved EXCEPT ![t].in = Plus(@, got)]
      BY <2>3, <2>8 DEF OrgReceive
    <3> QED
      BY <2>3, <2>4, <3>1, LinesAreUnits, ArrivalConserves
  <2> QED
    BY <2>1, <2>5, <2>6, <2>7, <2>8
<1>3. CASE ExpireWrite \/ \E q \in Products, l \in Locations : Shop(q, l)
  BY <1>3, ShopTouchesNoTransfer DEF ExpireWrite
<1> QED
  BY <1>1, <1>2, <1>3 DEF Next

\* In every environment, overlapping requests included, a step of a transfer of
\* the organization neither creates nor loses units: what its dispatch takes
\* off the shelf is on the road, and what its reception and its cancellation
\* take off the road is on a shelf, as long as its origin promises no more than
\* it has.
THEOREM GoodsConservedHolds == Spec => GoodsConserved
<1>1. Init => Placed
  BY StartIsSound DEF Init, Placed, OrgStaysPut
<1>2. Placed /\ [Next]_vars => Placed'
  BY StepIsPlaced
<1>3. Placed /\ Placed' /\ [Next]_vars /\ TotalIsAllUnits /\ TotalIsAllUnits' =>
        [(\E t \in ByOrg : (tr'[t] # tr[t] \/ moved'[t] # moved[t]) /\ Backed(tr[t].from))
           => \A p \in Products : AllUnits(p)' = AllUnits(p)]_vars
  <2> SUFFICES ASSUME Placed, Placed', Next, TotalIsAllUnits, TotalIsAllUnits',
                      NEW t \in ByOrg, tr'[t] # tr[t] \/ moved'[t] # moved[t], Backed(tr[t].from),
                      NEW p \in Products
               PROVE  AllUnits(p)' = AllUnits(p)
    OBVIOUS
  <2>1. AllUnits(p) = Total(level, moved, p) /\ AllUnits(p)' = Total(level', moved', p)
    BY DEF TotalIsAllUnits
  <2>2. Total(level', moved', p) = Total(level, moved, p)
    BY StepConserves DEF Placed
  <2> QED
    BY <2>1, <2>2
<1> QED
  BY <1>1, <1>2, <1>3, AllUnitsAreSummed, PTL DEF Spec, GoodsConserved
=============================================================================
