--------------------------- MODULE OrderLedgerProofs ---------------------------
(***************************************************************************)
(* Proofs about the totals of OrderFlow: the units on hand against those   *)
(* the orders took, the reserved counter against the reservations, and     *)
(* what online orders hold against what is on hand.                        *)
(***************************************************************************)
EXTENDS OrderFlowProofs, Sums

HeldBy(r) == [o \in Orders |-> Units[o] * Cardinality(r[o])]
TakenBy(t) == [o \in Orders |-> IF t[o] THEN Units[o] ELSE 0]
Held(r, S) == SumFunctionOnSet(HeldBy(r), S)
Taken(t) == SumFunctionOnSet(TakenBy(t), Orders)

LEMMA SumsOfModel ==
  /\ MapThenSumSet(HeldUnits, Orders) = Held(rows, Orders)
  /\ MapThenSumSet(HeldUnits, Online) = Held(rows, Online)
  /\ MapThenSumSet(LAMBDA o : IF taken[o] THEN Units[o] ELSE 0, Orders) = Taken(taken)
<1>1. MapThenSumSet(HeldUnits, Orders) = SumsOf([o \in Orders |-> HeldUnits(o)], Orders)[Orders]
  BY DEF MapThenSumSet, MapThenFoldSet, SumsOf, StepOf, FirstOf, RestOf
<1>2. MapThenSumSet(HeldUnits, Online) = SumsOf([o \in Online |-> HeldUnits(o)], Online)[Online]
  BY DEF MapThenSumSet, MapThenFoldSet, SumsOf, StepOf, FirstOf, RestOf
<1>3. MapThenSumSet(LAMBDA o : IF taken[o] THEN Units[o] ELSE 0, Orders) = SumsOf(TakenBy(taken), Orders)[Orders]
  BY DEF MapThenSumSet, MapThenFoldSet, SumsOf, StepOf, FirstOf, RestOf, TakenBy
<1>4. [o \in Orders |-> HeldUnits(o)] = HeldBy(rows)
  BY DEF HeldUnits, HeldBy
<1>5. SumFunctionOnSet([o \in Online |-> HeldUnits(o)], Online) = Held(rows, Online)
  <2>1. \A o \in Online : [q \in Online |-> HeldUnits(q)][o] = HeldBy(rows)[o]
    BY KindsAssumption DEF HeldUnits, HeldBy
  <2>2. IsFiniteSet(Online)
    BY KindsAssumption, FinitenessAssumption, FS_Subset
  <2> QED
    BY <2>1, <2>2, SumOfSame DEF Held
<1> QED
  BY <1>1, <1>2, <1>3, <1>4, <1>5, SumIsSums DEF Held, Taken

-----------------------------------------------------------------------------
(* Reservations *)

RowSets == [Orders -> SUBSET Rows]

LEMMA HeldByIsNat ==
  ASSUME NEW r \in RowSets, NEW o \in Orders
  PROVE  /\ HeldBy(r)[o] \in Nat /\ HeldBy(r)[o] = Units[o] * Cardinality(r[o])
         /\ IsFiniteSet(r[o]) /\ Cardinality(r[o]) \in Nat /\ Units[o] \in Nat
<1>1. IsFiniteSet(Rows)
  BY FS_Interval, BoundsAssumption DEF Rows
<1>2. IsFiniteSet(r[o]) /\ Cardinality(r[o]) \in Nat
  BY <1>1, FS_Subset, FS_CardinalityType DEF RowSets
<1>3. Units[o] \in Nat
  BY UnitsAssumption
<1>4. Units[o] * Cardinality(r[o]) \in Nat
  BY <1>2, <1>3
<1> QED
  BY <1>2, <1>3, <1>4 DEF HeldBy

LEMMA HeldBounds ==
  ASSUME NEW r \in RowSets
  PROVE  /\ Held(r, Orders) \in Nat /\ Held(r, Online) \in Nat
         /\ Held(r, Online) <= Held(r, Orders)
         /\ \A o \in Orders : HeldBy(r)[o] <= Held(r, Orders)
<1> DEFINE f == HeldBy(r)
<1>1. \A o \in Orders : f[o] \in Nat
  BY HeldByIsNat
<1> HIDE DEF f
<1>2. IsFiniteSet(Orders) /\ IsFiniteSet(Online) /\ Online \in SUBSET Orders
  BY FinitenessAssumption, KindsAssumption, FS_Subset
<1>3. ASSUME NEW S \in SUBSET Orders, IsFiniteSet(S) PROVE SumFunctionOnSet(f, S) \in Nat
  <2>1. SumFunctionOnSet(f, S) \in Int
    BY <1>1, <1>3, SumTakesAny
  <2>2. SumFunctionOnSet(f, {}) <= SumFunctionOnSet(f, S)
    <3>1. \A o \in S : f[o] \in Nat
      BY <1>1
    <3>2. {} \in SUBSET S
      OBVIOUS
    <3> QED
      BY <1>3, <3>1, <3>2, SumOfPart
  <2> QED
    BY <2>1, <2>2, SumOfNone
<1>4. SumFunctionOnSet(f, Orders) \in Nat /\ SumFunctionOnSet(f, Online) \in Nat
  BY <1>2, <1>3
<1>5. SumFunctionOnSet(f, Online) <= SumFunctionOnSet(f, Orders)
  BY <1>1, <1>2, SumOfPart
<1>6. ASSUME NEW o \in Orders PROVE f[o] <= SumFunctionOnSet(f, Orders)
  <2>1. SumFunctionOnSet(f, {o}) <= SumFunctionOnSet(f, Orders)
    <3>1. {o} \in SUBSET Orders
      OBVIOUS
    <3> QED
      BY <1>1, <1>2, <3>1, SumOfPart
  <2>2. f[o] \in Int
    BY <1>1
  <2> QED
    BY <2>1, <2>2, SumOfOne
<1> QED
  BY <1>4, <1>5, <1>6 DEF Held, f

\* The rows of one order change.
LEMMA HeldChanges ==
  ASSUME NEW r \in RowSets, NEW s \in RowSets, NEW o \in Orders, \A q \in Orders \ {o} : s[q] = r[q]
  PROVE  /\ Held(s, Orders) = Held(r, Orders) + HeldBy(s)[o] - HeldBy(r)[o]
         /\ Held(s, Online) = Held(r, Online)
                              + IF o \in Online THEN HeldBy(s)[o] - HeldBy(r)[o] ELSE 0
<1> DEFINE f == HeldBy(r)  g == HeldBy(s)
<1>1. \A q \in Orders : f[q] \in Int /\ g[q] \in Int
  BY HeldByIsNat
<1>2. \A q \in Orders \ {o} : g[q] = f[q]
  BY HeldByIsNat
<1> HIDE DEF f, g
<1>3. IsFiniteSet(Orders) /\ IsFiniteSet(Online) /\ Online \subseteq Orders
  BY FinitenessAssumption, KindsAssumption, FS_Subset
<1>4. SumFunctionOnSet(g, Orders) = SumFunctionOnSet(f, Orders) + g[o] - f[o]
  BY <1>1, <1>2, <1>3, SumOfChanged
<1>5. SumFunctionOnSet(f, Online) \in Int
  BY <1>1, <1>3, SumTakesAny
<1>6. CASE o \in Online
  <2>1. SumFunctionOnSet(g, Online) = SumFunctionOnSet(f, Online) + g[o] - f[o]
    BY <1>1, <1>2, <1>3, <1>6, SumOfChanged
  <2>2. g[o] \in Int /\ f[o] \in Int
    BY <1>1
  <2>3. SumFunctionOnSet(g, Online) = SumFunctionOnSet(f, Online) + IF o \in Online THEN g[o] - f[o] ELSE 0
    BY <1>5, <1>6, <2>1, <2>2
  <2> QED
    BY <1>4, <2>3 DEF Held, f, g
<1>7. CASE o \notin Online
  <2>1. \A q \in Online : f[q] = g[q]
    BY <1>2, <1>3, <1>7
  <2>2. SumFunctionOnSet(f, Online) = SumFunctionOnSet(g, Online)
    BY <1>3, <2>1, SumOfSame
  <2>3. SumFunctionOnSet(g, Online) = SumFunctionOnSet(f, Online) + IF o \in Online THEN g[o] - f[o] ELSE 0
    BY <1>5, <1>7, <2>2
  <2> QED
    BY <1>4, <2>3 DEF Held, f, g
<1> QED
  BY <1>6, <1>7

LEMMA TakenBounds ==
  ASSUME NEW t \in [Orders -> BOOLEAN]
  PROVE  Taken(t) \in Int /\ \A o \in Orders : TakenBy(t)[o] = IF t[o] THEN Units[o] ELSE 0
<1>1. \A o \in Orders : TakenBy(t)[o] \in Int /\ TakenBy(t)[o] = IF t[o] THEN Units[o] ELSE 0
  BY UnitsAssumption DEF TakenBy
<1> QED
  BY <1>1, FinitenessAssumption, SumTakesAny DEF Taken

\* An order takes its units.
LEMMA TakenGrows ==
  ASSUME NEW t \in [Orders -> BOOLEAN], NEW o \in Orders, t[o] = FALSE
  PROVE  Taken([t EXCEPT ![o] = TRUE]) = Taken(t) + Units[o]
<1> DEFINE n == [t EXCEPT ![o] = TRUE]  f == TakenBy(t)  g == TakenBy(n)
<1>1. n \in [Orders -> BOOLEAN] /\ n[o] = TRUE /\ \A q \in Orders \ {o} : n[q] = t[q]
  OBVIOUS
<1> HIDE DEF n
<1>2. \A q \in Orders : /\ f[q] = IF t[q] THEN Units[q] ELSE 0
                        /\ g[q] = IF n[q] THEN Units[q] ELSE 0
                        /\ f[q] \in Int /\ g[q] \in Int
  BY <1>1, UnitsAssumption, TakenBounds
<1> HIDE DEF f, g
<1>3. \A q \in Orders \ {o} : g[q] = f[q]
  BY <1>1, <1>2
<1>4. SumFunctionOnSet(g, Orders) = SumFunctionOnSet(f, Orders) + g[o] - f[o]
  BY <1>2, <1>3, FinitenessAssumption, SumOfChanged
<1>5. f[o] = 0 /\ g[o] = Units[o] /\ SumFunctionOnSet(f, Orders) \in Int /\ Units[o] \in Int
  BY <1>1, <1>2, FinitenessAssumption, SumTakesAny, UnitsAssumption
<1> QED
  BY <1>4, <1>5 DEF Taken, f, g, n

-----------------------------------------------------------------------------
(* The books: both counters are exact, every unit is on hand or taken, what *)
(* online orders hold is on hand, and the next row of an order is a new one. *)

Books ==
  /\ level.reserved = Held(rows, Orders)
  /\ level.available = level.on_hand - level.reserved
  /\ level.on_hand + Taken(taken) = Stock
  /\ Held(rows, Online) <= level.on_hand
  /\ \A o \in Orders : rows[o] \subseteq 1..made[o]

Shapes == Stocked /\ taken \in [Orders -> BOOLEAN]

LEMMA ReservationIsBooked ==
  ASSUME Shapes, Shapes', Books, NEW o \in Orders, Reserve(o, level), taken' = taken,
         o \notin Online \/ level.available >= Units[o]
  PROVE  Books'
<1> DEFINE r == level.reserved + Units[o]  a == level.available - Units[o]
<1>1. rows \in RowSets /\ rows' \in RowSets /\ made[o] \in 0..MaxRows
  BY DEF Shapes, Stocked, RowSets
<1>2. /\ rows' = [rows EXCEPT ![o] = @ \union {made[o] + 1}] /\ made' = [made EXCEPT ![o] = @ + 1]
      /\ level' = [level EXCEPT !.reserved = r, !.available = a]
  BY DEF Reserve
<1>3. \A q \in Orders \ {o} : rows'[q] = rows[q] /\ made'[q] = made[q]
  BY <1>2
<1>4. rows'[o] = rows[o] \union {made[o] + 1} /\ made'[o] = made[o] + 1 /\ made[o] + 1 \notin rows[o]
  <2>1. rows[o] \subseteq 1..made[o]
    BY DEF Books
  <2>2. rows'[o] = rows[o] \union {made[o] + 1} /\ made'[o] = made[o] + 1
    BY <1>1, <1>2 DEF RowSets, Shapes, Stocked
  <2>3. made[o] + 1 \notin rows[o]
    BY <1>1, <2>1
  <2> QED
    BY <2>2, <2>3
<1>5. HeldBy(rows')[o] = HeldBy(rows)[o] + Units[o]
  <2>1. Cardinality(rows'[o]) = Cardinality(rows[o]) + 1
    <3>1. IsFiniteSet(rows[o])
      BY <1>1, HeldByIsNat
    <3>2. \A x : x \notin rows[o] => Cardinality(rows[o] \union {x}) = Cardinality(rows[o]) + 1
      BY <3>1, FS_AddElement
    <3> QED
      BY <1>4, <3>2
  <2>2. /\ HeldBy(rows')[o] = Units[o] * Cardinality(rows'[o])
        /\ HeldBy(rows)[o] = Units[o] * Cardinality(rows[o])
        /\ Cardinality(rows[o]) \in Nat /\ Units[o] \in Nat
    BY <1>1, HeldByIsNat
  <2>3. \A u, n \in Nat : u * (n + 1) = u * n + u
    OBVIOUS
  <2> QED
    BY <2>1, <2>2, <2>3
<1>6. /\ Held(rows', Orders) = Held(rows, Orders) + HeldBy(rows')[o] - HeldBy(rows)[o]
      /\ Held(rows', Online) = Held(rows, Online)
                               + IF o \in Online THEN HeldBy(rows')[o] - HeldBy(rows)[o] ELSE 0
  BY <1>1, <1>3, HeldChanges
<1>7. /\ Held(rows, Orders) \in Nat /\ Held(rows, Online) \in Nat /\ Held(rows, Online) <= Held(rows, Orders)
      /\ HeldBy(rows)[o] \in Nat /\ Units[o] \in Nat
  BY <1>1, HeldBounds, HeldByIsNat
<1>8. level.on_hand \in Nat /\ level.reserved \in Nat /\ level.available \in Int
  BY QuantitiesOf DEF Shapes, Stocked
<1>9. level'.on_hand = level.on_hand /\ level'.reserved = r /\ level'.available = a
  <2> HIDE DEF r, a
  <2> QED
    BY <1>2 DEF Shapes, Stocked, LevelType
<1>10. /\ level'.reserved = Held(rows', Orders) /\ level'.available = level'.on_hand - level'.reserved
       /\ level'.on_hand + Taken(taken') = Stock
  BY <1>5, <1>6, <1>7, <1>8, <1>9 DEF Books
<1>11. Held(rows', Online) <= level'.on_hand
  <2>1. CASE o \in Online
    <3>1. level.on_hand - Held(rows, Orders) >= Units[o]
      BY <2>1 DEF Books
    <3> QED
      BY <1>5, <1>6, <1>7, <1>8, <1>9, <2>1, <3>1
  <2>2. CASE o \notin Online
    BY <1>6, <1>7, <1>9, <2>2 DEF Books
  <2> QED
    BY <2>1, <2>2
<1>12. \A q \in Orders : rows'[q] \subseteq 1..made'[q]
  <2>1. rows'[o] \subseteq 1..made'[o]
    <3>1. rows[o] \subseteq 1..made[o]
      BY DEF Books
    <3> QED
      BY <1>1, <1>4, <3>1
  <2> QED
    BY <1>3, <2>1 DEF Books
<1> QED
  BY <1>10, <1>11, <1>12 DEF Books

\* Rows of one order go, and their units go back to the shelf.
LEMMA FreedIsExact ==
  ASSUME NEW lv \in LevelType, NEW n \in Nat, n <= lv.reserved
  PROVE  /\ Freed(lv, n).on_hand = lv.on_hand /\ Freed(lv, n).reserved = lv.reserved - n
         /\ Freed(lv, n).available = lv.available + n
<1> DEFINE r == NotNegative(lv.reserved - n)  a == lv.available + n
<1>1. r = lv.reserved - n
  BY QuantitiesOf DEF NotNegative
<1>2. Freed(lv, n) = [lv EXCEPT !.reserved = r, !.available = a] BY Zenon DEF Freed
<1> HIDE DEF r, a
<1>3. Freed(lv, n).on_hand = lv.on_hand /\ Freed(lv, n).reserved = r /\ Freed(lv, n).available = a
  BY <1>2 DEF LevelType
<1> QED
  BY <1>1, <1>3 DEF a

LEMMA SoldIsExact ==
  ASSUME NEW lv \in LevelType, NEW n \in Nat, n <= lv.on_hand, n <= lv.available
  PROVE  /\ Sold(lv, n).on_hand = lv.on_hand - n /\ Sold(lv, n).reserved = lv.reserved
         /\ Sold(lv, n).available = lv.available - n
<1> DEFINE h == NotNegative(lv.on_hand - n)  a == NotNegative(lv.available - n)
<1>1. h = lv.on_hand - n /\ a = lv.available - n
  BY QuantitiesOf DEF NotNegative
<1>2. Sold(lv, n) = [lv EXCEPT !.on_hand = h, !.available = a] BY Zenon DEF Sold
<1> HIDE DEF h, a
<1>3. Sold(lv, n).on_hand = h /\ Sold(lv, n).reserved = lv.reserved /\ Sold(lv, n).available = a
  BY <1>2 DEF LevelType
<1> QED
  BY <1>1, <1>3

LEMMA ShelfIsBooked ==
  ASSUME Shapes, Books, NEW o \in Orders, NEW s \in RowSets,
         \A q \in Orders \ {o} : s[q] = rows[q], NEW lv \in LevelType,
         HeldBy(s)[o] <= HeldBy(rows)[o],
         \/ lv = level /\ HeldBy(s)[o] = HeldBy(rows)[o]
         \/ lv = Freed(level, HeldBy(rows)[o] - HeldBy(s)[o])
  PROVE  /\ lv.on_hand = level.on_hand /\ lv.reserved = Held(s, Orders)
         /\ lv.available = lv.on_hand - lv.reserved
         /\ Held(s, Online) <= Held(rows, Online)
<1>1. rows \in RowSets /\ level \in LevelType
  BY DEF Shapes, Stocked, RowSets
<1>2. /\ Held(s, Orders) = Held(rows, Orders) + HeldBy(s)[o] - HeldBy(rows)[o]
      /\ Held(s, Online) = Held(rows, Online) + IF o \in Online THEN HeldBy(s)[o] - HeldBy(rows)[o] ELSE 0
  BY <1>1, HeldChanges
<1>3. /\ HeldBy(s)[o] \in Nat /\ HeldBy(rows)[o] \in Nat /\ HeldBy(rows)[o] <= Held(rows, Orders)
      /\ Held(rows, Orders) \in Nat /\ Held(rows, Online) \in Nat
  BY <1>1, HeldByIsNat, HeldBounds
<1>4. level.reserved = Held(rows, Orders) /\ level.available = level.on_hand - level.reserved
  BY DEF Books
<1>5. level.on_hand \in Nat /\ level.reserved \in Nat /\ level.available \in Int
  BY <1>1, QuantitiesOf
<1>6. Held(s, Online) <= Held(rows, Online)
  BY <1>2, <1>3
<1>7. CASE lv = level /\ HeldBy(s)[o] = HeldBy(rows)[o]
  BY <1>2, <1>3, <1>4, <1>6, <1>7
<1>8. CASE lv = Freed(level, HeldBy(rows)[o] - HeldBy(s)[o])
  <2> DEFINE n == HeldBy(rows)[o] - HeldBy(s)[o]
  <2>1. n \in Nat /\ n <= level.reserved /\ Held(s, Orders) = level.reserved - n
    BY <1>2, <1>3, <1>4
  <2>2. lv = Freed(level, n)
    BY <1>8
  <2> HIDE DEF n
  <2>3. lv.on_hand = level.on_hand /\ lv.reserved = level.reserved - n /\ lv.available = level.available + n
    BY <1>1, <2>1, <2>2, FreedIsExact
  <2> QED
    BY <1>4, <1>5, <1>6, <2>1, <2>3
<1> QED
  BY <1>7, <1>8

\* An order without rows holds nothing.
Emptied(o) == [rows EXCEPT ![o] = {}]

LEMMA EmptiedOrder ==
  ASSUME Shapes, Books, NEW o \in Orders
  PROVE  /\ Emptied(o) \in RowSets /\ \A q \in Orders \ {o} : Emptied(o)[q] = rows[q]
         /\ OnTheShelf(o) \in LevelType /\ OnTheShelf(o).on_hand = level.on_hand
         /\ OnTheShelf(o).reserved = Held(Emptied(o), Orders)
         /\ OnTheShelf(o).available = OnTheShelf(o).on_hand - OnTheShelf(o).reserved
         /\ Held(Emptied(o), Online) <= Held(rows, Online)
<1> DEFINE s == Emptied(o)
<1>1. rows \in RowSets /\ level \in LevelType
  BY DEF Shapes, Stocked, RowSets
<1>2. s \in RowSets /\ s[o] = {} /\ \A q \in Orders \ {o} : s[q] = rows[q]
  BY <1>1 DEF RowSets, Emptied
<1> HIDE DEF s
<1>3. HeldBy(s)[o] = 0
  <2>1. HeldBy(s)[o] = Units[o] * Cardinality({}) /\ Units[o] \in Nat
    BY <1>2, HeldByIsNat
  <2> QED
    BY <2>1, FS_EmptySet
<1>4. /\ HeldBy(rows)[o] \in Nat /\ HeldBy(rows)[o] = HeldUnits(o)
      /\ rows[o] = {} => HeldBy(rows)[o] = 0
  <2>1. HeldBy(rows)[o] \in Nat /\ HeldBy(rows)[o] = Units[o] * Cardinality(rows[o]) /\ Units[o] \in Nat
    BY <1>1, HeldByIsNat
  <2>2. Cardinality({}) = 0 /\ \A u \in Nat : u * 0 = 0
    BY FS_EmptySet
  <2>3. rows[o] = {} => HeldBy(rows)[o] = 0
    BY <2>1, <2>2
  <2>4. HeldUnits(o) = Units[o] * Cardinality(rows[o])
    BY DEF HeldUnits
  <2> QED
    BY <2>1, <2>3, <2>4, Zenon
<1>5. OnTheShelf(o) \in LevelType
  BY <1>1, <1>4, FreedTyped DEF OnTheShelf
<1>6. \/ OnTheShelf(o) = level /\ HeldBy(s)[o] = HeldBy(rows)[o]
      \/ OnTheShelf(o) = Freed(level, HeldBy(rows)[o] - HeldBy(s)[o])
  <2>1. HeldBy(rows)[o] - HeldBy(s)[o] = HeldUnits(o)
    BY <1>3, <1>4
  <2> QED
    BY <1>3, <1>4, <2>1 DEF OnTheShelf
<1>7. HeldBy(s)[o] <= HeldBy(rows)[o]
  BY <1>3, <1>4
<1> DEFINE lv == OnTheShelf(o)
<1>8. /\ lv.on_hand = level.on_hand /\ lv.reserved = Held(s, Orders)
      /\ lv.available = lv.on_hand - lv.reserved
      /\ Held(s, Online) <= Held(rows, Online)
  <2>1. lv \in LevelType /\ (\/ lv = level /\ HeldBy(s)[o] = HeldBy(rows)[o]
                             \/ lv = Freed(level, HeldBy(rows)[o] - HeldBy(s)[o]))
    BY <1>5, <1>6
  <2> HIDE DEF lv
  <2> QED
    BY <1>2, <1>7, <2>1, ShelfIsBooked
<1> QED
  BY <1>2, <1>5, <1>8 DEF s

LEMMA ReleaseIsBooked ==
  ASSUME Shapes, Books, NEW o \in Orders, ReleaseAll(o), taken' = taken
  PROVE  Books'
<1> DEFINE s == Emptied(o)
<1>1. rows' = s /\ made' = made /\ level' = OnTheShelf(o)
  BY DEF ReleaseAll, NoRows, OnTheShelf, Emptied
<1>2. /\ s \in RowSets /\ level'.on_hand = level.on_hand /\ level'.reserved = Held(s, Orders)
      /\ level'.available = level'.on_hand - level'.reserved
      /\ Held(s, Online) <= Held(rows, Online)
  BY <1>1, EmptiedOrder
<1>3. \A q \in Orders : s[q] \subseteq rows[q]
  BY DEF Shapes, Stocked, Emptied
<1> HIDE DEF s
<1>4. Held(s, Online) \in Nat /\ Held(rows, Online) \in Nat /\ level.on_hand \in Nat
  BY <1>2, HeldBounds, QuantitiesOf DEF Shapes, Stocked, RowSets
<1> QED
  BY <1>1, <1>2, <1>3, <1>4 DEF Books

LEMMA SaleIsBooked ==
  ASSUME Shapes, Books, NEW o \in Orders, Commit(o), taken[o] = FALSE, ~Blocked(o)
  PROVE  Books'
<1> DEFINE s == Emptied(o)  lv == OnTheShelf(o)
<1>1. /\ rows' = s /\ made' = made /\ level' = Sold(lv, Units[o])
      /\ taken' = [taken EXCEPT ![o] = TRUE] /\ lv.available >= Units[o]
  <2>1. lv.available \in Int /\ Units[o] \in Int
    BY EmptiedOrder, QuantitiesOf, UnitsAssumption
  <2> QED
    BY <2>1 DEF Commit, NoRows, Blocked, Emptied
<1>2. /\ s \in RowSets /\ lv \in LevelType /\ lv.on_hand = level.on_hand
      /\ lv.reserved = Held(s, Orders) /\ lv.available = lv.on_hand - lv.reserved
  BY EmptiedOrder
<1>3. \A q \in Orders : s[q] \subseteq rows[q]
  BY DEF Shapes, Stocked, Emptied
<1>4. Taken(taken') = Taken(taken) + Units[o] /\ Taken(taken) \in Int /\ Units[o] \in Nat
  BY <1>1, TakenGrows, TakenBounds, UnitsAssumption DEF Shapes
<1> HIDE DEF s, lv
<1>5. lv.on_hand \in Nat /\ lv.reserved \in Nat /\ lv.available \in Int
  BY <1>2, QuantitiesOf
<1>6. Units[o] <= lv.available /\ Units[o] <= lv.on_hand
  BY <1>1, <1>2, <1>4, <1>5
<1>7. /\ level'.on_hand = lv.on_hand - Units[o] /\ level'.reserved = lv.reserved
      /\ level'.available = lv.available - Units[o]
  BY <1>1, <1>2, <1>4, <1>6, SoldIsExact
<1>8. Held(s, Online) \in Nat /\ Held(s, Orders) \in Nat /\ Held(s, Online) <= Held(s, Orders)
  BY <1>2, HeldBounds
<1>9. Held(s, Online) <= level'.on_hand
  BY <1>2, <1>4, <1>5, <1>6, <1>7, <1>8
<1>10. level'.on_hand + Taken(taken') = Stock
  BY <1>2, <1>4, <1>5, <1>7 DEF Books
<1>11. level'.reserved = Held(s, Orders) /\ level'.available = level'.on_hand - level'.reserved
  BY <1>2, <1>4, <1>5, <1>7
<1> QED
  BY <1>1, <1>3, <1>9, <1>10, <1>11 DEF Books

\* Units of one row.
LEMMA ExpiryIsBooked ==
  ASSUME Shapes, Shapes', Books, NEW o \in Orders, NEW r \in rows[o], taken' = taken, made' = made,
         level' = Freed(level, Units[o]), rows' = [rows EXCEPT ![o] = @ \ {r}]
  PROVE  Books'
<1>1. rows \in RowSets /\ rows' \in RowSets /\ level' \in LevelType
  BY DEF Shapes, Stocked, RowSets
<1>2. rows'[o] = rows[o] \ {r} /\ \A q \in Orders \ {o} : rows'[q] = rows[q]
  BY <1>1 DEF RowSets
<1>3. Cardinality(rows'[o]) = Cardinality(rows[o]) - 1
  BY <1>1, <1>2, HeldByIsNat, FS_RemoveElement
<1>4. HeldBy(rows')[o] = HeldBy(rows)[o] - Units[o] /\ Units[o] \in Nat /\ HeldBy(rows)[o] \in Nat
  <2>1. /\ HeldBy(rows')[o] = Units[o] * Cardinality(rows'[o])
        /\ HeldBy(rows)[o] = Units[o] * Cardinality(rows[o]) /\ HeldBy(rows)[o] \in Nat
        /\ Cardinality(rows[o]) \in Nat /\ Units[o] \in Nat
    BY <1>1, HeldByIsNat
  <2>2. \A u, n \in Nat : u * (n - 1) = u * n - u
    OBVIOUS
  <2> QED
    BY <1>3, <2>1, <2>2
<1>5. /\ HeldBy(rows')[o] <= HeldBy(rows)[o]
      /\ level' = Freed(level, HeldBy(rows)[o] - HeldBy(rows')[o])
  <2>1. HeldBy(rows)[o] - HeldBy(rows')[o] = Units[o] /\ HeldBy(rows')[o] <= HeldBy(rows)[o]
    BY <1>4
  <2> QED
    BY <2>1
<1> DEFINE s == rows'  lv == level'
<1>6. /\ lv.on_hand = level.on_hand /\ lv.reserved = Held(s, Orders)
      /\ lv.available = lv.on_hand - lv.reserved /\ Held(s, Online) <= Held(rows, Online)
  <2>1. s \in RowSets /\ lv \in LevelType
    BY <1>1
  <2> QED
    BY <1>2, <1>5, <2>1, ShelfIsBooked
<1>7. Held(s, Online) \in Nat /\ Held(rows, Online) \in Nat /\ level.on_hand \in Nat
  BY <1>1, HeldBounds, QuantitiesOf DEF Shapes, Stocked
<1>8. \A q \in Orders : rows'[q] \subseteq 1..made[q]
  BY <1>2 DEF Books
<1> QED
  BY <1>6, <1>7, <1>8 DEF Books

-----------------------------------------------------------------------------
(* What a process has read of the stock is still so when it writes          *)

Ready(r) ==
  /\ r.pc \in {"reactivate", "reserve"} => r.level = level /\ level.available >= Units[r.o]
  /\ r.pc = "expire" => r.row \in rows[r.o]
AllReady == \A u \in Processes : req[u] # Idle => Ready(req[u])

Inventory == Settled /\ Books /\ AllReady
Balanced == Books' /\ AllReady'

LEMMA ReadyGoesOn ==
  ASSUME Settled, NEW u \in Processes, NEW r, Begin(u, r),
         \A v \in Processes \ {u} : req[v] = Idle, r = Idle \/ Ready(r)'
  PROVE  AllReady'
<1>1. req'[u] = r /\ \A v \in Processes \ {u} : req'[v] = Idle
  BY DEF Begin, Settled, Typed, Requests
<1> QED
  BY <1>1 DEF AllReady, Ready

Plain(r) == r.pc \notin {"reactivate", "reserve", "expire"}
StockStays == UNCHANGED <<taken, level, rows, made>>

LEMMA PlainStepBalances ==
  ASSUME Inventory, StockStays, NEW u \in Processes, NEW r, Begin(u, r), r = Idle \/ Plain(r),
         \A v \in Processes \ {u} : req[v] = Idle
  PROVE  Balanced
<1>1. r = Idle \/ Ready(r)'
  BY DEF Ready, Plain
<1> QED
  BY <1>1, ReadyGoesOn DEF Inventory, StockStays, Books, Balanced

LEMMA OpsArePlain ==
  ASSUME NEW pc \in Ops, NEW o PROVE Plain(Snapshot(pc, o))
<1>1. Snapshot(pc, o).pc = pc
  BY DEF Snapshot
<1> QED
  BY <1>1 DEF Plain, Ops

LEMMA PlacementBalances ==
  ASSUME "overlap" \notin Env, Inventory, Shapes', NEW o \in Orders, PlaceAtPos(o) \/ Checkout(o)
  PROVE  Balanced
<1>1. \A v \in Processes : req'[v] = Idle
  BY DEF PlaceAtPos, Checkout, Undisturbed, On, Inventory, Settled, Typed, Requests
<1>2. \/ StockStays
      \/ Reserve(o, level) /\ taken' = taken /\ (o \notin Online \/ level.available >= Units[o])
  BY DEF PlaceAtPos, Checkout, stock, StockStays, MayReserve
<1>3. Shapes
  BY DEF Inventory, Settled, Typed, Tables, Shapes
<1>4. Books'
  BY <1>2, <1>3, ReservationIsBooked DEF Inventory, StockStays, Books
<1> QED
  BY <1>1, <1>4 DEF Balanced, AllReady

LEMMA UserReadBalances ==
  ASSUME "overlap" \notin Env, Inventory, NEW u \in Users, NEW o \in Orders,
         (\E op \in Ops : Read(u, op, o)) \/ ReactivateRead(u, o)
  PROVE  Balanced
<1>1. u \in Processes /\ \A v \in Processes \ {u} : req[v] = Idle
  BY DEF Read, ReactivateRead, Undisturbed, On, Inventory, Settled, Typed, Requests, Processes
<1>2. StockStays
  BY DEF Read, ReactivateRead, stock, StockStays
<1>3. ASSUME NEW op \in Ops, Read(u, op, o) PROVE Balanced
  BY <1>1, <1>2, <1>3, OpsArePlain, PlainStepBalances DEF Read
<1>4. CASE ReactivateRead(u, o)
  <2>1. PICK r : /\ Begin(u, r) /\ r.pc = "reactivate" /\ r.o = o
                 /\ r.level = level /\ level.available >= Units[o]
    <3> DEFINE q == [pc |-> "reactivate", o |-> o, level |-> level,
                     to |-> IF prev[o] = "none" THEN "pending_payment" ELSE prev[o]]
    <3>1. q.pc = "reactivate" /\ q.o = o /\ q.level = level /\ level.available >= Units[o] /\ Begin(u, q)
      BY <1>4 DEF ReactivateRead
    <3> HIDE DEF q
    <3> QED
      BY <3>1
  <2>2. Ready(r)'
    BY <1>2, <2>1 DEF Ready, StockStays
  <2>3. AllReady'
    BY <1>1, <2>1, <2>2, ReadyGoesOn DEF Inventory
  <2> QED
    BY <1>2, <2>3 DEF Balanced, Inventory, Books, StockStays
<1> QED
  BY <1>3, <1>4

LEMMA JobReadBalances ==
  ASSUME "overlap" \notin Env, Inventory, NEW o \in Orders,
         \/ HookHears(o) \/ PollReads(o) \/ TimeoutReads(o) \/ FinisherReads(o)
         \/ \E r \in Rows : ExpirerReads(o, r)
  PROVE  Balanced
<1>1. \A v \in Processes : req[v] = Idle
  BY DEF HookHears, PollReads, TimeoutReads, FinisherReads, ExpirerReads, Undisturbed, On,
         Inventory, Settled, Typed, Requests
<1>2. Jobs \subseteq Processes /\ {"hook", "poll", "timeout", "finisher", "expirer"} \subseteq Processes
  BY DEF Processes, Jobs
<1>3. StockStays
  BY DEF HookHears, PollReads, TimeoutReads, FinisherReads, ExpirerReads, stock, StockStays
<1>4. CASE HookHears(o) \/ PollReads(o) \/ TimeoutReads(o)
  <2>1. Plain([pc |-> "apply", o |-> o]) /\ Plain([pc |-> "timeout", o |-> o])
    BY DEF Plain
  <2> QED
    BY <1>1, <1>2, <1>3, <1>4, <2>1, PlainStepBalances DEF HookHears, PollReads, TimeoutReads
<1>5. CASE FinisherReads(o)
  <2>1. Plain(Snapshot("finish", o))
    BY OpsArePlain DEF Ops
  <2> QED
    BY <1>1, <1>2, <1>3, <1>5, <2>1, PlainStepBalances DEF FinisherReads
<1>6. ASSUME NEW r \in Rows, ExpirerReads(o, r) PROVE Balanced
  <2>1. Begin("expirer", [pc |-> "expire", o |-> o, row |-> r]) /\ r \in rows[o]
    BY <1>6 DEF ExpirerReads
  <2>2. Ready([pc |-> "expire", o |-> o, row |-> r])'
    BY <1>3, <2>1 DEF Ready, StockStays
  <2>3. AllReady'
    BY <1>1, <1>2, <2>1, <2>2, ReadyGoesOn DEF Inventory
  <2> QED
    BY <1>3, <2>3 DEF Balanced, Inventory, Books, StockStays
<1> QED
  BY <1>4, <1>5, <1>6

-----------------------------------------------------------------------------
(* The other steps *)

LEMMA BooksStay ==
  ASSUME Books, StockStays PROVE Books'
  BY DEF Books, StockStays

\* What the process at work goes on with, if anything, is plain.
LEMMA PlainWorkBalances ==
  ASSUME Inventory, NEW u \in Processes, req[u].pc # "idle", StockStays,
         \E r : Begin(u, r) /\ (r = Idle \/ Plain(r))
  PROVE  Balanced
<1>1. \A v \in Processes \ {u} : req[v] = Idle
  BY AloneAtWork DEF Inventory
<1> QED
  BY <1>1, PlainStepBalances

LEMMA PayBalances ==
  ASSUME Inventory, NEW u \in Processes,
         PayClaim(u) \/ PayRefused(u) \/ PayOnline(u) \/ PayDirect(u)
  PROVE  Balanced
<1>1. req[u].pc # "idle" /\ StockStays
  BY DEF PayClaim, PayRefused, PayOnline, PayDirect, At, stock, StockStays
<1>2. \A o, p : Plain([pc |-> "claimed", o |-> o]) /\ Plain([pc |-> "paid", o |-> o, p |-> p])
  BY DEF Plain
<1>3. \E r : Begin(u, r) /\ (r = Idle \/ Plain(r))
  BY <1>2 DEF PayClaim, PayRefused, PayOnline, PayDirect, Done
<1> QED
  BY <1>1, <1>3, PlainWorkBalances

LEMMA MovingBalances ==
  ASSUME Inventory, NEW u \in Processes, Move(u) \/ ConfirmState(u) \/ ConfirmPayment(u) \/ CancelPayment(u)
  PROVE  Balanced
<1>1. req[u].pc # "idle" /\ StockStays
  BY DEF Move, ConfirmState, ConfirmPayment, CancelPayment, At, stock, StockStays
<1>2. \A o : Plain([pc |-> "confirmed", o |-> o])
  BY DEF Plain
<1>3. \E r : Begin(u, r) /\ (r = Idle \/ Plain(r))
  BY <1>2 DEF Move, ConfirmState, ConfirmPayment, CancelPayment, Done
<1> QED
  BY <1>1, <1>3, PlainWorkBalances

LEMMA GatewayWorkBalances ==
  ASSUME Inventory, NEW w \in Processes, Apply(w) \/ ThenReads(w) PROVE Balanced
<1>1. req[w].pc # "idle" /\ StockStays
  BY DEF Apply, ThenReads, At, stock, StockStays
<1>2. \A o : /\ Plain([pc |-> "then_cancel", o |-> o]) /\ Plain([pc |-> "then_confirm", o |-> o])
            /\ Plain(Snapshot("confirm", o)) /\ Plain(Snapshot("cancel", o))
  BY OpsArePlain DEF Plain, Ops
<1>3. \E r : Begin(w, r) /\ (r = Idle \/ Plain(r))
  <2>1. CASE Apply(w)
    BY <1>2, <2>1 DEF Apply
  <2>2. CASE ThenReads(w)
    BY <1>2, <2>2 DEF ThenReads
  <2> QED
    BY <2>1, <2>2
<1> QED
  BY <1>1, <1>3, PlainWorkBalances

\* The process at work ends, and the books were balanced by its step.
LEMMA EndBalances ==
  ASSUME Inventory, NEW u \in Processes, req[u] # Idle, Done(u), Books'
  PROVE  Balanced
<1>1. \A v \in Processes \ {u} : req[v] = Idle
  BY DEF Inventory, Settled, Turns
<1> QED
  BY <1>1, ReadyGoesOn DEF Inventory, Balanced, Done

LEMMA ShapesOf == Inventory => Shapes /\ Books
  BY DEF Inventory, Settled, Typed, Tables, Shapes

LEMMA CommittingBalances ==
  ASSUME Inventory, NEW u \in Processes, PayEnds(u) \/ Finish(u) PROVE Balanced
<1>1. PICK o \in Orders : req[u].o = o /\ taken[o] = FALSE
  BY OpenAtWork DEF Inventory, PayEnds, Finish, At, Writing, Ops
<1>2. req[u] # Idle /\ Done(u)
  BY DEF PayEnds, Finish, At, Idle
<1>3. StockStays \/ (Commit(o) /\ ~Blocked(o))
  BY <1>1 DEF PayEnds, Finish, StockStays, stock
<1>4. Books'
  BY <1>1, <1>3, ShapesOf, BooksStay, SaleIsBooked
<1> QED
  BY <1>2, <1>4, EndBalances

LEMMA CancellingBalances ==
  ASSUME Inventory, NEW u \in Processes, CancelClaim(u) \/ CancelRelease(u) PROVE Balanced
<1>1. CASE CancelClaim(u)
  <2>1. req[u].pc # "idle" /\ StockStays
    BY <1>1 DEF CancelClaim, At, stock, StockStays
  <2>2. \A o : Plain([pc |-> "release", o |-> o])
    BY DEF Plain
  <2>3. \E r : Begin(u, r) /\ (r = Idle \/ Plain(r))
    BY <1>1, <2>2 DEF CancelClaim, Done
  <2> QED
    BY <2>1, <2>3, PlainWorkBalances
<1>2. CASE CancelRelease(u)
  <2>1. PICK o \in Orders : req[u].o = o
    BY <1>2, AloneAtWork DEF CancelRelease, At, Inventory
  <2>2. req[u] # Idle /\ Done(u) /\ ReleaseAll(o) /\ taken' = taken
    BY <1>2, <2>1 DEF CancelRelease, At, Idle
  <2> QED
    BY <2>2, ShapesOf, ReleaseIsBooked, EndBalances
<1> QED
  BY <1>1, <1>2

\* The level that was read is the level.
LEMMA ReactivatingBalances ==
  ASSUME Inventory, Shapes', NEW u \in Processes, ReactivateState(u) \/ ReactivateStock(u)
  PROVE  Balanced
<1>1. /\ req[u] # Idle /\ req[u].o \in Orders /\ req[u].level = level
      /\ level.available >= Units[req[u].o] /\ \A v \in Processes \ {u} : req[v] = Idle
  <2>1. req[u].pc \in {"reactivate", "reserve"} /\ req[u].pc # "idle" /\ req[u] # Idle
    BY DEF ReactivateState, ReactivateStock, At, Idle
  <2> QED
    BY <2>1, AloneAtWork DEF Inventory, AllReady, Ready
<1>2. CASE ReactivateState(u)
  <2>1. StockStays
    BY <1>2 DEF ReactivateState, stock, StockStays
  <2>2. PICK r : /\ Begin(u, r) /\ r.pc = "reserve" /\ r.o = req[u].o /\ r.level = req[u].level
    BY <1>2 DEF ReactivateState
  <2>3. Ready(r)'
    BY <1>1, <2>1, <2>2 DEF Ready, StockStays
  <2>4. AllReady'
    BY <1>1, <2>2, <2>3, ReadyGoesOn DEF Inventory
  <2> QED
    BY <2>1, <2>4, BooksStay DEF Inventory, Balanced
<1>3. CASE ReactivateStock(u)
  <2>1. Reserve(req[u].o, level) /\ Done(u) /\ taken' = taken
    BY <1>1, <1>3 DEF ReactivateStock
  <2>2. Books'
    BY <1>1, <2>1, ShapesOf, ReservationIsBooked
  <2> QED
    BY <1>1, <2>1, <2>2, EndBalances
<1> QED
  BY <1>2, <1>3

LEMMA JobWriteBalances ==
  ASSUME Inventory, Shapes', TimeoutCancels \/ Expires PROVE Balanced
<1>1. "timeout" \in Processes /\ "expirer" \in Processes
  BY DEF Processes, Jobs
<1>2. CASE TimeoutCancels
  <2>1. PICK o \in Orders : req["timeout"].o = o
    BY <1>1, <1>2, AloneAtWork DEF TimeoutCancels, At, Inventory
  <2>2. req["timeout"] # Idle /\ Done("timeout") /\ ReleaseAll(o) /\ taken' = taken
    BY <1>2, <2>1 DEF TimeoutCancels, At, Idle
  <2> QED
    BY <1>1, <2>2, ShapesOf, ReleaseIsBooked, EndBalances
<1>3. CASE Expires
  <2>1. req["expirer"].pc = "expire" /\ req["expirer"] # Idle /\ req["expirer"].pc # "idle"
    BY <1>3 DEF Expires, At, Idle
  <2>2. PICK o \in Orders : req["expirer"].o = o
    BY <1>1, <2>1, AloneAtWork DEF Inventory
  <2>3. PICK r \in rows[o] : req["expirer"].row = r
    BY <1>1, <2>1, <2>2 DEF Inventory, AllReady, Ready
  <2>4. /\ Done("expirer") /\ taken' = taken /\ made' = made
        /\ level' = Freed(level, Units[o]) /\ rows' = [rows EXCEPT ![o] = @ \ {r}]
    BY <1>3, <2>2, <2>3 DEF Expires
  <2>5. Books'
    BY <2>4, ShapesOf, ExpiryIsBooked
  <2> QED
    BY <1>1, <2>1, <2>4, <2>5, EndBalances
<1> QED
  BY <1>2, <1>3

LEMMA NothingDoneBalances ==
  ASSUME Inventory, StockStays, UNCHANGED req PROVE Balanced
  BY BooksStay DEF Inventory, Balanced, AllReady, Ready, StockStays

LEMMA CrashBalances ==
  ASSUME Inventory, NEW u \in Processes, Crash(u) PROVE Balanced
<1>1. req[u] # Idle /\ Done(u) /\ StockStays
  BY DEF Crash, stock, StockStays
<1> QED
  BY <1>1, BooksStay, EndBalances DEF Inventory

LEMMA ProcessBalances ==
  ASSUME Inventory, Shapes', NEW u \in Processes, Works(u) PROVE Balanced
  BY PayBalances, MovingBalances, GatewayWorkBalances, CommittingBalances, CancellingBalances,
     ReactivatingBalances DEF Works, Step

LEMMA StepBalances ==
  ASSUME "overlap" \notin Env PROVE Inventory /\ [Next]_vars => Inventory'
<1> SUFFICES ASSUME Inventory, [Next]_vars PROVE Balanced
  BY StepIsKept DEF Inventory, Balanced
<1>1. Shapes'
  BY StepTyped DEF Inventory, Settled, Typed, Tables, Shapes
<1>2. CASE UNCHANGED vars
  BY <1>2, NothingDoneBalances DEF vars, stock, StockStays
<1>3. Users \subseteq Processes /\ {"hook", "poll", "finisher"} \subseteq Processes
  BY DEF Processes, Jobs
<1>4. CASE \E o \in Orders : PlaceAtPos(o) \/ Checkout(o)
  BY <1>1, <1>4, PlacementBalances
<1>5. CASE \E u \in Users, o \in Orders : ReactivateRead(u, o) \/ \E op \in Ops : Read(u, op, o)
  BY <1>5, UserReadBalances
<1>6. CASE (\E u \in Users : Step(u)) \/ Works("hook") \/ Works("poll") \/ Finish("finisher")
  BY <1>1, <1>3, <1>6, ProcessBalances DEF Works, Step
<1>7. CASE \E o \in Orders : HookHears(o) \/ PollReads(o) \/ TimeoutReads(o) \/ FinisherReads(o)
             \/ \E r \in Rows : ExpirerReads(o, r)
  BY <1>7, JobReadBalances
<1>8. CASE \E o \in Orders, answer \in {"approved", "declined"} : Decides(o, answer)
  BY <1>8, NothingDoneBalances DEF Decides, stock, StockStays
<1>9. CASE TimeoutCancels \/ Expires
  BY <1>1, <1>9, JobWriteBalances
<1>10. CASE \E u \in Users \union Jobs : Crash(u)
  BY <1>10, CrashBalances DEF Processes
<1> QED
  BY <1>2, <1>4, <1>5, <1>6, <1>7, <1>8, <1>9, <1>10 DEF Next

LEMMA StartBalances == Init => Inventory
<1> SUFFICES ASSUME Init PROVE Inventory
  OBVIOUS
<1>1. Settled /\ Shapes
  BY StartIsSettled DEF Settled, Typed, Tables, Shapes
<1>2. Held(rows, Orders) = 0 /\ Held(rows, Online) = 0
  <2>1. \A o \in Orders : HeldBy(rows)[o] = 0
    <3>1. ASSUME NEW o \in Orders PROVE HeldBy(rows)[o] = 0
      <4>1. rows \in RowSets /\ rows[o] = {}
        BY <1>1 DEF Init, Shapes, Stocked, RowSets
      <4>2. HeldBy(rows)[o] = Units[o] * Cardinality({}) /\ Units[o] \in Nat
        BY <4>1, HeldByIsNat
      <4> QED
        BY <4>2, FS_EmptySet
    <3> QED
      BY <3>1
  <2>2. IsFiniteSet(Orders) /\ IsFiniteSet(Online) /\ Online \subseteq Orders
    BY FinitenessAssumption, KindsAssumption, FS_Subset
  <2> QED
    BY <2>1, <2>2, SumOfZeros DEF Held
<1>3. Taken(taken) = 0
  <2>1. \A o \in Orders : TakenBy(taken)[o] = 0
    BY DEF Init, TakenBy
  <2> QED
    BY <2>1, FinitenessAssumption, SumOfZeros DEF Taken
<1>4. level.on_hand = Stock /\ level.reserved = 0 /\ level.available = Stock /\ Stock \in Nat
  BY UnitsAssumption DEF Init, Opening
<1>5. \A o \in Orders : rows[o] \subseteq 1..made[o]
  BY DEF Init
<1>6. AllReady
  BY DEF Init, AllReady, Processes
<1> QED
  BY <1>1, <1>2, <1>3, <1>4, <1>5, <1>6 DEF Inventory, Books

-----------------------------------------------------------------------------
\* When requests and jobs take turns, the reserved counter of the stock level is
\* the sum of the reservations still active, for any orders, stock and bounds,
\* whatever was sold, released, expired or cut off by a restart on the way.
THEOREM ReservedIsActiveHolds == ASSUME "overlap" \notin Env PROVE Spec => []ReservedIsActive
<1>1. Inventory => ReservedIsActive
  BY SumsOfModel DEF Inventory, Books, ReservedIsActive
<1> QED
  BY <1>1, StartBalances, StepBalances, PTL DEF Spec

\* When requests and jobs take turns, the till sells no unit that an online order
\* holds, for any orders and stock, also where the POS may oversell: what the
\* online orders reserved is on hand until they take it or let it go.
THEOREM OnlineIsBackedHolds == ASSUME "overlap" \notin Env PROVE Spec => []OnlineIsBacked
<1>1. Inventory => OnlineIsBacked
  BY SumsOfModel DEF Inventory, Books, OnlineIsBacked
<1> QED
  BY <1>1, StartBalances, StepBalances, PTL DEF Spec

\* When requests and jobs take turns, each unit is on hand or was taken by one
\* order, once: finishing, reversing, cancelling and reactivating neither lose
\* a unit nor take one twice, and no clipping at zero hides a difference.
THEOREM UnitsConservedHolds == ASSUME "overlap" \notin Env PROVE Spec => []UnitsConserved
<1>1. Inventory => UnitsConserved
  BY SumsOfModel DEF Inventory, Books, UnitsConserved
<1> QED
  BY <1>1, StartBalances, StepBalances, PTL DEF Spec

-----------------------------------------------------------------------------
(* What holds when requests and jobs overlap too *)

\* What is on hand and what the orders took is never less than what there was:
\* where overlapping writes are wrong, they promise units that do not exist.
NothingVanishes ==
  Stock <= level.on_hand + MapThenSumSet(LAMBDA o : IF taken[o] THEN Units[o] ELSE 0, Orders)

\* The only step that moves the units on hand takes the units of one order that
\* had taken none, down to zero at most.
Takes(o) ==
  /\ taken[o] = FALSE /\ taken' = [taken EXCEPT ![o] = TRUE]
  /\ level'.on_hand = NotNegative(level.on_hand - Units[o])
TakesAtMostOne == (taken' = taken /\ level'.on_hand = level.on_hand) \/ \E o \in Orders : Takes(o)

LEMMA SameOnHand ==
  ASSUME NEW lv \in LevelType, NEW q \in Nat
  PROVE  /\ Freed(lv, q).on_hand = lv.on_hand /\ Consumed(lv, q).on_hand = lv.on_hand
         /\ Sold(lv, q).on_hand = NotNegative(lv.on_hand - q)
<1> DEFINE r == NotNegative(lv.reserved - q)  a == lv.available + q  b == NotNegative(lv.on_hand - r)
           h == NotNegative(lv.on_hand - q)  c == NotNegative(lv.available - q)
<1>1. /\ Freed(lv, q) = [lv EXCEPT !.reserved = r, !.available = a]
      /\ Consumed(lv, q) = [lv EXCEPT !.reserved = r, !.available = b]
      /\ Sold(lv, q) = [lv EXCEPT !.on_hand = h, !.available = c]
  BY Zenon DEF Freed, Consumed, Sold
<1> HIDE DEF r, a, b, h, c
<1>2. Freed(lv, q).on_hand = lv.on_hand /\ Consumed(lv, q).on_hand = lv.on_hand /\ Sold(lv, q).on_hand = h
  BY <1>1 DEF LevelType
<1> QED
  BY <1>2 DEF h

LEMMA CommitTakes ==
  ASSUME Typed, NEW o \in Orders, Commit(o) PROVE TakesAtMostOne
<1>1. level \in LevelType /\ HeldUnits(o) \in Nat /\ Units[o] \in Nat /\ taken \in [Orders -> BOOLEAN]
  BY HeldIsNat, UnitsAssumption DEF Typed, Stocked, Tables
<1>2. /\ OnTheShelf(o) \in LevelType /\ OnTheShelf(o).on_hand = level.on_hand
      /\ Consumed(level, HeldUnits(o)).on_hand = level.on_hand
  BY <1>1, SameOnHand, FreedTyped DEF OnTheShelf
<1>3. CASE taken[o]
  <2>1. taken' = taken
    BY <1>1, <1>3 DEF Commit
  <2>2. level'.on_hand = level.on_hand
    BY <1>2, <1>3 DEF Commit
  <2> QED
    BY <2>1, <2>2 DEF TakesAtMostOne
<1>4. CASE taken[o] = FALSE
  <2>1. taken' = [taken EXCEPT ![o] = TRUE] /\ level' = Sold(OnTheShelf(o), Units[o])
    BY <1>4 DEF Commit
  <2>2. level'.on_hand = NotNegative(level.on_hand - Units[o])
    BY <1>1, <1>2, <2>1, SameOnHand
  <2> QED
    BY <1>4, <2>1, <2>2 DEF TakesAtMostOne, Takes
<1> QED
  BY <1>1, <1>3, <1>4

LEMMA OthersTakeNothing ==
  ASSUME Typed, taken' = taken,
         level' = level
         \/ \E o \in Orders : ReleaseAll(o) \/ level' = Freed(level, Units[o])
                              \/ \E read \in LevelType : Reserve(o, read)
  PROVE  TakesAtMostOne
<1>1. level \in LevelType /\ \A o \in Orders : HeldUnits(o) \in Nat /\ Units[o] \in Nat
  BY HeldIsNat, UnitsAssumption DEF Typed, Stocked
<1>2. ASSUME NEW o \in Orders, ReleaseAll(o) \/ level' = Freed(level, Units[o])
      PROVE level'.on_hand = level.on_hand
  BY <1>1, <1>2, SameOnHand DEF ReleaseAll
<1>3. ASSUME NEW o \in Orders, NEW read \in LevelType, Reserve(o, read)
      PROVE level'.on_hand = level.on_hand
  BY <1>1, <1>3 DEF Reserve, LevelType
<1> QED
  BY <1>2, <1>3 DEF TakesAtMostOne

LEMMA WorkTakes ==
  ASSUME Typed, NEW u \in Processes, Works(u) PROVE TakesAtMostOne
<1>1. CASE \/ Apply(u) \/ ThenReads(u) \/ Move(u) \/ PayClaim(u) \/ PayRefused(u) \/ PayOnline(u)
           \/ PayDirect(u) \/ ConfirmPayment(u) \/ ConfirmState(u) \/ CancelPayment(u)
           \/ CancelClaim(u) \/ ReactivateState(u)
  <2>1. taken' = taken /\ level' = level
    BY <1>1 DEF Apply, ThenReads, Move, PayClaim, PayRefused, PayOnline, PayDirect, ConfirmPayment,
           ConfirmState, CancelPayment, CancelClaim, ReactivateState, stock
  <2> QED
    BY <2>1 DEF TakesAtMostOne
<1>2. CASE PayEnds(u) \/ Finish(u)
  <2>1. PICK o \in Orders : req[u].o = o
    BY <1>2, Busy DEF PayEnds, Finish, At
  <2>2. Commit(o) \/ (taken' = taken /\ level' = level)
    BY <1>2, <2>1 DEF PayEnds, Finish, stock
  <2> QED
    BY <2>2, CommitTakes DEF TakesAtMostOne
<1>3. CASE CancelRelease(u)
  <2>1. req[u].o \in Orders /\ taken' = taken /\ ReleaseAll(req[u].o)
    BY <1>3, Busy DEF CancelRelease, At
  <2> QED
    BY <2>1, OthersTakeNothing
<1>4. CASE ReactivateStock(u)
  <2>1. /\ req[u].o \in Orders /\ req[u].level \in LevelType /\ taken' = taken
        /\ Reserve(req[u].o, req[u].level)
    BY <1>4, Busy DEF ReactivateStock, At, Carried
  <2> QED
    BY <2>1, OthersTakeNothing
<1> QED
  BY <1>1, <1>2, <1>3, <1>4 DEF Works, Step

LEMMA StepTakes == Typed /\ [Next]_vars => TakesAtMostOne
<1> SUFFICES ASSUME Typed, [Next]_vars PROVE TakesAtMostOne
  OBVIOUS
<1>1. Users \subseteq Processes /\ {"hook", "poll", "finisher", "timeout", "expirer"} \subseteq Processes
  BY DEF Processes, Jobs
<1>2. CASE \E o \in Orders : PlaceAtPos(o) \/ Checkout(o)
  <2>1. PICK o \in Orders : PlaceAtPos(o) \/ Checkout(o)
    BY <1>2
  <2>2. taken' = taken /\ (level' = level \/ Reserve(o, level)) /\ level \in LevelType
    BY <2>1 DEF PlaceAtPos, Checkout, stock, Typed, Stocked
  <2> QED
    BY <2>2, OthersTakeNothing
<1>3. CASE (\E u \in Users : Step(u)) \/ Works("hook") \/ Works("poll") \/ Finish("finisher")
  BY <1>1, <1>3, WorkTakes DEF Works, Step
<1>4. CASE \/ UNCHANGED vars
           \/ \E u \in Users, o \in Orders : ReactivateRead(u, o) \/ \E op \in Ops : Read(u, op, o)
           \/ \E o \in Orders : HookHears(o) \/ PollReads(o) \/ TimeoutReads(o) \/ FinisherReads(o)
                                \/ \E r \in Rows : ExpirerReads(o, r)
           \/ \E o \in Orders, answer \in {"approved", "declined"} : Decides(o, answer)
           \/ \E u \in Users \union Jobs : Crash(u)
  <2>1. taken' = taken /\ level' = level
    BY <1>4 DEF vars, stock, ReactivateRead, Read, HookHears, PollReads, TimeoutReads, FinisherReads,
                ExpirerReads, Decides, Crash
  <2> QED
    BY <2>1 DEF TakesAtMostOne
<1>5. CASE TimeoutCancels
  <2>1. req["timeout"].o \in Orders /\ taken' = taken /\ ReleaseAll(req["timeout"].o)
    BY <1>1, <1>5, Busy DEF TimeoutCancels, At
  <2> QED
    BY <2>1, OthersTakeNothing
<1>6. CASE Expires
  <2>1. req["expirer"].o \in Orders /\ taken' = taken /\ level' = Freed(level, Units[req["expirer"].o])
    BY <1>1, <1>6, Busy DEF Expires, At
  <2> QED
    BY <2>1, OthersTakeNothing
<1> QED
  BY <1>2, <1>3, <1>4, <1>5, <1>6 DEF Next

\* What is counted when units are taken.
LEMMA Counts ==
  ASSUME Typed
  PROVE  /\ level.on_hand \in Nat /\ Taken(taken) \in Int /\ Stock \in Nat
         /\ taken \in [Orders -> BOOLEAN] /\ \A o \in Orders : Units[o] \in Nat
  BY QuantitiesOf, TakenBounds, UnitsAssumption DEF Typed, Stocked, Tables

LEMMA StartCounts == Init => Typed /\ level.on_hand + Taken(taken) = Stock
  BY StartTyped, StartBalances DEF Inventory, Books

LEMMA TakenBySome ==
  ASSUME NEW t \in [Orders -> BOOLEAN] PROVE Taken(t) <= SumFunctionOnSet(Units, Orders)
<1>1. \A o \in Orders : TakenBy(t)[o] \in Int /\ Units[o] \in Int /\ TakenBy(t)[o] <= Units[o]
  BY UnitsAssumption, TakenBounds
<1> HIDE DEF TakenBy
<1> QED
  BY <1>1, FinitenessAssumption, SumOfLess DEF Taken

\* In every environment, also where requests and jobs overlap and write what they
\* read before: no unit leaves the shelf that no order took, and what an order
\* took stays taken.
THEOREM NothingVanishesHolds == Spec => []NothingVanishes
<1> DEFINE Lasting == Typed /\ Stock <= level.on_hand + Taken(taken)
<1>1. Init => Lasting
  BY StartCounts, UnitsAssumption
<1>2. Lasting /\ [Next]_vars => Lasting'
  <2> SUFFICES ASSUME Lasting, [Next]_vars PROVE Lasting'
    OBVIOUS
  <2>1. Typed' /\ TakesAtMostOne
    BY StepTyped, StepTakes
  <2>2. ASSUME NEW o \in Orders, Takes(o) PROVE Stock <= level'.on_hand + Taken(taken')
    <3>1. Taken(taken') = Taken(taken) + Units[o]
      BY <2>2, Counts, TakenGrows DEF Takes
    <3> QED
      BY <2>2, <3>1, Counts DEF Takes, NotNegative
  <2> QED
    BY <2>1, <2>2 DEF TakesAtMostOne
<1>3. Lasting => NothingVanishes
  BY SumsOfModel DEF NothingVanishes
<1> QED
  BY <1>1, <1>2, <1>3, PTL DEF Spec

\* In every environment, when the stock covers the orders: each unit is on hand
\* or was taken by one order, once, whichever finishes, reversals, cancellations
\* and reactivations race.  Only where more was ordered than there is can a stale
\* quantity let an order take what another took.
THEOREM UnitsConservedInRaces ==
  ASSUME SumFunctionOnSet(Units, Orders) <= Stock PROVE Spec => []UnitsConserved
<1> DEFINE Exact == Typed /\ level.on_hand + Taken(taken) = Stock
<1>1. Init => Exact
  BY StartCounts
<1>2. Exact /\ [Next]_vars => Exact'
  <2> SUFFICES ASSUME Exact, [Next]_vars PROVE Exact'
    OBVIOUS
  <2>1. Typed' /\ TakesAtMostOne
    BY StepTyped, StepTakes
  <2>2. ASSUME NEW o \in Orders, Takes(o) PROVE level'.on_hand + Taken(taken') = Stock
    <3>1. Taken(taken') = Taken(taken) + Units[o]
      BY <2>2, Counts, TakenGrows DEF Takes
    <3>2. Taken(taken') <= SumFunctionOnSet(Units, Orders)
      BY <2>1, TakenBySome DEF Typed, Tables
    <3>3. SumFunctionOnSet(Units, Orders) \in Int
      BY FinitenessAssumption, UnitsAssumption, SumTakesAny
    <3>4. Units[o] <= level.on_hand
      BY <3>1, <3>2, <3>3, Counts
    <3> QED
      BY <2>2, <3>1, <3>4, Counts DEF Takes, NotNegative
  <2> QED
    BY <2>1, <2>2 DEF TakesAtMostOne
<1>3. Exact => UnitsConserved
  BY SumsOfModel DEF UnitsConserved
<1> QED
  BY <1>1, <1>2, <1>3, PTL DEF Spec
=============================================================================
