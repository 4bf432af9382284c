------------------------ MODULE StockTransfersProofs ------------------------
(***************************************************************************)
(* Proofs about StockTransfers, for any products, locations, transfers,    *)
(* concurrent requests and bounds.                                         *)
(***************************************************************************)
EXTENDS StockTransfers, TLAPS

\* A level whose errors, if any, are on the side of promising too much.
SoundLevel == {lv \in LevelType : NothingHidden(lv)}

-----------------------------------------------------------------------------
(* What each operation does to one level *)

LEMMA OpeningSound == ASSUME NEW n \in Nat PROVE Opening(n) \in SoundLevel
  BY DEF Opening, SoundLevel, LevelType, NothingHidden

LEMMA Fields ==
  ASSUME NEW lv \in SoundLevel
  PROVE  /\ lv \in LevelType
         /\ lv.on_hand \in Nat /\ lv.reserved \in Nat /\ lv.available \in Int
         /\ lv.available >= lv.on_hand - lv.reserved
  BY DEF SoundLevel, LevelType, NothingHidden

LEMMA MovedSound ==
  ASSUME NEW lv \in SoundLevel, NEW c \in Int
  PROVE  Moved(lv, c) \in SoundLevel
<1> DEFINE n == NotNegative(lv.on_hand + c)
           a == NotNegative(lv.on_hand + c - lv.reserved)
<1>1. n \in Nat /\ a \in Int /\ a >= n - lv.reserved BY Fields DEF NotNegative
<1>2. Moved(lv, c) = [lv EXCEPT !.on_hand = n, !.available = a] BY Zenon DEF Moved
<1> HIDE DEF n, a
<1> QED BY <1>1, <1>2, Fields DEF SoundLevel, LevelType, NothingHidden

LEMMA SoldSound ==
  ASSUME NEW lv \in SoundLevel, NEW q \in Nat
  PROVE  Sold(lv, q) \in SoundLevel
<1> DEFINE n == NotNegative(lv.on_hand - q)  a == NotNegative(lv.available - q)
<1>1. n \in Nat /\ a \in Int /\ a >= n - lv.reserved BY Fields DEF NotNegative
<1>2. Sold(lv, q) = [lv EXCEPT !.on_hand = n, !.available = a] BY Zenon DEF Sold
<1> HIDE DEF n, a
<1> QED BY <1>1, <1>2, Fields DEF SoundLevel, LevelType, NothingHidden

LEMMA ReservedSound ==
  ASSUME NEW lv \in SoundLevel, NEW q \in Nat
  PROVE  Reserved(lv, q) \in SoundLevel
<1> DEFINE r == lv.reserved + q  a == lv.available - q
<1>1. r \in Nat /\ a \in Int /\ a >= lv.on_hand - r BY Fields
<1>2. Reserved(lv, q) = [lv EXCEPT !.reserved = r, !.available = a] BY Zenon DEF Reserved
<1> HIDE DEF r, a
<1> QED BY <1>1, <1>2, Fields DEF SoundLevel, LevelType, NothingHidden

LEMMA FreedSound ==
  ASSUME NEW lv \in SoundLevel, NEW q \in Nat
  PROVE  Freed(lv, q) \in SoundLevel
<1> DEFINE r == NotNegative(lv.reserved - q)  a == lv.available + q
<1>1. r \in Nat /\ a \in Int /\ a >= lv.on_hand - r BY Fields DEF NotNegative
<1>2. Freed(lv, q) = [lv EXCEPT !.reserved = r, !.available = a] BY Zenon DEF Freed
<1> HIDE DEF r, a
<1> QED BY <1>1, <1>2, Fields DEF SoundLevel, LevelType, NothingHidden

LEMMA ConsumedSound ==
  ASSUME NEW lv \in SoundLevel, NEW q \in Nat
  PROVE  Consumed(lv, q) \in SoundLevel
<1> DEFINE r == NotNegative(lv.reserved - q)  a == NotNegative(lv.on_hand - r)
<1>1. r \in Nat /\ a \in Int /\ a >= lv.on_hand - r BY Fields DEF NotNegative
<1>2. Consumed(lv, q) = [lv EXCEPT !.reserved = r, !.available = a] BY Zenon DEF Consumed
<1> HIDE DEF r, a
<1> QED BY <1>1, <1>2, Fields DEF SoundLevel, LevelType, NothingHidden

-----------------------------------------------------------------------------
(* And to all of them *)

Levels == [Products -> [Locations -> SoundLevel]]

LEMMA AtLocationSound ==
  ASSUME level \in Levels, NEW units \in [Products -> Nat], NEW l \in Locations
  PROVE  /\ AtLocation(Reserved, units, l) \in Levels
         /\ AtLocation(Moved, units, l) \in Levels
         /\ AtLocation(Out, units, l) \in Levels
<1>1. AtLocation(Reserved, units, l) \in Levels
  BY ReservedSound DEF AtLocation, Levels
<1>2. AtLocation(Moved, units, l) \in Levels
  BY MovedSound DEF AtLocation, Levels
<1>3. AtLocation(Out, units, l) \in Levels
  BY MovedSound DEF AtLocation, Levels, Out
<1> QED BY <1>1, <1>2, <1>3

LEMMA ShiftSound ==
  ASSUME level \in Levels, NEW units \in [Products -> Nat],
         NEW from \in Locations, NEW to \in Locations
  PROVE  Shift(units, from, to) \in Levels
<1>1. ASSUME NEW p \in Products
      PROVE  [level[p] EXCEPT ![from] = Moved(@, -units[p]), ![to] = Moved(@, units[p])]
               \in [Locations -> SoundLevel]
  <2>1. level[p] \in [Locations -> SoundLevel] BY DEF Levels
  <2>2. /\ Moved(level[p][from], -units[p]) \in SoundLevel
        /\ Moved(level[p][to], units[p]) \in SoundLevel
    BY <2>1, MovedSound
  <2> QED BY <2>1, <2>2
<1> QED BY <1>1 DEF Shift, Levels

LEMMA ReleaseSound ==
  ASSUME NEW lv \in Levels, held \in [Owners -> [Products -> [Locations -> Nat]]],
         NEW o \in Owners
  PROVE  Release(lv, o, Freed) \in Levels /\ Release(lv, o, Consumed) \in Levels
<1>1. Release(lv, o, Freed) \in Levels BY FreedSound DEF Release, Levels
<1>2. Release(lv, o, Consumed) \in Levels BY ConsumedSound DEF Release, Levels
<1> QED BY <1>1, <1>2

-----------------------------------------------------------------------------
(* The inductive invariant: types, sound levels, no line received beyond what *)
(* it carries, and requests that read a row of this life of the transfer.   *)

Units == [Products -> Nat]
TallyType == [out : Units, in : Units, back : Units]
RequestType == [pc : Ops, t : Transfers, row : TransferType]
ExpiryType == [pc : {"expire"}, o : Owners, p : Products, l : Locations, q : Nat]

WithinLine(row) == \A p \in Products : row.received[p] <= row.qty[p]
TransfersSound == tr \in [Transfers -> TransferType] /\ \A t \in Transfers : WithinLine(tr[t])
RequestsSound ==
  /\ req \in [Users -> {Idle} \union RequestType]
  /\ \A u \in Users : req[u] # Idle =>
       /\ tr[req[u].t].status # "none" /\ req[u].row.qty = tr[req[u].t].qty
       /\ WithinLine(req[u].row)

Sound ==
  /\ level \in Levels
  /\ held \in [Owners -> [Products -> [Locations -> Nat]]]
  /\ TransfersSound
  /\ moved \in [Transfers -> TallyType]
  /\ RequestsSound
  /\ job \in {Idle} \union ExpiryType

LEMMA SoundIsTyped == Sound => TypeOK
<1> SUFFICES ASSUME Sound PROVE TypeOK
  OBVIOUS
<1>1. level \in [Products -> [Locations -> LevelType]]
  BY DEF Sound, Levels, SoundLevel
<1> QED
  BY <1>1 DEF Sound, TypeOK, TransfersSound, RequestsSound, TallyType, Units, RequestType, ExpiryType

LEMMA SoundHidesNothing == Sound => NothingHiddenFromSale
  BY DEF Sound, Levels, SoundLevel, NothingHiddenFromSale

LEMMA LinesAreUnits == ASSUME NEW units \in Quantities PROVE units \in Units
  BY BoundsAssumption DEF Quantities, Units

LEMMA NoneIsALine == None \in Quantities
  BY BoundsAssumption DEF None, Quantities

LEMMA SumsAreUnits ==
  ASSUME NEW f \in Units, NEW g \in Units PROVE Plus(f, g) \in Units
  BY DEF Units, Plus

LEMMA RestIsUnits ==
  ASSUME NEW row \in TransferType, WithinLine(row)
  PROVE  Rest(row) \in Units /\ \A p \in Products : Rest(row)[p] = row.qty[p] - row.received[p]
  BY BoundsAssumption DEF TransferType, Quantities, WithinLine, Rest, Minus, Units

\* A request changes its transfer to one with the same lines, and is answered.
Advances(t) ==
  \E r \in TransferType :
    tr' = [tr EXCEPT ![t] = r] /\ r.qty = tr[t].qty /\ r.status # "none" /\ WithinLine(r)

LEMMA AdvanceIsSound ==
  ASSUME TransfersSound, RequestsSound, NEW u \in Users, NEW t \in Transfers,
         Advances(t), Answer(u)
  PROVE  TransfersSound' /\ RequestsSound'
<1>1. PICK r \in TransferType :
        tr' = [tr EXCEPT ![t] = r] /\ r.qty = tr[t].qty /\ r.status # "none" /\ WithinLine(r)
  BY DEF Advances
<1>2. TransfersSound'
  BY <1>1 DEF TransfersSound, WithinLine
<1>3. req' \in [Users -> {Idle} \union RequestType]
  BY DEF Answer, RequestsSound
<1>4. ASSUME NEW v \in Users, req'[v] # Idle
      PROVE  /\ tr'[req'[v].t].status # "none" /\ req'[v].row.qty = tr'[req'[v].t].qty
             /\ WithinLine(req'[v].row)
  <2>1. req'[v] = req[v] /\ req[v] # Idle
    BY <1>4 DEF Answer, RequestsSound
  <2>2. req[v].t \in Transfers
    BY <2>1 DEF RequestsSound, RequestType
  <2> QED
    BY <1>1, <2>1, <2>2 DEF RequestsSound, TransfersSound
<1> QED
  BY <1>2, <1>3, <1>4 DEF RequestsSound, WithinLine

-----------------------------------------------------------------------------
(* Each step keeps it *)

LEMMA CreationIsSound ==
  ASSUME Sound, NEW t \in Transfers, NEW from \in Locations, NEW to \in Locations,
         NEW units \in Quantities,
         Create(t, from, to, units) \/ CreateAndComplete(t, from, to, units)
  PROVE  Sound'
<1>1. PICK status \in Statuses : status # "none" /\ New(t, from, to, units, status)
  BY DEF Create, CreateAndComplete, Statuses
<1>2. TransfersSound'
  <2> DEFINE r == [status |-> status, from |-> from, to |-> to, qty |-> units,
                   received |-> IF status = "completed" THEN units ELSE None]
  <2>1. r \in TransferType /\ WithinLine(r)
    BY NoneIsALine, BoundsAssumption DEF TransferType, WithinLine, Quantities, None
  <2>2. tr' = [tr EXCEPT ![t] = r]
    BY <1>1 DEF New
  <2> QED
    <3> HIDE DEF r
    <3> QED BY <2>1, <2>2 DEF TransfersSound, WithinLine, Sound
<1>3. RequestsSound'
  <2>1. req' = req
    BY DEF Create, CreateAndComplete
  <2>2. ASSUME NEW u \in Users, req[u] # Idle
        PROVE  tr'[req[u].t] = tr[req[u].t]
    <3>1. req[u].t \in Transfers /\ tr[req[u].t].status # "none"
      BY <2>2 DEF Sound, RequestsSound, RequestType
    <3> QED
      BY <1>1, <3>1 DEF New, Sound, TransfersSound
  <2> QED
    BY <2>1, <2>2 DEF Sound, RequestsSound, WithinLine
<1>4. CASE Create(t, from, to, units)
  BY <1>2, <1>3, <1>4 DEF Create, Sound
<1>5. CASE CreateAndComplete(t, from, to, units)
  <2>1. units \in Units
    BY LinesAreUnits
  <2>2. level' \in Levels
    BY <1>5, <2>1, ShiftSound DEF CreateAndComplete, Sound, Units
  <2>3. moved' \in [Transfers -> TallyType]
    BY <1>5, <2>1 DEF CreateAndComplete, Sound, TallyType
  <2> QED
    BY <1>2, <1>3, <1>5, <2>2, <2>3 DEF CreateAndComplete, Sound
<1> QED
  BY <1>4, <1>5

LEMMA ReadIsSound ==
  ASSUME Sound, NEW u \in Users, NEW op \in Ops, NEW t \in Transfers, Read(u, op, t)
  PROVE  Sound'
<1> DEFINE r == [pc |-> op, t |-> t, row |-> tr[t]]
<1>1. r \in RequestType /\ WithinLine(r.row) /\ r.t = t /\ r.row = tr[t]
  BY DEF Sound, TransfersSound, RequestType
<1>2. req' = [req EXCEPT ![u] = r] /\ tr[t].status # "none"
  BY DEF Read
<1>3. RequestsSound'
  <2> HIDE DEF r
  <2>1. tr' = tr
    BY DEF Read
  <2> QED
    BY <1>1, <1>2, <2>1 DEF Sound, RequestsSound, WithinLine
<1> QED
  BY <1>3 DEF Read, Sound, TransfersSound, WithinLine

\* What a request carries.
LEMMA CarriedRow ==
  ASSUME Sound, NEW u \in Users, NEW op \in Ops, NEW flow, At(u, op, flow)
  PROVE  /\ req[u] # Idle /\ req[u].t \in Transfers /\ req[u].row \in TransferType
         /\ WithinLine(req[u].row) /\ req[u].row.qty = tr[req[u].t].qty
         /\ tr[req[u].t].status # "none" /\ Flow[req[u].t] = flow
<1>1. req[u] # Idle
  BY DEF At, Idle, Ops
<1> QED
  BY <1>1 DEF At, Sound, RequestsSound, RequestType

\* The transfer changes its status or its locations, and nothing else.
LEMMA HeaderAdvances ==
  ASSUME TransfersSound, NEW t \in Transfers, tr[t].status # "none",
         \/ \E s \in Statuses \ {"none"} : tr' = Settled(s, t)
         \/ \E from, to \in Locations : tr' = [tr EXCEPT ![t].from = from, ![t].to = to]
  PROVE  Advances(t)
<1>1. ASSUME NEW s \in Statuses \ {"none"}, tr' = Settled(s, t) PROVE Advances(t)
  <2> DEFINE r == [tr[t] EXCEPT !.status = s]
  <2>1. r \in TransferType /\ r.qty = tr[t].qty /\ r.received = tr[t].received /\ r.status # "none"
    BY DEF TransfersSound, TransferType
  <2>2. tr' = [tr EXCEPT ![t] = r]
    BY <1>1 DEF Settled, TransfersSound
  <2> QED
    <3> HIDE DEF r
    <3> QED BY <2>1, <2>2 DEF Advances, TransfersSound, WithinLine
<1>2. ASSUME NEW from \in Locations, NEW to \in Locations,
             tr' = [tr EXCEPT ![t].from = from, ![t].to = to]
      PROVE  Advances(t)
  <2> DEFINE r == [tr[t] EXCEPT !.from = from, !.to = to]
  <2>1. r \in TransferType /\ r.qty = tr[t].qty /\ r.received = tr[t].received /\ r.status # "none"
    <3>1. tr[t] \in TransferType /\ tr[t].status # "none"
      BY DEF TransfersSound
    <3> QED
      BY <3>1 DEF TransferType
  <2>2. tr' = [tr EXCEPT ![t] = r]
    BY <1>2 DEF TransfersSound
  <2> QED
    <3> HIDE DEF r
    <3> QED BY <2>1, <2>2 DEF Advances, TransfersSound, WithinLine
<1> QED
  BY <1>1, <1>2

LEMMA StoreRequestIsSound ==
  ASSUME Sound, NEW u \in Users,
         \/ \E from, to \in Locations : Reroute(u, from, to)
         \/ StoreApprove(u) \/ StoreCancel(u) \/ GiveUp(u)
  PROVE  Sound'
<1>1. ASSUME NEW from \in Locations, NEW to \in Locations, Reroute(u, from, to)
      PROVE  Sound'
  <2>1. Advances(req[u].t)
    BY <1>1, CarriedRow, HeaderAdvances DEF Reroute, Sound, Ops
  <2> QED
    BY <1>1, <2>1, CarriedRow, AdvanceIsSound DEF Reroute, Answer, Sound, Ops
<1>2. CASE GiveUp(u)
  <2>1. RequestsSound' /\ TransfersSound'
    BY <1>2 DEF GiveUp, Refuse, Answer, Sound, RequestsSound, TransfersSound, WithinLine
  <2> QED
    BY <1>2, <2>1 DEF GiveUp, Refuse, Answer, Sound
<1>3. CASE StoreApprove(u)
  <2> DEFINE t == req[u].t  row == req[u].row
  <2>1. /\ t \in Transfers /\ row \in TransferType /\ row.qty \in Units /\ row.from \in Locations
        /\ tr[t].status # "none"
    BY <1>3, CarriedRow, LinesAreUnits DEF StoreApprove, Ops, TransferType
  <2>2. CASE Refuse(u)
    BY <2>2 DEF Refuse, Answer, Sound, RequestsSound, TransfersSound, WithinLine
  <2>3. CASE ~Refuse(u)
    <3>1. /\ level' = AtLocation(Reserved, row.qty, row.from)
          /\ held' = [held EXCEPT ![t] = [p \in Products |-> [l \in Locations |->
                        held[t][p][l] + IF l = row.from THEN row.qty[p] ELSE 0]]]
          /\ tr' = Settled("in_transit", t) /\ Answer(u) /\ UNCHANGED moved
      BY <1>3, <2>3 DEF StoreApprove
    <3>2. level' \in Levels
      BY <2>1, <3>1, AtLocationSound DEF Sound, Units
    <3>3. held' \in [Owners -> [Products -> [Locations -> Nat]]]
      <4> DEFINE line == [p \in Products |-> [l \in Locations |->
                       held[t][p][l] + IF l = row.from THEN row.qty[p] ELSE 0]]
      <4>1. held[t] \in [Products -> [Locations -> Nat]]
        BY <2>1 DEF Sound, Owners
      <4>2. line \in [Products -> [Locations -> Nat]]
        BY <2>1, <4>1 DEF Units
      <4>3. held' = [held EXCEPT ![t] = line]
        BY <3>1
      <4> HIDE DEF line, t
      <4> QED BY <2>1, <4>2, <4>3 DEF Sound, Owners
    <3>4. Advances(t)
      BY <2>1, <3>1, HeaderAdvances DEF Sound, Statuses
    <3> QED
      BY <2>1, <3>1, <3>2, <3>3, <3>4, AdvanceIsSound DEF Sound, Answer
  <2> QED
    BY <2>2, <2>3
<1>4. CASE StoreCancel(u)
  <2> DEFINE t == req[u].t
  <2>1. t \in Transfers /\ t \in Owners /\ tr[t].status # "none"
    BY <1>4, CarriedRow DEF StoreCancel, Ops, Owners
  <2>2. level' \in Levels /\ held' \in [Owners -> [Products -> [Locations -> Nat]]]
    <3>1. CASE ReservedBy(req[u].row.status)
      <4>1. level' = Release(level, t, Freed) /\ NothingHeld(t)
        BY <1>4, <3>1 DEF StoreCancel
      <4> HIDE DEF t
      <4> QED BY <2>1, <4>1, ReleaseSound DEF NothingHeld, Sound
    <3>2. CASE ~ReservedBy(req[u].row.status)
      BY <1>4, <3>2 DEF StoreCancel, Sound
    <3> QED
      BY <3>1, <3>2
  <2>3. tr' = Settled("cancelled", t) /\ Answer(u) /\ UNCHANGED moved
    BY <1>4 DEF StoreCancel
  <2>4. Advances(t)
    BY <2>1, <2>3, HeaderAdvances DEF Sound, Statuses
  <2> QED
    BY <2>1, <2>2, <2>3, <2>4, AdvanceIsSound DEF Sound, Answer
<1> QED
  BY <1>1, <1>2, <1>3, <1>4

LEMMA StoreReceptionIsSound ==
  ASSUME Sound, NEW u \in Users, NEW named \in SUBSET Products, NEW units \in Quantities,
         StoreReceive(u, named, units)
  PROVE  Sound'
<1> DEFINE t == req[u].t  row == req[u].row
           got == [p \in Products |-> IF p \in named THEN units[p] ELSE 0]
<1>1. /\ t \in Transfers /\ t \in Owners /\ row \in TransferType /\ row.qty = tr[t].qty
      /\ row.from \in Locations /\ row.to \in Locations
  BY CarriedRow DEF StoreReceive, Ops, TransferType, Owners
<1>2. units \in Units /\ got \in Units
  BY LinesAreUnits DEF Units
<1>3. level' \in Levels /\ held' \in [Owners -> [Products -> [Locations -> Nat]]]
  <2>1. Shift(got, row.from, row.to) \in Levels
    BY <1>1, <1>2, ShiftSound DEF Sound, Units
  <2>2. level' = Release(Shift(got, row.from, row.to), t, Consumed) /\ NothingHeld(t)
    BY DEF StoreReceive
  <2> QED
    BY <1>1, <2>1, <2>2, ReleaseSound DEF NothingHeld, Sound
<1>4. moved' \in [Transfers -> TallyType]
  <2>1. moved' = [moved EXCEPT ![t].out = Plus(@, got), ![t].in = Plus(@, got)]
    BY DEF StoreReceive
  <2>2. Plus(moved[t].out, got) \in Units /\ Plus(moved[t].in, got) \in Units
    BY <1>1, <1>2, SumsAreUnits DEF Sound, TallyType
  <2> QED
    <3> HIDE DEF got
    <3> QED BY <1>1, <2>1, <2>2 DEF Sound, TallyType
<1>5. Advances(t)
  <2> DEFINE received == [p \in Products |-> IF p \in named THEN units[p] ELSE tr[t].received[p]]
             status == IF \A p \in Products : row.qty[p] > 0 => p \in named /\ units[p] >= row.qty[p]
                       THEN "completed" ELSE "in_transit"
             r == [tr[t] EXCEPT !.received = received, !.status = status]
  <2>1. received \in Quantities /\ \A p \in Products : received[p] <= tr[t].qty[p]
    <3>1. \A p \in named : units[p] <= row.qty[p]
      BY DEF StoreReceive
    <3>2. tr[t].received \in Quantities /\ WithinLine(tr[t])
      BY <1>1 DEF Sound, TransfersSound, TransferType
    <3> HIDE DEF t, row, got
    <3> QED BY <1>1, <3>1, <3>2 DEF WithinLine, Quantities
  <2>2. status \in Statuses \ {"none"}
    BY DEF Statuses
  <2>3. r \in TransferType /\ r.qty = tr[t].qty /\ r.status # "none" /\ r.received = received
    <3> HIDE DEF received, status
    <3> QED BY <1>1, <2>1, <2>2 DEF Sound, TransfersSound, TransferType
  <2>4. tr' = [tr EXCEPT ![t] = r]
    <3>1. tr' = [tr EXCEPT ![t].received = received, ![t].status = status]
      BY DEF StoreReceive
    <3> HIDE DEF received, status
    <3> QED BY <1>1, <3>1 DEF Sound, TransfersSound
  <2> QED
    <3> HIDE DEF received, status, r
    <3> QED BY <2>1, <2>3, <2>4 DEF Advances, WithinLine
<1>6. Answer(u)
  BY DEF StoreReceive
<1> QED
  <2> HIDE DEF t, row, got
  <2> QED BY <1>1, <1>3, <1>4, <1>5, <1>6, AdvanceIsSound DEF Sound, Answer

LEMMA OrgRequestIsSound ==
  ASSUME Sound, NEW u \in Users, OrgApprove(u) \/ OrgDispatch(u) \/ OrgCancel(u)
  PROVE  Sound'
<1> DEFINE t == req[u].t  row == req[u].row
<1>1. /\ t \in Transfers /\ row \in TransferType /\ row.qty \in Units
      /\ row.from \in Locations /\ tr[t].status # "none" /\ WithinLine(row)
  BY CarriedRow, LinesAreUnits DEF OrgApprove, OrgDispatch, OrgCancel, Ops, TransferType
<1>2. CASE OrgApprove(u)
  <2>1. tr' = Settled("approved", t) /\ Answer(u) /\ UNCHANGED <<level, held, moved>>
    BY <1>2 DEF OrgApprove
  <2>2. Advances(t)
    BY <1>1, <2>1, HeaderAdvances DEF Sound, Statuses
  <2> QED
    BY <1>1, <2>1, <2>2, AdvanceIsSound DEF Sound, Answer
<1>3. CASE OrgDispatch(u) /\ Refuse(u)
  BY <1>3 DEF Refuse, Answer, Sound, RequestsSound, TransfersSound, WithinLine
<1>4. CASE OrgDispatch(u) /\ ~Refuse(u)
  <2>1. /\ level' = AtLocation(Out, row.qty, row.from)
        /\ tr' = Settled("in_transit", t)
        /\ moved' = [moved EXCEPT ![t].out = Plus(@, row.qty)]
        /\ Answer(u) /\ UNCHANGED held
    BY <1>4 DEF OrgDispatch
  <2>2. level' \in Levels
    BY <1>1, <2>1, AtLocationSound DEF Sound, Units
  <2>3. moved' \in [Transfers -> TallyType]
    <3>1. Plus(moved[t].out, row.qty) \in Units
      BY <1>1, SumsAreUnits DEF Sound, TallyType
    <3> QED
      BY <1>1, <2>1, <3>1 DEF Sound, TallyType
  <2>4. Advances(t)
    BY <1>1, <2>1, HeaderAdvances DEF Sound, Statuses
  <2> QED
    BY <1>1, <2>1, <2>2, <2>3, <2>4, AdvanceIsSound DEF Sound, Answer
<1>5. CASE OrgCancel(u)
  <2> DEFINE rest == IF row.status = "in_transit" THEN Rest(row) ELSE None
  <2>1. rest \in Units
    BY <1>1, RestIsUnits, NoneIsALine, LinesAreUnits
  <2>2. /\ level' = AtLocation(Moved, rest, row.from)
        /\ tr' = Settled("cancelled", t)
        /\ moved' = [moved EXCEPT ![t].back = Plus(@, rest)]
        /\ Answer(u) /\ UNCHANGED held
    BY <1>5 DEF OrgCancel
  <2> HIDE DEF rest
  <2>3. level' \in Levels
    BY <1>1, <2>1, <2>2, AtLocationSound DEF Sound, Units
  <2>4. moved' \in [Transfers -> TallyType]
    <3>1. Plus(moved[t].back, rest) \in Units
      BY <1>1, <2>1, SumsAreUnits DEF Sound, TallyType
    <3> QED
      BY <1>1, <2>2, <3>1 DEF Sound, TallyType
  <2>5. Advances(t)
    BY <1>1, <2>2, HeaderAdvances DEF Sound, Statuses
  <2> QED
    BY <1>1, <2>2, <2>3, <2>4, <2>5, AdvanceIsSound DEF Sound, Answer
<1> QED
  BY <1>2, <1>3, <1>4, <1>5

LEMMA OrgReceptionIsSound ==
  ASSUME Sound, NEW u \in Users, NEW got \in Quantities, OrgReceive(u, got)
  PROVE  Sound'
<1> DEFINE t == req[u].t  row == req[u].row
           received == [p \in Products |-> IF got[p] > 0 THEN row.received[p] + got[p]
                                           ELSE tr[t].received[p]]
           status == IF \A p \in Products : received[p] >= row.qty[p] THEN "received" ELSE "in_transit"
           r == [tr[t] EXCEPT !.received = received, !.status = status]
<1>1. /\ t \in Transfers /\ row \in TransferType /\ row.qty = tr[t].qty
      /\ row.to \in Locations /\ WithinLine(row)
  BY CarriedRow DEF OrgReceive, Ops, TransferType
<1>2. got \in Units
  BY LinesAreUnits
<1>3. /\ \A p \in Products : got[p] <= Rest(row)[p]
      /\ level' = AtLocation(Moved, got, row.to)
      /\ tr' = [tr EXCEPT ![t].received = received, ![t].status = status]
      /\ moved' = [moved EXCEPT ![t].in = Plus(@, got)]
      /\ Answer(u) /\ UNCHANGED held
  BY DEF OrgReceive
<1>4. received \in Quantities /\ \A p \in Products : received[p] <= tr[t].qty[p]
  <2>1. \A p \in Products : got[p] <= row.qty[p] - row.received[p]
    BY <1>1, <1>3, RestIsUnits
  <2>2. tr[t].received \in Quantities /\ tr[t].qty \in Quantities /\ WithinLine(tr[t])
    BY <1>1 DEF Sound, TransfersSound, TransferType
  <2>3. row.received \in Quantities
    BY <1>1 DEF TransferType
  <2> HIDE DEF t, row
  <2> QED
    BY <1>1, <2>1, <2>2, <2>3, BoundsAssumption DEF WithinLine, Quantities
<1>5. status \in Statuses \ {"none"}
  BY DEF Statuses
<1> HIDE DEF received, status
<1>6. r \in TransferType /\ r.qty = tr[t].qty /\ r.status # "none" /\ r.received = received
  BY <1>1, <1>4, <1>5 DEF Sound, TransfersSound, TransferType
<1>7. tr' = [tr EXCEPT ![t] = r]
  BY <1>1, <1>3 DEF Sound, TransfersSound
<1> HIDE DEF r
<1>8. Advances(t)
  BY <1>4, <1>6, <1>7 DEF Advances, WithinLine
<1>9. level' \in Levels
  BY <1>1, <1>2, <1>3, AtLocationSound DEF Sound, Units
<1>10. moved' \in [Transfers -> TallyType]
  <2>1. Plus(moved[t].in, got) \in Units
    BY <1>1, <1>2, SumsAreUnits DEF Sound, TallyType
  <2> QED
    BY <1>1, <1>3, <2>1 DEF Sound, TallyType
<1> QED
  BY <1>1, <1>3, <1>8, <1>9, <1>10, AdvanceIsSound DEF Sound, Answer

LEMMA RequestIsSound ==
  ASSUME Sound, NEW u \in Users, Request(u) PROVE Sound'
<1>1. CASE \E op \in Ops, t \in Transfers : Read(u, op, t)
  BY <1>1, ReadIsSound
<1>2. CASE \/ \E from, to \in Locations : Reroute(u, from, to)
           \/ StoreApprove(u) \/ StoreCancel(u) \/ GiveUp(u)
  BY <1>2, StoreRequestIsSound
<1>3. CASE \E named \in SUBSET Products, units \in Quantities : StoreReceive(u, named, units)
  BY <1>3, StoreReceptionIsSound
<1>4. CASE OrgApprove(u) \/ OrgDispatch(u) \/ OrgCancel(u)
  BY <1>4, OrgRequestIsSound
<1>5. CASE \E got \in Quantities : OrgReceive(u, got)
  BY <1>5, OrgReceptionIsSound
<1> QED
  BY <1>1, <1>2, <1>3, <1>4, <1>5 DEF Request

\* One level changes, and nothing of a transfer.
LEMMA WorldIsSound ==
  ASSUME Sound, NEW p \in Products, NEW l \in Locations, NEW lv \in SoundLevel,
         World(p, l, lv), held' \in [Owners -> [Products -> [Locations -> Nat]]]
  PROVE  Sound'
<1>1. level' \in Levels
  BY DEF World, Sound, Levels
<1> QED
  BY <1>1 DEF World, Sound, TransfersSound, RequestsSound, WithinLine

LEMMA ShopIsSound ==
  ASSUME Sound, NEW p \in Products, NEW l \in Locations, Shop(p, l)
  PROVE  Sound'
<1>1. level[p][l] \in SoundLevel /\ level[p][l].on_hand \in Int
  BY Fields DEF Sound, Levels
<1>2. 1..MaxLine \subseteq Nat /\ 0..MaxStock \subseteq Nat
  BY BoundsAssumption
<1>3. ASSUME NEW q \in 1..MaxLine, Buy(p, l, q) \/ Sell(p, l, q) PROVE Sound'
  <2>1. Moved(level[p][l], q) \in SoundLevel /\ Sold(level[p][l], q) \in SoundLevel
    BY <1>1, <1>2, MovedSound, SoldSound
  <2> QED
    BY <1>3, <2>1, WorldIsSound DEF Buy, Sell, Sound
<1>4. ASSUME NEW found \in 0..MaxStock, Count(p, l, found) PROVE Sound'
  <2>1. Moved(level[p][l], found - level[p][l].on_hand) \in SoundLevel
    BY <1>1, <1>2, MovedSound
  <2> QED
    BY <1>4, <2>1, WorldIsSound DEF Count, Sound
<1>5. ASSUME NEW o \in Orders, NEW q \in 1..MaxLine, Hold(o, p, l, q) PROVE Sound'
  <2>1. Reserved(level[p][l], q) \in SoundLevel
    BY <1>1, <1>2, ReservedSound
  <2>2. held' \in [Owners -> [Products -> [Locations -> Nat]]]
    BY <1>2, <1>5 DEF Hold, Sound, Owners
  <2> QED
    BY <1>5, <2>1, <2>2, WorldIsSound DEF Hold
<1>6. ASSUME NEW o \in Orders, Drop(o, p, l) PROVE Sound'
  <2>1. held[o][p][l] \in Nat
    BY DEF Sound, Owners
  <2>2. Freed(level[p][l], held[o][p][l]) \in SoundLevel
    BY <1>1, <2>1, FreedSound
  <2>3. held' \in [Owners -> [Products -> [Locations -> Nat]]]
    BY <1>6 DEF Drop, Sound, Owners
  <2> QED
    BY <1>6, <2>2, <2>3, WorldIsSound DEF Drop
<1>7. ASSUME NEW o \in Owners, ExpireRead(o, p, l) PROVE Sound'
  <2>1. job' \in ExpiryType
    BY <1>7 DEF ExpireRead, Sound, ExpiryType
  <2> QED
    BY <1>7, <2>1 DEF ExpireRead, Sound, TransfersSound, RequestsSound, WithinLine
<1> QED
  BY <1>3, <1>4, <1>5, <1>6, <1>7 DEF Shop

LEMMA ExpiryIsSound == ASSUME Sound, ExpireWrite PROVE Sound'
<1>1. /\ job.o \in Owners /\ job.p \in Products /\ job.l \in Locations /\ job.q \in Nat
  BY DEF ExpireWrite, Sound, ExpiryType
<1>2. Freed(level[job.p][job.l], job.q) \in SoundLevel
  BY <1>1, FreedSound DEF Sound, Levels
<1>3. level' \in Levels
  BY <1>1, <1>2 DEF ExpireWrite, Sound, Levels
<1>4. held' \in [Owners -> [Products -> [Locations -> Nat]]]
  BY <1>1 DEF ExpireWrite, Sound
<1> QED
  BY <1>3, <1>4 DEF ExpireWrite, Sound, TransfersSound, RequestsSound, WithinLine

LEMMA StartIsSound == Init => Sound
<1> SUFFICES ASSUME Init PROVE Sound
  OBVIOUS
<1>1. level \in Levels
  BY OpeningSound, BoundsAssumption DEF Init, Levels
<1>2. TransfersSound
  BY NoneIsALine DEF Init, TransfersSound, TransferType, WithinLine, Statuses, None
<1>3. moved \in [Transfers -> TallyType]
  BY NoneIsALine, LinesAreUnits DEF Init, TallyType
<1> QED
  BY <1>1, <1>2, <1>3 DEF Init, Sound, RequestsSound

LEMMA StepIsSound == Sound /\ [Next]_vars => Sound'
<1> SUFFICES ASSUME Sound, [Next]_vars PROVE Sound'
  OBVIOUS
<1>1. CASE UNCHANGED vars
  BY <1>1 DEF vars, Sound, TransfersSound, RequestsSound, WithinLine
<1>2. CASE Next
  BY <1>2, CreationIsSound, RequestIsSound, ShopIsSound, ExpiryIsSound DEF Next
<1> QED
  BY <1>1, <1>2

\* Every reachable quantity, reservation, transfer, tally and request is well
\* typed, for any lines, stock and requests, and whatever overlaps: no
\* quantity of updateStock, reserveStock and the releases goes below zero but
\* available, and no received line above its quantity.
THEOREM TypeCorrect == Spec => []TypeOK
<1> QED
  BY StartIsSound, StepIsSound, SoundIsTyped, PTL DEF Spec

\* Whatever requests, sales, counts and expiries cross, StockLevelManager never
\* hides from sale a unit that is on hand and not reserved.
THEOREM NothingHiddenHolds == Spec => []NothingHiddenFromSale
<1> QED
  BY StartIsSound, StepIsSound, SoundHidesNothing, PTL DEF Spec

-----------------------------------------------------------------------------
(* Transfers of the organization are shipments, as long as one request is   *)
(* answered before the next one reads: the row a request read is still what *)
(* the table holds when it writes.                                          *)

Alone ==
  \A u \in Users : req[u] # Idle =>
    /\ req[u].row = tr[req[u].t] /\ Accepts(req[u].t, req[u].pc, req[u].row.status)
    /\ \A v \in Users \ {u} : req[v] = Idle

Early == {"none", "pending", "approved"}
NothingArrivedEarly == \A t \in ByOrg : tr[t].status \in Early => tr[t].received = None

Accounted == Sound /\ Alone /\ NothingArrivedEarly /\ RoadAccounted

\* What a step has to show.
ShipmentStep == [Promise!Next]_<<Phase, Road>>
Kept == NothingArrivedEarly' /\ RoadAccounted' /\ ShipmentStep

LEMMA UntouchedIsKept ==
  ASSUME Accounted, \A t \in ByOrg : tr'[t] = tr[t] /\ moved'[t] = moved[t]
  PROVE  Kept
<1>1. NothingArrivedEarly'
  BY DEF Accounted, NothingArrivedEarly
<1>2. \A t \in ByOrg : OnTheRoad(t)' = OnTheRoad(t)
  BY DEF OnTheRoad
<1>3. RoadAccounted'
  BY <1>2 DEF Accounted, RoadAccounted
<1>4. Phase' = Phase /\ Road' = Road
  BY <1>2 DEF Phase, Road
<1> QED
  BY <1>1, <1>3, <1>4 DEF Kept, ShipmentStep

\* The transfer of one request becomes r, with its tally m.
LEMMA OneTransferIsKept ==
  ASSUME Accounted, NEW t \in ByOrg, NEW r \in TransferType, NEW m \in TallyType,
         tr' = [tr EXCEPT ![t] = r], moved' = [moved EXCEPT ![t] = m], WithinLine(r),
         r.status \in Early => r.received = None,
         [p \in Products |-> m.out[p] - m.in[p] - m.back[p]]
           = IF r.status = "in_transit" THEN Minus(r.qty, r.received) ELSE None
  PROVE  /\ NothingArrivedEarly' /\ RoadAccounted'
         /\ Road' \in [ByOrg -> Units]
         /\ \A s \in ByOrg \ {t} : Road'[s] = Road[s] /\ Phase'[s] = Phase[s]
         /\ Road'[t] = IF r.status = "in_transit" THEN Minus(r.qty, r.received) ELSE None
         /\ Road[t] = IF tr[t].status = "in_transit" THEN Minus(tr[t].qty, tr[t].received) ELSE None
         /\ Phase'[t] = IF r.status = "in_transit" THEN "sent"
                        ELSE IF r.status \in Closed THEN "over" ELSE "planned"
         /\ Phase[t] = IF tr[t].status = "in_transit" THEN "sent"
                       ELSE IF tr[t].status \in Closed THEN "over" ELSE "planned"
<1>1. t \in Transfers /\ tr'[t] = r /\ moved'[t] = m
  BY DEF ByOrg, Accounted, Sound, TransfersSound
<1>2. \A s \in ByOrg \ {t} : tr'[s] = tr[s] /\ moved'[s] = moved[s]
  BY DEF ByOrg, Accounted, Sound, TransfersSound
<1>3. NothingArrivedEarly'
  BY <1>1, <1>2 DEF NothingArrivedEarly, Accounted
<1>4. OnTheRoad(t)' = IF r.status = "in_transit" THEN Minus(r.qty, r.received) ELSE None
  BY <1>1 DEF OnTheRoad
<1>5. \A s \in ByOrg \ {t} : OnTheRoad(s)' = OnTheRoad(s)
  BY <1>2 DEF OnTheRoad
<1>6. RoadAccounted'
  BY <1>1, <1>2, <1>4, <1>5 DEF RoadAccounted, Accounted
<1>7. ASSUME NEW s \in ByOrg PROVE OnTheRoad(s)' \in Units
  <2>1. tr'[s] \in TransferType /\ WithinLine(tr'[s])
    BY <1>1, <1>2 DEF Accounted, Sound, TransfersSound, ByOrg
  <2>2. Minus(tr'[s].qty, tr'[s].received) \in Units
    BY <2>1, RestIsUnits DEF Rest
  <2>3. None \in Units
    BY NoneIsALine, LinesAreUnits
  <2> QED
    BY <1>6, <2>2, <2>3 DEF RoadAccounted
<1>8. Road' \in [ByOrg -> Units]
  BY <1>7 DEF Road
<1>9. \A s \in ByOrg \ {t} : Road'[s] = Road[s] /\ Phase'[s] = Phase[s]
  BY <1>2, <1>5 DEF Road, Phase
<1>10. /\ Road'[t] = OnTheRoad(t)' /\ Road[t] = OnTheRoad(t)
       /\ OnTheRoad(t) = IF tr[t].status = "in_transit" THEN Minus(tr[t].qty, tr[t].received) ELSE None
  BY DEF Road, RoadAccounted, Accounted
<1>11. /\ Phase'[t] = IF r.status = "in_transit" THEN "sent"
                      ELSE IF r.status \in Closed THEN "over" ELSE "planned"
       /\ Phase[t] = IF tr[t].status = "in_transit" THEN "sent"
                     ELSE IF tr[t].status \in Closed THEN "over" ELSE "planned"
  BY <1>1 DEF Phase, Closed
<1> QED
  BY <1>3, <1>4, <1>6, <1>8, <1>9, <1>10, <1>11

\* What a request of the organization carries, when it is alone.
LEMMA OrgCarries ==
  ASSUME Accounted, NEW u \in Users, NEW op \in Ops, At(u, op, "org")
  PROVE  /\ req[u].t \in ByOrg /\ tr[req[u].t] \in TransferType /\ WithinLine(tr[req[u].t])
         /\ req[u].row = tr[req[u].t] /\ OrgAccepts(op, tr[req[u].t].status)
         /\ moved[req[u].t] \in TallyType
<1>1. req[u] # Idle /\ req[u].t \in Transfers /\ Flow[req[u].t] = "org" /\ req[u].pc = op
  BY CarriedRow DEF At, Accounted
<1>2. req[u].row = tr[req[u].t] /\ OrgAccepts(op, tr[req[u].t].status)
  BY <1>1 DEF Accounted, Alone, Accepts
<1> QED
  BY <1>1, <1>2 DEF ByOrg, Accounted, Sound, TransfersSound

LEMMA CreationIsKept ==
  ASSUME Accounted, NEW t \in Transfers, NEW from \in Locations, NEW to \in Locations,
         NEW units \in Quantities,
         Create(t, from, to, units) \/ CreateAndComplete(t, from, to, units)
  PROVE  Kept
<1>1. CASE t \notin ByOrg
  <2>1. \A s \in ByOrg : tr'[s] = tr[s] /\ moved'[s] = moved[s]
    BY <1>1 DEF Create, CreateAndComplete, New, ByOrg, Accounted, Sound, TransfersSound
  <2> QED
    BY <2>1, UntouchedIsKept
<1>2. CASE t \in ByOrg
  <2> DEFINE r == [status |-> "pending", from |-> from, to |-> to, qty |-> units, received |-> None]
  <2>1. New(t, from, to, units, "pending") /\ UNCHANGED moved
    BY <1>2 DEF Create, CreateAndComplete, ByOrg
  <2>2. /\ r \in TransferType /\ WithinLine(r) /\ r.received = None /\ r.status = "pending"
        /\ tr' = [tr EXCEPT ![t] = r] /\ tr[t].status = "none"
    BY <2>1, NoneIsALine, BoundsAssumption DEF New, TransferType, WithinLine, Statuses, None, Quantities
  <2>3. moved[t] \in TallyType /\ moved' = [moved EXCEPT ![t] = moved[t]]
    BY <2>1 DEF Accounted, Sound
  <2>4. [p \in Products |-> moved[t].out[p] - moved[t].in[p] - moved[t].back[p]] = None
    BY <1>2, <2>2 DEF Accounted, RoadAccounted, OnTheRoad
  <2> HIDE DEF r
  <2>5. /\ NothingArrivedEarly' /\ RoadAccounted' /\ Road' \in [ByOrg -> Units]
        /\ \A s \in ByOrg \ {t} : Road'[s] = Road[s] /\ Phase'[s] = Phase[s]
        /\ Road'[t] = Road[t] /\ Phase'[t] = Phase[t]
    BY <1>2, <2>2, <2>3, <2>4, OneTransferIsKept DEF Closed
  <2>6. Phase' = Phase /\ Road' = Road
    BY <2>5 DEF Phase, Road
  <2> QED
    BY <2>5, <2>6 DEF Kept, ShipmentStep
<1> QED
  BY <1>1, <1>2

LEMMA OnlyOneMoves ==
  ASSUME NEW t \in ByOrg, Road' \in [ByOrg -> Units],
         \A s \in ByOrg \ {t} : Road'[s] = Road[s] /\ Phase'[s] = Phase[s]
  PROVE  Promise!Only(t)
<1>1. Phase' \in [ByOrg -> Promise!Phases]
  BY DEF Phase, Promise!Phases
<1> QED
  BY <1>1 DEF Promise!Only, Units

LEMMA SealIsKept ==
  ASSUME Accounted, NEW u \in Users, OrgApprove(u) PROVE Kept
<1> DEFINE t == req[u].t  r == [tr[t] EXCEPT !.status = "approved"]
<1>1. /\ t \in ByOrg /\ tr[t] \in TransferType /\ WithinLine(tr[t])
      /\ tr[t].status = "pending" /\ moved[t] \in TallyType
  BY OrgCarries DEF OrgApprove, Ops, OrgAccepts
<1>2. /\ r \in TransferType /\ r.status = "approved" /\ r.received = tr[t].received /\ r.qty = tr[t].qty
  BY <1>1 DEF TransferType, Statuses
<1>3. tr' = [tr EXCEPT ![t] = r] /\ moved' = [moved EXCEPT ![t] = moved[t]]
  BY DEF OrgApprove, Settled, Accounted, Sound
<1>4. [p \in Products |-> moved[t].out[p] - moved[t].in[p] - moved[t].back[p]] = None
  BY <1>1 DEF Accounted, RoadAccounted, OnTheRoad
<1>5. tr[t].received = None
  BY <1>1 DEF Accounted, NothingArrivedEarly, Early
<1> HIDE DEF r, t
<1>6. /\ NothingArrivedEarly' /\ RoadAccounted' /\ Road' \in [ByOrg -> Units]
      /\ \A s \in ByOrg \ {t} : Road'[s] = Road[s] /\ Phase'[s] = Phase[s]
      /\ Road'[t] = Road[t] /\ Phase'[t] = Phase[t]
  <2>1. WithinLine(r)
    BY <1>1, <1>2 DEF WithinLine
  <2> QED
    BY <1>1, <1>2, <1>3, <1>4, <1>5, <2>1, OneTransferIsKept DEF Closed
<1>7. Phase' = Phase /\ Road' = Road
  BY <1>6 DEF Phase, Road
<1> QED
  BY <1>6, <1>7 DEF Kept, ShipmentStep

LEMMA DispatchIsKept ==
  ASSUME Accounted, NEW u \in Users, OrgDispatch(u) PROVE Kept
<1> DEFINE t == req[u].t
           r == [tr[t] EXCEPT !.status = "in_transit"]
           m == [moved[t] EXCEPT !.out = Plus(@, tr[t].qty)]
<1>1. /\ t \in ByOrg /\ tr[t] \in TransferType /\ WithinLine(tr[t]) /\ req[u].row = tr[t]
      /\ tr[t].status = "approved" /\ moved[t] \in TallyType
  BY OrgCarries DEF OrgDispatch, Ops, OrgAccepts
<1>2. CASE Refuse(u)
  BY <1>2, UntouchedIsKept DEF Refuse
<1>3. CASE ~Refuse(u)
  <2>1. /\ r \in TransferType /\ r.status = "in_transit" /\ r.received = tr[t].received
        /\ r.qty = tr[t].qty
    BY <1>1 DEF TransferType, Statuses
  <2>2. tr' = [tr EXCEPT ![t] = r] /\ moved' = [moved EXCEPT ![t].out = Plus(@, tr[t].qty)]
    BY <1>1, <1>3 DEF OrgDispatch, Settled
  <2>3. moved' = [moved EXCEPT ![t] = m]
    BY <1>1, <2>2 DEF Accounted, Sound, ByOrg
  <2>4. tr[t].qty \in Units
    BY <1>1, LinesAreUnits DEF TransferType
  <2>5. /\ m \in TallyType /\ m.out = Plus(moved[t].out, tr[t].qty)
        /\ m.in = moved[t].in /\ m.back = moved[t].back
    <3>1. Plus(moved[t].out, tr[t].qty) \in Units
      BY <1>1, <2>4, SumsAreUnits DEF TallyType
    <3> QED
      BY <1>1, <3>1 DEF TallyType
  <2>6. tr[t].received = None
    BY <1>1 DEF Accounted, NothingArrivedEarly, Early
  <2>7. OnTheRoad(t) = None
    BY <1>1 DEF Accounted, RoadAccounted
  <2> HIDE DEF m, r, t
  <2>8. [p \in Products |-> m.out[p] - m.in[p] - m.back[p]] = Minus(r.qty, r.received)
    <3>1. \A p \in Products : moved[t].out[p] - moved[t].in[p] - moved[t].back[p] = 0
      BY <2>7 DEF OnTheRoad, None
    <3>2. ASSUME NEW p \in Products
          PROVE  m.out[p] - m.in[p] - m.back[p] = r.qty[p] - r.received[p]
      BY <1>1, <2>1, <2>4, <2>5, <2>6, <3>1 DEF Plus, TallyType, Units, None
    <3> QED
      BY <3>2 DEF Minus
  <2>9. WithinLine(r)
    BY <1>1, <2>1 DEF WithinLine
  <2>10. /\ NothingArrivedEarly' /\ RoadAccounted' /\ Road' \in [ByOrg -> Units]
         /\ \A s \in ByOrg \ {t} : Road'[s] = Road[s] /\ Phase'[s] = Phase[s]
         /\ Phase'[t] = "sent" /\ Phase[t] = "planned"
    <3>1. tr' = [tr EXCEPT ![t] = r]
      BY <2>2
    <3>2. "in_transit" \notin Early /\ "approved" \notin Closed
      BY DEF Closed, Early
    <3> QED
      BY <1>1, <2>1, <2>3, <2>5, <2>8, <2>9, <3>1, <3>2, OneTransferIsKept
  <2>11. Promise!Send(t)
    BY <1>1, <2>10, OnlyOneMoves DEF Promise!Send
  <2> QED
    BY <1>1, <2>10, <2>11 DEF Kept, ShipmentStep, Promise!Next
<1> QED
  BY <1>2, <1>3

LEMMA ReceptionIsKept ==
  ASSUME Accounted, NEW u \in Users, NEW got \in Quantities, OrgReceive(u, got) PROVE Kept
<1> DEFINE t == req[u].t
           received == [p \in Products |-> IF got[p] > 0 THEN tr[t].received[p] + got[p]
                                           ELSE tr[t].received[p]]
           status == IF \A p \in Products : received[p] >= tr[t].qty[p] THEN "received" ELSE "in_transit"
           r == [tr[t] EXCEPT !.received = received, !.status = status]
           m == [moved[t] EXCEPT !.in = Plus(@, got)]
<1>1. /\ t \in ByOrg /\ tr[t] \in TransferType /\ WithinLine(tr[t]) /\ req[u].row = tr[t]
      /\ tr[t].status = "in_transit" /\ moved[t] \in TallyType
  BY OrgCarries DEF OrgReceive, Ops, OrgAccepts
<1>2. /\ \A p \in Products : got[p] <= Rest(tr[t])[p]
      /\ tr' = [tr EXCEPT ![t].received = received, ![t].status = status]
      /\ moved' = [moved EXCEPT ![t].in = Plus(@, got)]
  BY <1>1 DEF OrgReceive
<1>3. got \in Units /\ tr[t].qty \in Units /\ tr[t].received \in Units
  BY <1>1, LinesAreUnits DEF TransferType
<1>4. /\ received \in Quantities
      /\ \A p \in Products : received[p] = tr[t].received[p] + got[p] /\ received[p] <= tr[t].qty[p]
  <2>1. \A p \in Products : got[p] <= tr[t].qty[p] - tr[t].received[p]
    BY <1>1, <1>2, RestIsUnits
  <2>2. tr[t].qty \in Quantities
    BY <1>1 DEF TransferType
  <2> HIDE DEF t
  <2> QED
    BY <1>3, <2>1, <2>2, BoundsAssumption DEF Quantities, Units
<1>5. /\ status \in {"received", "in_transit"}
      /\ status = "received" <=> \A p \in Products : received[p] >= tr[t].qty[p]
  OBVIOUS
<1> HIDE DEF received, status
<1>6. /\ r \in TransferType /\ r.status = status /\ r.received = received /\ r.qty = tr[t].qty
  BY <1>1, <1>4, <1>5 DEF TransferType, Statuses
<1>7. tr' = [tr EXCEPT ![t] = r] /\ moved' = [moved EXCEPT ![t] = m]
  BY <1>1, <1>2 DEF Accounted, Sound, TransfersSound, ByOrg
<1>8. /\ m \in TallyType /\ m.in = Plus(moved[t].in, got)
      /\ m.out = moved[t].out /\ m.back = moved[t].back
  <2>1. Plus(moved[t].in, got) \in Units
    BY <1>1, <1>3, SumsAreUnits DEF TallyType
  <2> QED
    BY <1>1, <2>1 DEF TallyType
<1>9. OnTheRoad(t) = Minus(tr[t].qty, tr[t].received)
  BY <1>1 DEF Accounted, RoadAccounted
<1> HIDE DEF t, m, r
<1>10. ASSUME NEW p \in Products
       PROVE  m.out[p] - m.in[p] - m.back[p] = r.qty[p] - r.received[p]
  <2>1. moved[t].out[p] - moved[t].in[p] - moved[t].back[p] = tr[t].qty[p] - tr[t].received[p]
    BY <1>9 DEF OnTheRoad, Minus
  <2>2. m.in[p] = moved[t].in[p] + got[p]
    BY <1>8 DEF Plus
  <2>3. /\ moved[t].out[p] \in Nat /\ moved[t].in[p] \in Nat /\ moved[t].back[p] \in Nat
    BY <1>1 DEF TallyType, Units
  <2>4. got[p] \in Nat /\ tr[t].qty[p] \in Nat /\ tr[t].received[p] \in Nat
    BY <1>3 DEF Units
  <2>5. m.out[p] = moved[t].out[p] /\ m.back[p] = moved[t].back[p]
    BY <1>8
  <2>6. r.qty[p] = tr[t].qty[p] /\ r.received[p] = tr[t].received[p] + got[p]
    BY <1>4, <1>6
  <2> QED
    BY <2>1, <2>2, <2>3, <2>4, <2>5, <2>6
<1>11. [p \in Products |-> m.out[p] - m.in[p] - m.back[p]]
         = IF r.status = "in_transit" THEN Minus(r.qty, r.received) ELSE None
  <2>1. [p \in Products |-> m.out[p] - m.in[p] - m.back[p]] = Minus(r.qty, r.received)
    BY <1>10 DEF Minus
  <2>2. CASE status = "received"
    <3>1. \A p \in Products : r.qty[p] - r.received[p] = 0
      BY <1>3, <1>4, <1>5, <1>6, <2>2 DEF Units
    <3> QED
      BY <1>6, <2>1, <2>2, <3>1 DEF Minus, None
  <2>3. CASE status = "in_transit"
    BY <1>6, <2>1, <2>3
  <2> QED
    BY <1>5, <2>2, <2>3
<1>12. WithinLine(r)
  BY <1>4, <1>6 DEF WithinLine
<1>13. /\ NothingArrivedEarly' /\ RoadAccounted' /\ Road' \in [ByOrg -> Units]
       /\ \A s \in ByOrg \ {t} : Road'[s] = Road[s] /\ Phase'[s] = Phase[s]
       /\ Road'[t] = IF r.status = "in_transit" THEN Minus(r.qty, r.received) ELSE None
       /\ Road[t] = Minus(tr[t].qty, tr[t].received)
       /\ Phase'[t] = IF r.status = "in_transit" THEN "sent" ELSE "over"
       /\ Phase[t] = "sent"
  <2>1. r.status \notin Early /\ (r.status # "in_transit" => r.status \in Closed)
    BY <1>5, <1>6 DEF Closed, Early
  <2> QED
    BY <1>1, <1>6, <1>7, <1>8, <1>11, <1>12, <2>1, OneTransferIsKept
<1>14. Promise!Deliver(t)
  <2>1. Promise!Only(t)
    BY <1>1, <1>13, OnlyOneMoves
  <2>2. ASSUME NEW p \in Products PROVE Road'[t][p] <= Road[t][p]
    <3>1. tr[t].qty[p] - r.received[p] <= tr[t].qty[p] - tr[t].received[p]
      BY <1>3, <1>4, <1>6 DEF Units
    <3>2. 0 <= tr[t].qty[p] - tr[t].received[p]
      BY <1>1, <1>3 DEF WithinLine, Units
    <3> QED
      BY <1>6, <1>13, <3>1, <3>2 DEF Minus, None
  <2>3. Phase'[t] = IF Road'[t] = Promise!Nothing THEN "over" ELSE "sent"
    <3>1. Promise!Nothing = None
      BY DEF Promise!Nothing, None
    <3>2. CASE status = "received"
      BY <1>6, <1>13, <3>1, <3>2
    <3>3. CASE status = "in_transit"
      <4>1. PICK p \in Products : received[p] < tr[t].qty[p]
        BY <1>3, <1>4, <1>5, <3>3 DEF Units, Quantities
      <4>2. Road'[t][p] # 0
        BY <1>3, <1>4, <1>6, <1>13, <3>3, <4>1 DEF Minus, Units, Quantities
      <4> QED
        BY <1>6, <1>13, <3>1, <3>3, <4>2 DEF None
    <3> QED
      BY <1>5, <3>2, <3>3
  <2> QED
    BY <1>13, <2>1, <2>2, <2>3 DEF Promise!Deliver
<1> QED
  BY <1>1, <1>13, <1>14 DEF Kept, ShipmentStep, Promise!Next

LEMMA CancellationIsKept ==
  ASSUME Accounted, NEW u \in Users, OrgCancel(u) PROVE Kept
<1> DEFINE t == req[u].t
           rest == IF tr[t].status = "in_transit" THEN Rest(tr[t]) ELSE None
           r == [tr[t] EXCEPT !.status = "cancelled"]
           m == [moved[t] EXCEPT !.back = Plus(@, rest)]
<1>1. /\ t \in ByOrg /\ tr[t] \in TransferType /\ WithinLine(tr[t]) /\ req[u].row = tr[t]
      /\ tr[t].status \notin Closed /\ moved[t] \in TallyType
  BY OrgCarries DEF OrgCancel, Ops, OrgAccepts
<1>2. /\ tr' = [tr EXCEPT ![t].status = "cancelled"]
      /\ moved' = [moved EXCEPT ![t].back = Plus(@, rest)]
  BY <1>1 DEF OrgCancel, Settled
<1>3. rest \in Units
  BY <1>1, RestIsUnits, NoneIsALine, LinesAreUnits
<1>4. OnTheRoad(t) = rest
  BY <1>1 DEF Accounted, RoadAccounted, Rest
<1> HIDE DEF rest
<1>5. /\ r \in TransferType /\ r.status = "cancelled" /\ r.received = tr[t].received
      /\ r.qty = tr[t].qty
  BY <1>1 DEF TransferType, Statuses
<1>6. tr' = [tr EXCEPT ![t] = r] /\ moved' = [moved EXCEPT ![t] = m]
  BY <1>1, <1>2 DEF Accounted, Sound, TransfersSound, ByOrg
<1>7. /\ m \in TallyType /\ m.back = Plus(moved[t].back, rest)
      /\ m.out = moved[t].out /\ m.in = moved[t].in
  <2>1. Plus(moved[t].back, rest) \in Units
    BY <1>1, <1>3, SumsAreUnits DEF TallyType
  <2> QED
    BY <1>1, <2>1 DEF TallyType
<1> HIDE DEF t, m, r
<1>8. [p \in Products |-> m.out[p] - m.in[p] - m.back[p]] = None
  <2>1. ASSUME NEW p \in Products PROVE m.out[p] - m.in[p] - m.back[p] = 0
    <3>1. moved[t].out[p] - moved[t].in[p] - moved[t].back[p] = rest[p]
      BY <1>4 DEF OnTheRoad
    <3>2. m.back[p] = moved[t].back[p] + rest[p]
      BY <1>7 DEF Plus
    <3>3. /\ moved[t].out[p] \in Nat /\ moved[t].in[p] \in Nat /\ moved[t].back[p] \in Nat
          /\ rest[p] \in Nat
      BY <1>1, <1>3 DEF TallyType, Units
    <3> QED
      BY <1>7, <3>1, <3>2, <3>3
  <2> QED
    BY <2>1 DEF None
<1>9. WithinLine(r)
  BY <1>1, <1>5 DEF WithinLine
<1>10. /\ NothingArrivedEarly' /\ RoadAccounted' /\ Road' \in [ByOrg -> Units]
       /\ \A s \in ByOrg \ {t} : Road'[s] = Road[s] /\ Phase'[s] = Phase[s]
       /\ Road'[t] = None /\ Phase'[t] = "over" /\ Phase[t] \in {"planned", "sent"}
  <2>1. r.status \notin Early /\ r.status \in Closed /\ r.status # "in_transit"
    BY <1>5 DEF Closed, Early
  <2> QED
    BY <1>1, <1>5, <1>6, <1>7, <1>8, <1>9, <2>1, OneTransferIsKept
<1>11. Promise!CallOff(t)
  BY <1>1, <1>10, OnlyOneMoves DEF Promise!CallOff, Promise!Nothing, None
<1> QED
  BY <1>1, <1>10, <1>11 DEF Kept, ShipmentStep, Promise!Next

\* A request of the store, or one that is refused, leaves the organization's
\* transfers alone.
LEMMA StoreTouchesItsOwn ==
  ASSUME Sound, NEW u \in Users,
         \/ \E op \in Ops, t \in Transfers : Read(u, op, t)
         \/ \E from, to \in Locations : Reroute(u, from, to)
         \/ StoreApprove(u) \/ StoreCancel(u) \/ GiveUp(u)
         \/ \E named \in SUBSET Products, units \in Quantities : StoreReceive(u, named, units)
  PROVE  \A s \in ByOrg : tr'[s] = tr[s] /\ moved'[s] = moved[s]
<1>1. CASE (\E op \in Ops, t \in Transfers : Read(u, op, t)) \/ GiveUp(u) \/ Refuse(u)
  BY <1>1 DEF Read, GiveUp, Refuse
<1> DEFINE t == req[u].t  Untouched == \A s \in ByOrg : tr'[s] = tr[s] /\ moved'[s] = moved[s]
<1>2. ASSUME t \in Transfers, Flow[t] = "store",
             \A s \in Transfers \ {t} : tr'[s] = tr[s] /\ moved'[s] = moved[s]
      PROVE  Untouched
  BY <1>2 DEF ByOrg
<1>3. ASSUME NEW op \in Ops, At(u, op, "store") PROVE t \in Transfers /\ Flow[t] = "store"
  BY <1>3, CarriedRow
<1>4. tr \in [Transfers -> TransferType] /\ moved \in [Transfers -> TallyType]
  BY DEF Sound, TransfersSound
<1>5. ASSUME NEW from \in Locations, NEW to \in Locations, Reroute(u, from, to) PROVE Untouched
  <2>1. t \in Transfers /\ Flow[t] = "store"
    BY <1>3, <1>5 DEF Reroute, Ops
  <2>2. \A s \in Transfers \ {t} : tr'[s] = tr[s] /\ moved'[s] = moved[s]
    BY <1>4, <1>5 DEF Reroute
  <2> QED
    BY <1>2, <2>1, <2>2
<1>6. CASE StoreApprove(u) /\ ~Refuse(u)
  BY <1>2, <1>3, <1>4, <1>6 DEF StoreApprove, Settled, Ops
<1>7. CASE StoreCancel(u)
  BY <1>2, <1>3, <1>4, <1>7 DEF StoreCancel, Settled, Ops
<1>8. ASSUME NEW named \in SUBSET Products, NEW units \in Quantities, StoreReceive(u, named, units)
      PROVE  Untouched
  <2>1. t \in Transfers /\ Flow[t] = "store"
    BY <1>3, <1>8 DEF StoreReceive, Ops
  <2>2. \A s \in Transfers \ {t} : tr'[s] = tr[s] /\ moved'[s] = moved[s]
    BY <1>4, <1>8 DEF StoreReceive
  <2> QED
    BY <1>2, <2>1, <2>2
<1> QED
  BY <1>1, <1>5, <1>6, <1>7, <1>8

LEMMA StoreRequestIsKept ==
  ASSUME Accounted, NEW u \in Users,
         \/ \E op \in Ops, t \in Transfers : Read(u, op, t)
         \/ \E from, to \in Locations : Reroute(u, from, to)
         \/ StoreApprove(u) \/ StoreCancel(u) \/ GiveUp(u)
         \/ \E named \in SUBSET Products, units \in Quantities : StoreReceive(u, named, units)
  PROVE  Kept
BY StoreTouchesItsOwn, UntouchedIsKept DEF Accounted

LEMMA ShopTouchesNoTransfer ==
  ASSUME NEW p \in Products, NEW l \in Locations, Shop(p, l)
  PROVE  UNCHANGED <<tr, moved, req>>
<1>1. ASSUME NEW q, Buy(p, l, q) \/ Sell(p, l, q) PROVE UNCHANGED <<tr, moved, req>>
  BY <1>1 DEF Buy, Sell, World
<1>2. ASSUME NEW found, Count(p, l, found) PROVE UNCHANGED <<tr, moved, req>>
  BY <1>2 DEF Count, World
<1>3. ASSUME NEW o, Drop(o, p, l) \/ ExpireRead(o, p, l) PROVE UNCHANGED <<tr, moved, req>>
  BY <1>3 DEF Drop, World, ExpireRead
<1>4. ASSUME NEW o, NEW q, Hold(o, p, l, q) PROVE UNCHANGED <<tr, moved, req>>
  BY <1>4 DEF Hold, World
<1> QED
  BY <1>1, <1>2, <1>3, <1>4 DEF Shop

\* A request writes only after it has read, and is answered.
LEMMA WritesAnswer ==
  ASSUME NEW u \in Users, Request(u), ~(\E op \in Ops, t \in Transfers : Read(u, op, t))
  PROVE  Answer(u) /\ req[u] # Idle
<1>1. ASSUME NEW op \in Ops, NEW flow, At(u, op, flow) PROVE req[u] # Idle
  BY <1>1 DEF At, Idle, Ops
<1>2. CASE \/ \E from, to \in Locations : Reroute(u, from, to)
           \/ StoreApprove(u) \/ StoreCancel(u) \/ GiveUp(u)
  BY <1>1, <1>2 DEF Reroute, StoreApprove, StoreCancel, GiveUp, Refuse, Ops
<1>3. CASE \E named \in SUBSET Products, units \in Quantities : StoreReceive(u, named, units)
  BY <1>1, <1>3 DEF StoreReceive, Ops
<1>4. CASE OrgApprove(u) \/ OrgDispatch(u) \/ OrgCancel(u)
  BY <1>1, <1>4 DEF OrgApprove, OrgDispatch, OrgCancel, Refuse, Ops
<1>5. CASE \E got \in Quantities : OrgReceive(u, got)
  BY <1>1, <1>5 DEF OrgReceive, Ops
<1> QED
  BY <1>2, <1>3, <1>4, <1>5 DEF Request

\* Requests take turns: at most one is between its read and its write.
LEMMA TurnsAreKept ==
  ASSUME "overlap" \notin Env, Accounted, Next PROVE Alone'
<1>1. CASE \E t \in Transfers, from, to \in Locations, units \in Quantities :
             Create(t, from, to, units) \/ CreateAndComplete(t, from, to, units)
  BY <1>1 DEF Create, CreateAndComplete, Undisturbed, On, Alone
<1>2. CASE \E p \in Products, l \in Locations : Shop(p, l)
  <2>1. UNCHANGED <<tr, req>>
    BY <1>2, ShopTouchesNoTransfer
  <2> QED
    BY <2>1 DEF Accounted, Alone, Accepts
<1>3. CASE ExpireWrite
  BY <1>3 DEF ExpireWrite, Accounted, Alone, Accepts
<1>4. ASSUME NEW u \in Users, NEW op \in Ops, NEW t \in Transfers, Read(u, op, t)
      PROVE  Alone'
  <2> DEFINE r == [pc |-> op, t |-> t, row |-> tr[t]]
  <2>1. /\ \A v \in Users : req[v] = Idle
        /\ req' = [req EXCEPT ![u] = r] /\ tr' = tr /\ Accepts(t, op, tr[t].status)
    BY <1>4 DEF Read, Undisturbed, On
  <2>2. r.pc = op /\ r.t = t /\ r.row = tr[t]
    OBVIOUS
  <2> HIDE DEF r
  <2>3. req'[u] = r /\ \A v \in Users \ {u} : req'[v] = Idle
    BY <2>1 DEF Accounted, Sound, RequestsSound
  <2> QED
    BY <2>1, <2>2, <2>3 DEF Alone, Accepts
<1>5. ASSUME NEW u \in Users, Answer(u), req[u] # Idle PROVE Alone'
  <2>1. \A v \in Users : req'[v] = Idle
    BY <1>5 DEF Answer, Accounted, Alone, Sound, RequestsSound
  <2> QED
    BY <2>1 DEF Alone
<1> QED
  BY <1>1, <1>2, <1>3, <1>4, <1>5, WritesAnswer DEF Next

LEMMA StepIsKept ==
  ASSUME Accounted, [Next]_vars PROVE Kept
<1>1. CASE UNCHANGED vars
  BY <1>1, UntouchedIsKept DEF vars
<1>2. CASE \E t \in Transfers, from, to \in Locations, units \in Quantities :
             Create(t, from, to, units) \/ CreateAndComplete(t, from, to, units)
  BY <1>2, CreationIsKept
<1>3. CASE \E u \in Users : Request(u)
  BY <1>3, StoreRequestIsKept, SealIsKept, DispatchIsKept, ReceptionIsKept, CancellationIsKept
     DEF Request
<1>4. CASE ExpireWrite \/ \E p \in Products, l \in Locations : Shop(p, l)
  <2>1. UNCHANGED <<tr, moved>>
    BY <1>4, ShopTouchesNoTransfer DEF ExpireWrite
  <2> QED
    BY <2>1, UntouchedIsKept
<1> QED
  BY <1>1, <1>2, <1>3, <1>4 DEF Next

LEMMA StartIsAccounted == Init => Accounted /\ Promise!Init
<1> SUFFICES ASSUME Init PROVE Accounted /\ Promise!Init
  OBVIOUS
<1>1. \A t \in ByOrg : OnTheRoad(t) = None
  BY DEF Init, ByOrg, OnTheRoad, None
<1>2. \A t \in ByOrg : tr[t].status = "none" /\ tr[t].received = None
  BY DEF Init, ByOrg
<1>3. Alone /\ NothingArrivedEarly /\ RoadAccounted
  BY <1>1, <1>2 DEF Init, Alone, NothingArrivedEarly, RoadAccounted
<1>4. Promise!Init
  <2>1. Phase = [t \in ByOrg |-> "planned"]
    BY <1>2 DEF Phase, Closed
  <2>2. Road = [t \in ByOrg |-> None]
    BY <1>1 DEF Road
  <2> QED
    BY <2>1, <2>2 DEF Promise!Init, Promise!Nothing, None
<1> QED
  BY <1>3, <1>4, StartIsSound DEF Accounted

LEMMA StepIsAccounted ==
  ASSUME "overlap" \notin Env
  PROVE  Accounted /\ [Next]_vars => Accounted' /\ ShipmentStep
<1> SUFFICES ASSUME Accounted, [Next]_vars PROVE Accounted' /\ ShipmentStep
  OBVIOUS
<1>1. Sound'
  BY StepIsSound DEF Accounted
<1>2. Kept
  BY StepIsKept
<1>3. Alone'
  <2>1. CASE UNCHANGED vars
    BY <2>1 DEF vars, Accounted, Alone, Accepts
  <2>2. CASE Next
    BY <2>2, TurnsAreKept
  <2> QED
    BY <2>1, <2>2
<1> QED
  BY <1>1, <1>2, <1>3 DEF Accounted, Kept

\* While requests take turns, the units that dispatch took out of the origin of
\* an organization's transfer are in its destination, back, or still awaited,
\* for any number of transfers, products and partial receptions.
THEOREM RoadAccountedHolds ==
  ASSUME "overlap" \notin Env PROVE Spec => []RoadAccounted
<1>1. Accounted => RoadAccounted
  BY DEF Accounted
<1> QED
  BY <1>1, StartIsAccounted, StepIsAccounted, PTL DEF Spec

\* While requests take turns, OrgTransfersService implements Shipments: sent once,
\* delivered at most once unit by unit, over only with nothing on the road.
THEOREM TransfersAreShipments ==
  ASSUME "overlap" \notin Env PROVE Spec => ImplementsShipments
<1> QED
  BY StartIsAccounted, StepIsAccounted, PTL DEF Spec, ImplementsShipments, Promise!Spec, ShipmentStep

-----------------------------------------------------------------------------
(* What a transfer holds *)

HeldOnTheWay ==
  \A t \in Transfers : Flow[t] = "org" \/ tr[t].status # "in_transit" =>
    \A p \in Products, l \in Locations : held[t][p][l] = 0

\* No transfer changes, and none holds more than it did.
LEMMA NoMoreIsHeld ==
  ASSUME HeldOnTheWay, UNCHANGED tr,
         \A t \in Transfers, p \in Products, l \in Locations : held'[t][p][l] \in {held[t][p][l], 0}
  PROVE  HeldOnTheWay'
  BY DEF HeldOnTheWay

\* One transfer changes, its status included, and then holds nothing or is in
\* transit for the store.
LEMMA OneHolds ==
  ASSUME HeldOnTheWay, NEW t \in Transfers,
         \A s \in Transfers \ {t} : tr'[s] = tr[s] /\ held'[s] = held[s],
         \/ Flow[t] = "store" /\ tr'[t].status = "in_transit"
         \/ \A p \in Products, l \in Locations : held'[t][p][l] = 0
  PROVE  HeldOnTheWay'
  BY DEF HeldOnTheWay

LEMMA RequestHolds ==
  ASSUME Accounted, HeldOnTheWay, NEW u \in Users, Request(u) PROVE HeldOnTheWay'
<1> DEFINE t == req[u].t
<1>1. /\ tr \in [Transfers -> TransferType] /\ Transfers \subseteq Owners
      /\ held \in [Owners -> [Products -> [Locations -> Nat]]]
  BY DEF Accounted, Sound, TransfersSound, Owners
<1>2. CASE (\E op \in Ops, s \in Transfers : Read(u, op, s)) \/ Refuse(u)
  BY <1>2, NoMoreIsHeld DEF Read, Refuse
<1>3. ASSUME NEW op \in Ops, NEW flow, At(u, op, flow)
      PROVE  t \in Transfers /\ Flow[t] = flow /\ req[u].row = tr[t] /\ req[u] # Idle
  BY <1>3, CarriedRow DEF Accounted, Alone
<1>4. CASE \E from, to \in Locations : Reroute(u, from, to)
  <2>1. PICK from \in Locations, to \in Locations : Reroute(u, from, to)
    BY <1>4
  <2>2. t \in Transfers
    BY <1>3, <2>1 DEF Reroute, Ops
  <2>3. held' = held /\ \A s \in Transfers : tr'[s].status = tr[s].status
    BY <1>1, <2>1, <2>2 DEF Reroute, TransferType
  <2> QED
    BY <2>3 DEF HeldOnTheWay
<1>5. CASE StoreApprove(u) /\ ~Refuse(u)
  <2>1. /\ t \in Transfers /\ Flow[t] = "store"
    BY <1>3, <1>5 DEF StoreApprove, Ops
  <2>2. tr' = [tr EXCEPT ![t].status = "in_transit"]
    BY <1>5 DEF StoreApprove, Settled
  <2>3. \A s \in Owners \ {t} : held'[s] = held[s]
    BY <1>1, <1>5 DEF StoreApprove
  <2>4. tr'[t].status = "in_transit" /\ \A s \in Transfers \ {t} : tr'[s] = tr[s]
    BY <1>1, <2>1, <2>2 DEF TransferType
  <2> QED
    BY <1>1, <2>1, <2>3, <2>4, OneHolds
<1>6. ASSUME NothingHeld(t), t \in Transfers, \A s \in Transfers \ {t} : tr'[s] = tr[s]
      PROVE  HeldOnTheWay'
  BY <1>1, <1>6, OneHolds DEF NothingHeld
<1>7. CASE StoreCancel(u)
  <2>1. t \in Transfers /\ req[u].row = tr[t] /\ tr' = Settled("cancelled", t)
    BY <1>3, <1>7 DEF StoreCancel, Ops
  <2>2. \A s \in Transfers \ {t} : tr'[s] = tr[s]
    BY <1>1, <2>1 DEF Settled
  <2>3. CASE tr[t].status = "in_transit"
    BY <1>6, <1>7, <2>1, <2>2, <2>3 DEF StoreCancel, ReservedBy
  <2>4. CASE tr[t].status # "in_transit"
    <3>1. held' = held /\ \A p \in Products, l \in Locations : held[t][p][l] = 0
      BY <1>7, <2>1, <2>4 DEF StoreCancel, ReservedBy, HeldOnTheWay
    <3> QED
      BY <2>1, <2>2, <3>1, OneHolds
  <2> QED
    BY <2>3, <2>4
<1>8. ASSUME NEW named \in SUBSET Products, NEW units \in Quantities, StoreReceive(u, named, units)
      PROVE  HeldOnTheWay'
  <2>1. t \in Transfers /\ NothingHeld(t)
    BY <1>3, <1>8 DEF StoreReceive, Ops
  <2>2. \A s \in Transfers \ {t} : tr'[s] = tr[s]
    BY <1>1, <1>8 DEF StoreReceive
  <2> QED
    BY <1>6, <2>1, <2>2
<1>9. ASSUME t \in Transfers, Flow[t] = "org", held' = held,
             \A s \in Transfers \ {t} : tr'[s] = tr[s]
      PROVE  HeldOnTheWay'
  BY <1>9 DEF HeldOnTheWay
<1>10. CASE OrgApprove(u) \/ (OrgDispatch(u) /\ ~Refuse(u)) \/ OrgCancel(u)
  BY <1>1, <1>3, <1>9, <1>10 DEF OrgApprove, OrgDispatch, OrgCancel, Settled, Ops
<1>11. CASE \E got \in Quantities : OrgReceive(u, got)
  BY <1>1, <1>3, <1>9, <1>11 DEF OrgReceive, Ops
<1> QED
  BY <1>2, <1>4, <1>5, <1>7, <1>8, <1>10, <1>11 DEF Request, GiveUp

LEMMA StepHolds ==
  ASSUME Accounted, HeldOnTheWay, [Next]_vars PROVE HeldOnTheWay'
<1>1. CASE UNCHANGED vars
  BY <1>1 DEF vars, HeldOnTheWay
<1>2. held \in [Owners -> [Products -> [Locations -> Nat]]] /\ tr \in [Transfers -> TransferType]
  BY DEF Accounted, Sound, TransfersSound
<1>3. ASSUME NEW t \in Transfers, NEW from, NEW to, NEW units,
             Create(t, from, to, units) \/ CreateAndComplete(t, from, to, units)
      PROVE  HeldOnTheWay'
  <2>1. /\ tr[t].status = "none" /\ held' = held
        /\ \A s \in Transfers \ {t} : tr'[s] = tr[s]
    BY <1>2, <1>3 DEF Create, CreateAndComplete, New
  <2> QED
    BY <2>1 DEF HeldOnTheWay
<1>4. CASE \E u \in Users : Request(u)
  BY <1>4, RequestHolds
<1>5. ASSUME NEW p \in Products, NEW l \in Locations, Shop(p, l) PROVE HeldOnTheWay'
  <2>1. \A o \in Orders : o \notin Transfers
    BY OwnersAssumption
  <2>2. \A t \in Transfers : held'[t] = held[t]
    <3>1. ASSUME NEW q, Buy(p, l, q) \/ Sell(p, l, q) PROVE held' = held
      BY <3>1 DEF Buy, Sell
    <3>2. ASSUME NEW found, Count(p, l, found) PROVE held' = held
      BY <3>2 DEF Count
    <3>3. ASSUME NEW o \in Orders, Drop(o, p, l) PROVE \A t \in Transfers : held'[t] = held[t]
      BY <1>2, <2>1, <3>3 DEF Drop, Owners
    <3>4. ASSUME NEW o \in Orders, NEW q, Hold(o, p, l, q)
          PROVE  \A t \in Transfers : held'[t] = held[t]
      BY <1>2, <2>1, <3>4 DEF Hold, Owners
    <3>5. ASSUME NEW o, ExpireRead(o, p, l) PROVE held' = held
      BY <3>5 DEF ExpireRead
    <3> QED
      BY <1>5, <3>1, <3>2, <3>3, <3>4, <3>5 DEF Shop
  <2> QED
    BY <1>5, <2>2, ShopTouchesNoTransfer DEF HeldOnTheWay
<1>6. CASE ExpireWrite
  <2>1. held' = [held EXCEPT ![job.o][job.p][job.l] = 0] /\ UNCHANGED tr
    BY <1>6 DEF ExpireWrite
  <2>2. \A t \in Transfers, p \in Products, l \in Locations : held'[t][p][l] \in {held[t][p][l], 0}
    BY <1>2, <2>1 DEF Owners
  <2> QED
    BY <2>1, <2>2, NoMoreIsHeld
<1> QED
  BY <1>1, <1>3, <1>4, <1>5, <1>6 DEF Next

\* While requests take turns, a transfer that is received, cancelled or not yet
\* approved keeps no stock set apart, whatever was received in part or expired.
THEOREM ClosedHoldsNothingHolds ==
  ASSUME "overlap" \notin Env PROVE Spec => []ClosedHoldsNothing
<1>1. Init => Accounted /\ HeldOnTheWay
  BY StartIsAccounted DEF Init, HeldOnTheWay, Owners
<1>2. Accounted /\ HeldOnTheWay /\ [Next]_vars => Accounted' /\ HeldOnTheWay'
  BY StepIsAccounted, StepHolds
<1>3. HeldOnTheWay => ClosedHoldsNothing
  BY DEF HeldOnTheWay, ClosedHoldsNothing
<1> QED
  BY <1>1, <1>2, <1>3, PTL DEF Spec
=============================================================================
