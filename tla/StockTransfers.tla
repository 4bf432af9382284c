--------------------------- MODULE StockTransfers ---------------------------
(***************************************************************************)
(* Moving goods between locations.  Two services write the same table of   *)
(* transfers: the store's, which reserves at the origin on approval and    *)
(* moves the goods on reception, and the organization's, which takes the   *)
(* goods out on dispatch and puts them in on reception.  Around them,      *)
(* orders hold and release stock, goods are sold, bought and counted, and  *)
(* reservations expire.                                                    *)
(*                                                                         *)
(* A transfer has one line per product it carries.  A request that decides *)
(* on what it read before its transaction, or inside it without a lock, is *)
(* a Read and a Write.                                                     *)
(***************************************************************************)
EXTENDS StockLevels, FiniteSetsExt

CONSTANTS
  Products, Locations,
  Transfers,     \* rows a behaviour may create
  Flow,          \* the service that handles each transfer: "org" or "store"
  Users,         \* concurrent requests
  Orders,        \* reservations of other documents
  Stock,         \* units of each product in each location at the start
  MaxLine, MaxStock, MaxMoved,  \* bounds: units per line, per location, per transfer
  Env            \* which of EnvEvents happen in this run

EnvEvents == {"overlap", "expiry"}

ASSUME FlowAssumption == Flow \in [Transfers -> {"org", "store"}]
ASSUME OwnersAssumption == Transfers \cap Orders = {}
ASSUME FinitenessAssumption == IsFiniteSet(Transfers) /\ IsFiniteSet(Orders) /\ IsFiniteSet(Locations)
ASSUME BoundsAssumption == Stock \in Nat /\ MaxLine \in Nat /\ MaxStock \in Nat /\ MaxMoved \in Nat
ASSUME EnvAssumption == Env \subseteq EnvEvents

VARIABLES
  level,   \* stock_levels by product and location
  held,    \* active stock_reservations: units by owner, product and location
  tr,      \* stock_transfers with their items
  moved,   \* inventory_movements of each transfer: units out, in and back
  req,     \* requests in flight, with the row they read
  job      \* the expiry job, with the reservation it read

vars == <<level, held, tr, moved, req, job>>

Owners == Transfers \union Orders
Quantities == [Products -> 0..MaxLine]
None == [p \in Products |-> 0]
Statuses == {"none", "pending", "approved", "in_transit", "received", "completed", "cancelled"}
Closed == {"received", "completed", "cancelled"}
Idle == [pc |-> "idle"]

TransferType == [status : Statuses, from : Locations, to : Locations,
                 qty : Quantities, received : Quantities]
Ops == {"approve", "dispatch", "receive", "cancel", "reroute"}

TypeOK ==
  /\ level \in [Products -> [Locations -> LevelType]]
  /\ held \in [Owners -> [Products -> [Locations -> Nat]]]
  /\ tr \in [Transfers -> TransferType]
  /\ moved \in [Transfers -> [out : [Products -> Nat], in : [Products -> Nat], back : [Products -> Nat]]]
  /\ req \in [Users -> {Idle} \union [pc : Ops, t : Transfers, row : TransferType]]
  /\ job \in {Idle} \union [pc : {"expire"}, o : Owners, p : Products, l : Locations, q : Nat]

On(event) == event \in Env
Undisturbed == On("overlap") \/ (job = Idle /\ \A u \in Users : req[u] = Idle)

Init ==
  /\ level = [p \in Products |-> [l \in Locations |-> Opening(Stock)]]
  /\ held = [o \in Owners |-> [p \in Products |-> [l \in Locations |-> 0]]]
  /\ \E l \in Locations :
       tr = [t \in Transfers |->
               [status |-> "none", from |-> l, to |-> l, qty |-> None, received |-> None]]
  /\ moved = [t \in Transfers |-> [out |-> None, in |-> None, back |-> None]]
  /\ req = [u \in Users |-> Idle] /\ job = Idle

-----------------------------------------------------------------------------
(* Stock *)

\* One call per line: Change(old level, units) at one location, for a vector
\* of units by product; a line of no units is skipped.
AtLocation(Change(_, _), units, l) ==
  [p \in Products |-> IF units[p] = 0 THEN level[p]
                      ELSE [level[p] EXCEPT ![l] = Change(@, units[p])]]

Out(lv, q) == Moved(lv, -q)

\* updateStock at the origin, then at the destination.
Shift(units, from, to) ==
  [p \in Products |-> IF units[p] = 0 THEN level[p]
     ELSE [level[p] EXCEPT ![from] = Moved(@, -units[p]), ![to] = Moved(@, units[p])]]

\* A bug to catch: some stock is enough, however much is asked for.
CoveredByAny(units, l) == \A p \in Products : units[p] > 0 => level[p][l].available > 0
Covered(units, l) == \A p \in Products : units[p] > 0 => level[p][l].available >= units[p]

\* releaseReservationsByReference on levels lv: every active reservation of
\* the owner, wherever it is.
Release(lv, o, Change(_, _)) ==
  [p \in Products |-> [l \in Locations |->
     IF held[o][p][l] = 0 THEN lv[p][l] ELSE Change(lv[p][l], held[o][p][l])]]
NothingHeld(o) == held' = [held EXCEPT ![o] = [p \in Products |-> [l \in Locations |-> 0]]]

Settled(status, t) == [tr EXCEPT ![t].status = status]
Plus(f, g) == [p \in Products |-> f[p] + g[p]]
Minus(f, g) == [p \in Products |-> f[p] - g[p]]

-----------------------------------------------------------------------------
(* Creation *)

New(t, from, to, units, status) ==
  /\ tr[t].status = "none" /\ from # to /\ units # None
  /\ tr' = [tr EXCEPT ![t] = [status |-> status, from |-> from, to |-> to, qty |-> units,
                              received |-> IF status = "completed" THEN units ELSE None]]

\* create: only the store's service looks at the stock.
Create(t, from, to, units) ==
  /\ Undisturbed
  /\ Flow[t] = "store" => Covered(units, from)
  /\ New(t, from, to, units, "pending")
  /\ UNCHANGED <<level, held, moved, req, job>>

\* createAndComplete, of the store's service: everything in one transaction.
CreateAndComplete(t, from, to, units) ==
  /\ Undisturbed /\ Flow[t] = "store" /\ Covered(units, from)
  /\ New(t, from, to, units, "completed")
  /\ level' = Shift(units, from, to)
  /\ moved' = [moved EXCEPT ![t].out = units, ![t].in = units]
  /\ UNCHANGED <<held, req, job>>

-----------------------------------------------------------------------------
(* Requests *)

\* The status each operation of each service accepts.
StoreAccepts(op, status) ==
  CASE op \in {"approve", "reroute"} -> status = "pending"
    [] op = "receive" -> status = "in_transit"
    [] op = "cancel" -> status \notin Closed
    [] OTHER -> FALSE

\* A bug to catch: what is on the road is dispatched again.
OrgAcceptsAgain(op, status) ==
  CASE op = "approve" -> status = "pending"
    [] op = "dispatch" -> status \in {"approved", "in_transit"}
    [] op = "receive" -> status = "in_transit"
    [] op = "cancel" -> status \notin Closed
    [] OTHER -> FALSE
OrgAccepts(op, status) ==
  CASE op = "approve" -> status = "pending"
    [] op = "dispatch" -> status = "approved"
    [] op = "receive" -> status = "in_transit"
    [] op = "cancel" -> status \notin Closed
    [] OTHER -> FALSE
Accepts(t, op, status) ==
  IF Flow[t] = "store" THEN StoreAccepts(op, status) ELSE OrgAccepts(op, status)

Read(u, op, t) ==
  /\ req[u] = Idle /\ Undisturbed
  /\ tr[t].status # "none" /\ Accepts(t, op, tr[t].status)
  /\ req' = [req EXCEPT ![u] = [pc |-> op, t |-> t, row |-> tr[t]]]
  /\ UNCHANGED <<level, held, tr, moved, job>>

Answer(u) == req' = [req EXCEPT ![u] = Idle] /\ UNCHANGED job

\* An exception: the transaction, if any, is rolled back.
Refuse(u) == Answer(u) /\ UNCHANGED <<level, held, tr, moved>>

At(u, op, flow) == req[u].pc = op /\ Flow[req[u].t] = flow

\* update of a pending transfer: the header, locations included; unlike create
\* it does not compare the two.
Reroute(u, from, to) ==
  /\ At(u, "reroute", "store")
  /\ tr' = [tr EXCEPT ![req[u].t].from = from, ![req[u].t].to = to]
  /\ Answer(u) /\ UNCHANGED <<level, held, moved>>

\* Store: approve reserves every line at the origin and puts the transfer in
\* transit, or nothing happens.
StoreApprove(u) ==
  LET t == req[u].t  row == req[u].row
  IN /\ At(u, "approve", "store")
     /\ IF \A p \in Products : row.qty[p] > 0 =>
             MayReserve(level[p][row.from], row.qty[p], FALSE)
        THEN /\ level' = AtLocation(Reserved, row.qty, row.from)
             /\ held' = [held EXCEPT ![t] = [p \in Products |-> [l \in Locations |->
                           held[t][p][l] + IF l = row.from THEN row.qty[p] ELSE 0]]]
             /\ tr' = Settled("in_transit", t)
             /\ Answer(u) /\ UNCHANGED moved
        ELSE Refuse(u)

\* Store: complete writes the received quantities of the lines it names, moves
\* those units, releases whatever the transfer still held, and closes it when
\* this very request received every line in full.
StoreReceive(u, named, units) ==
  LET t == req[u].t  row == req[u].row
      got == [p \in Products |-> IF p \in named THEN units[p] ELSE 0]
  IN /\ At(u, "receive", "store")
     /\ \A p \in Products : p \in named => row.qty[p] > 0 /\ units[p] <= row.qty[p]
     /\ \A p \in Products : moved[t].in[p] + got[p] <= MaxMoved
     /\ tr' = [tr EXCEPT ![t].received = [p \in Products |-> IF p \in named THEN units[p] ELSE @[p]],
                         ![t].status = IF \A p \in Products : row.qty[p] > 0 =>
                                            p \in named /\ units[p] >= row.qty[p]
                                       THEN "completed" ELSE "in_transit"]
     /\ level' = Release(Shift(got, row.from, row.to), t, Consumed)
     /\ NothingHeld(t)
     /\ moved' = [moved EXCEPT ![t].out = Plus(@, got), ![t].in = Plus(@, got)]
     /\ Answer(u)

\* Store: cancel frees what the approval reserved.
\* A bug to catch: the approved ones are looked for, and none is.
ReservedByApproved(status) == status = "approved"
ReservedBy(status) == status = "in_transit"
StoreCancel(u) ==
  LET t == req[u].t
  IN /\ At(u, "cancel", "store")
     /\ IF ReservedBy(req[u].row.status)
        THEN level' = Release(level, t, Freed) /\ NothingHeld(t)
        ELSE UNCHANGED <<level, held>>
     /\ tr' = Settled("cancelled", t)
     /\ Answer(u) /\ UNCHANGED moved

\* Organization: approve is a seal.
OrgApprove(u) ==
  /\ At(u, "approve", "org")
  /\ tr' = Settled("approved", req[u].t)
  /\ Answer(u) /\ UNCHANGED <<level, held, moved>>

\* Organization: dispatch takes every line out of the origin, or nothing.
OrgDispatch(u) ==
  LET t == req[u].t  row == req[u].row
  IN /\ At(u, "dispatch", "org")
     /\ IF Covered(row.qty, row.from)
        THEN /\ level' = AtLocation(Out, row.qty, row.from)
             /\ tr' = Settled("in_transit", t)
             /\ moved' = [moved EXCEPT ![t].out = Plus(@, row.qty)]
             /\ Answer(u) /\ UNCHANGED held
        ELSE Refuse(u)

\* Organization: complete puts what arrived in the destination, on top of what
\* had arrived when the row was read.
\* A bug to catch: the rest is what was shipped, whatever arrived before.
RestForgotten(row) == row.qty
Rest(row) == Minus(row.qty, row.received)
OrgReceive(u, got) ==
  LET t == req[u].t  row == req[u].row
      received == [p \in Products |-> IF got[p] > 0 THEN row.received[p] + got[p]
                                      ELSE tr[t].received[p]]
  IN /\ At(u, "receive", "org")
     /\ \A p \in Products : got[p] <= Rest(row)[p]
     /\ level' = AtLocation(Moved, got, row.to)
     /\ tr' = [tr EXCEPT ![t].received = received,
                         ![t].status = IF \A p \in Products : received[p] >= row.qty[p]
                                       THEN "received" ELSE "in_transit"]
     /\ moved' = [moved EXCEPT ![t].in = Plus(@, got)]
     /\ Answer(u) /\ UNCHANGED held

\* Organization: cancel brings back what is on the road.
OrgCancel(u) ==
  LET t == req[u].t  row == req[u].row
      rest == IF row.status = "in_transit" THEN Rest(row) ELSE None
  IN /\ At(u, "cancel", "org")
     /\ level' = AtLocation(Moved, rest, row.from)
     /\ tr' = Settled("cancelled", t)
     /\ moved' = [moved EXCEPT ![t].back = Plus(@, rest)]
     /\ Answer(u) /\ UNCHANGED held

\* A request that names more than it may, or gives up.
GiveUp(u) == req[u] # Idle /\ Refuse(u)

Request(u) ==
  \/ \E op \in Ops, t \in Transfers : Read(u, op, t)
  \/ \E from, to \in Locations : Reroute(u, from, to)
  \/ StoreApprove(u)
  \/ \E named \in SUBSET Products, units \in Quantities : named # {} /\ StoreReceive(u, named, units)
  \/ StoreCancel(u)
  \/ OrgApprove(u) \/ OrgDispatch(u) \/ OrgCancel(u)
  \/ \E got \in Quantities : OrgReceive(u, got)
  \/ GiveUp(u)

-----------------------------------------------------------------------------
(* The rest of the shop, one call at a time *)

World(p, l, lv) == Undisturbed /\ level' = [level EXCEPT ![p][l] = lv] /\ UNCHANGED <<tr, moved, req, job>>

\* A purchase, a sale with its check, and a count that sets on_hand to what
\* was found, which may be less than is reserved.
Buy(p, l, q) ==
  level[p][l].on_hand + q <= MaxStock /\ World(p, l, Moved(level[p][l], q)) /\ UNCHANGED held
Sell(p, l, q) ==
  level[p][l].available >= q /\ World(p, l, Sold(level[p][l], q)) /\ UNCHANGED held
Count(p, l, found) ==
  World(p, l, Moved(level[p][l], found - level[p][l].on_hand)) /\ UNCHANGED held

\* An order holds units, and drops them.
Hold(o, p, l, q) ==
  /\ held[o][p][l] = 0 /\ MayReserve(level[p][l], q, FALSE)
  /\ World(p, l, Reserved(level[p][l], q))
  /\ held' = [held EXCEPT ![o][p][l] = q]
Drop(o, p, l) ==
  /\ held[o][p][l] > 0
  /\ World(p, l, Freed(level[p][l], held[o][p][l]))
  /\ held' = [held EXCEPT ![o][p][l] = 0]

\* The hourly job reads the reservations past their date, then expires each
\* one without looking at it again.
ExpireRead(o, p, l) ==
  /\ On("expiry") /\ job = Idle /\ Undisturbed /\ held[o][p][l] > 0
  /\ job' = [pc |-> "expire", o |-> o, p |-> p, l |-> l, q |-> held[o][p][l]]
  /\ UNCHANGED <<level, held, tr, moved, req>>
ExpireWrite ==
  /\ job # Idle
  /\ level' = [level EXCEPT ![job.p][job.l] = Freed(@, job.q)]
  /\ held' = [held EXCEPT ![job.o][job.p][job.l] = 0]
  /\ job' = Idle /\ UNCHANGED <<tr, moved, req>>

Shop(p, l) ==
  \/ \E q \in 1..MaxLine : Buy(p, l, q) \/ Sell(p, l, q)
  \/ \E found \in 0..MaxStock : found # level[p][l].on_hand /\ Count(p, l, found)
  \/ \E o \in Orders : Drop(o, p, l) \/ \E q \in 1..MaxLine : Hold(o, p, l, q)
  \/ \E o \in Owners : ExpireRead(o, p, l)

Next ==
  \/ \E t \in Transfers, from, to \in Locations, units \in Quantities :
       Create(t, from, to, units) \/ CreateAndComplete(t, from, to, units)
  \/ \E u \in Users : Request(u)
  \/ \E p \in Products, l \in Locations : Shop(p, l)
  \/ ExpireWrite

Spec == Init /\ [][Next]_vars
-----------------------------------------------------------------------------
(* What transfers keep *)

ByOrg == {t \in Transfers : Flow[t] = "org"}
OnTheRoad(t) == [p \in Products |-> moved[t].out[p] - moved[t].in[p] - moved[t].back[p]]

\* A unit the organization's service took out of its origin arrived, came
\* back, or is what the transfer in transit still waits for (dispatch,
\* complete and cancel of OrgTransfersService).
RoadAccounted ==
  \A t \in ByOrg :
    OnTheRoad(t) = IF tr[t].status = "in_transit" THEN Minus(tr[t].qty, tr[t].received) ELSE None

\* The reserved counter of a level is the sum of its active reservations: no
\* operation releases more, or less, than what is registered.
ReservedIsActive ==
  \A p \in Products, l \in Locations :
    level[p][l].reserved = MapThenSumSet(LAMBDA o : held[o][p][l], Owners)

\* Every way to close a transfer of the store leaves no stock set apart for it.
ClosedHoldsNothing ==
  \A t \in Transfers : tr[t].status # "in_transit" =>
    \A p \in Products, l \in Locations : held[t][p][l] = 0

\* The quantities never err on the side of hiding goods: what is on hand and
\* not reserved can be sold, whatever was clipped at zero on the way.
NothingHiddenFromSale == \A p \in Products, l \in Locations : NothingHidden(level[p][l])

\* A step of a transfer of the organization neither creates nor loses units,
\* as long as its origin promises no more than it has (a reception of the
\* store's or a count may leave it so): those on the shelves and those on the
\* road add up to the same.
AllUnits(p) == MapThenSumSet(LAMBDA l : level[p][l].on_hand, Locations)
               + MapThenSumSet(LAMBDA t : OnTheRoad(t)[p], ByOrg)
Backed(l) == \A p \in Products : level[p][l].available <= level[p][l].on_hand
GoodsConserved ==
  [][(\E t \in ByOrg : (tr'[t] # tr[t] \/ moved'[t] # moved[t]) /\ Backed(tr[t].from))
       => \A p \in Products : AllUnits(p)' = AllUnits(p)]_vars

\* Each transfer of the organization is a shipment.
Phase == [t \in ByOrg |-> CASE tr[t].status = "in_transit" -> "sent"
                            [] tr[t].status \in Closed -> "over" [] OTHER -> "planned"]
Road == [t \in ByOrg |-> OnTheRoad(t)]
Promise == INSTANCE Shipments WITH Shipped <- ByOrg, Goods <- Products, phase <- Phase, road <- Road
ImplementsShipments == Promise!Spec

-----------------------------------------------------------------------------
(* What a comment of the code says of it and the model refutes *)

\* A line credits the destination with no more than was shipped on it.
CreditedAtMostShipped == \A t \in Transfers, p \in Products : moved[t].in[p] <= tr[t].qty[p]
=============================================================================
