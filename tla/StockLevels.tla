---------------------------- MODULE StockLevels ----------------------------
(***************************************************************************)
(* A row of stock_levels, the quantities of one product in one location,   *)
(* and what each operation of StockLevelManager does to it.  Every         *)
(* operation reads the row, computes the new quantities and writes them as *)
(* absolute values.                                                        *)
(***************************************************************************)
EXTENDS Integers

NotNegative(n) == IF n < 0 THEN 0 ELSE n

Opening(n) == [on_hand |-> n, reserved |-> 0, available |-> n]
LevelType == [on_hand : Nat, reserved : Nat, available : Int]

\* updateStock, any movement but a sale: available is recomputed, and both
\* quantities are clipped at zero.
Moved(level, change) ==
  [level EXCEPT !.on_hand = NotNegative(@ + change),
                !.available = NotNegative(level.on_hand + change - level.reserved)]

\* updateStock for a sale: available goes down by itself.
Sold(level, q) ==
  [level EXCEPT !.on_hand = NotNegative(@ - q), !.available = NotNegative(@ - q)]

\* reserveStock, once its checks passed.
Reserved(level, q) == [level EXCEPT !.reserved = @ + q, !.available = @ - q]

\* A bug to catch: the counter is released and the shelf is not.
FreedWithoutShelf(level, q) == [level EXCEPT !.reserved = NotNegative(@ - q)]

\* releaseReservation, the cancelled releases and the expiry: what was set
\* apart goes back to the shelf.
Freed(level, q) == [level EXCEPT !.reserved = NotNegative(@ - q), !.available = @ + q]

\* A bug to catch: available is recomputed and the counter is not.
ConsumedUncounted(level, q) ==
  [level EXCEPT !.available = NotNegative(level.on_hand - level.reserved + q)]

\* A consumed release with decrementOnHand: false, after the goods left by
\* updateStock: available is recomputed.
Consumed(level, q) ==
  LET left == NotNegative(level.reserved - q)
  IN [level EXCEPT !.reserved = left, !.available = NotNegative(level.on_hand - left)]

\* reserveStock: the check of its callers, and the floor that no reservation
\* crosses unless its caller oversells on purpose.
MayReserve(level, q, oversell) == oversell \/ level.available >= q

\* No unit on the shelf is hidden from sale: the errors of these quantities,
\* if any, are on the side of promising too much.
NothingHidden(level) == level.available >= level.on_hand - level.reserved
=============================================================================
