-------------------------- MODULE MCStockTransfers --------------------------
(* Small instances of StockTransfers: one transfer of each service around   *)
(* two locations, one product or two.                                       *)
EXTENDS StockTransfers, TLC

CONSTANTS t1, t2

MCFlow == (t1 :> "org") @@ (t2 :> "store")
MCStoreFlow == (t1 :> "store")
EnvCalm == {"expiry"}
EnvQuiet == {}
=============================================================================
