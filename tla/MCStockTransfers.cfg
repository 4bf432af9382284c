SPECIFICATION Spec
CONSTANTS
  t1 = t1
  t2 = t2
  Products = {p1}
  Locations = {l1, l2}
  Transfers = {t1, t2}
  Flow <- MCFlow
  Users = {u1}
  Orders = {o1}
  Stock = 1
  MaxLine = 2
  MaxStock = 2
  MaxMoved = 3
  Env <- EnvCalm
CHECK_DEADLOCK FALSE
INVARIANTS TypeOK RoadAccounted ReservedIsActive ClosedHoldsNothing NothingHiddenFromSale
PROPERTIES GoodsConserved ImplementsShipments
