SPECIFICATION Spec
CONSTANTS
  t1 = t1
  t2 = t2
  Products = {p1}
  Locations = {l1, l2}
  Transfers = {t1}
  Flow <- MCStoreFlow
  Users = {u1}
  Orders = {}
  Stock = 2
  MaxLine = 2
  MaxStock = 2
  MaxMoved = 4
  Env <- EnvQuiet
CHECK_DEADLOCK FALSE
INVARIANTS CreditedAtMostShipped
