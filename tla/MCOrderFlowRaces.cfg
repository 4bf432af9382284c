SPECIFICATION Spec
CONSTANTS
  o1 = o1
  o2 = o2
  Orders = {o1}
  Online = {}
  Shipping = {}
  Units <- MCOneUnit
  Users = {u1, u2}
  Stock = 2
  MaxPayments = 1
  MaxRows = 2
  Env <- EnvRaces
CHECK_DEADLOCK FALSE
INVARIANTS UnitsConserved
