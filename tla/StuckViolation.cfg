SPECIFICATION FairSpec
CONSTANTS
  o1 = o1
  o2 = o2
  Orders = {o1}
  Online = {o1}
  Shipping = {o1}
  Units <- MCOneUnit
  Users = {u1}
  Stock = 1
  MaxPayments = 2
  MaxRows = 1
  Env <- EnvCrash
CHECK_DEADLOCK FALSE
PROPERTIES ApprovedMovesOn
