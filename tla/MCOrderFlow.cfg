SPECIFICATION Spec
CONSTANTS
  o1 = o1
  o2 = o2
  Orders = {o1, o2}
  Online = {o1}
  Shipping = {o1}
  Units <- MCUnits
  Users = {u1}
  Stock = 1
  MaxPayments = 2
  MaxRows = 2
  Env <- EnvCalm
CHECK_DEADLOCK FALSE
INVARIANTS TypeOK ReservedIsActive OnlineIsBacked TakenIsOver CancelledOwesNothing
