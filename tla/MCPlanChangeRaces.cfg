SPECIFICATION Spec
CONSTANTS
  a = a
  b = b
  c = c
  NoPlan = NoPlan
  OldPlan = a
  Plans <- MCPlans
  Upgrades <- MCUpgrades
  MaxInvoices = 2
  MaxPayments = 2
  Env <- EnvRaces
CHECK_DEADLOCK FALSE
INVARIANTS PaidInvoiceIsCollected
PROPERTIES ImplementsPurchase
