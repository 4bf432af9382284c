SPECIFICATION FairSpec
CONSTANTS
  a = a
  b = b
  c = c
  NoPlan = NoPlan
  OldPlan = c
  Plans <- MCPlans3
  Upgrades <- MCUpgrades3
  MaxInvoices = 3
  MaxPayments = 2
  Env <- EnvJobs
CHECK_DEADLOCK FALSE
INVARIANTS TypeOK PaidInvoiceWasTaken GoesHome
PROPERTIES ImplementsPurchase PaidIsFinal ParkedIsResolved
