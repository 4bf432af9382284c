SPECIFICATION FairSpec
CONSTANTS
  SoftDays = 1
  HardDays = 2
  SuspensionDay = 3
  CancellationDay = 4
  Cycle = 2
  TrialDays = 1
  MaxAttempts = 1
  Invoices = {i1, i2}
  Env <- EnvBilling
INVARIANTS TypeOK PastDueOnlyFromSuspension OneOpenInvoice DegradedOnlyWhenLapsed
PROPERTIES PaidWindowKept RetiredMotiveSurvives AutopayNeedsCard LapsedIsResolved
