SPECIFICATION Spec
CONSTANTS
  SoftDays = 1
  HardDays = 2
  SuspensionDay = 3
  CancellationDay = 4
  Cycle = 4
  TrialDays = 1
  MaxAttempts = 1
  Invoices = {i1, i2}
  Env <- EnvQuiet
INVARIANT PastDueMeansDebt
