CONSTANTS
  i1 = i1  i2 = i2  r1 = r1  r2 = r2  t1 = t1  t2 = t2
  Incident = {i1, i2}
  Router = {r1}
  Ticker = {t1, t2}
  NoAttempt = NoAttempt
  Severity <- MCSeverity
  IdOrder <- MCIdOrder
  Persistence = 2
  LeaseSeconds = 2
  Backoff = 1
  MaxAttempts = 2
  DailyLimit = 1
  GapDamper = 1
  DayLength = 3
  MaxStall = 1
  MaxGeneration = 1
  MaxTick = 2
  MaxClock = 3
SPECIFICATION Spec
SYMMETRY TickerPerms
INVARIANTS
  RetryAfterBackoff
  BudgetCountsAttempts
  WakesArePersistent
