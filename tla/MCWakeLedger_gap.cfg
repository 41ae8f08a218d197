CONSTANTS
  i1 = i1  i2 = i2  r1 = r1  r2 = r2  t1 = t1  t2 = t2
  Incident = {i1}
  Router = {r1}
  Ticker = {t1}
  NoAttempt = NoAttempt
  Severity <- MCSeverity
  IdOrder <- MCIdOrder
  Persistence = 1
  LeaseSeconds = 2
  Backoff = 1
  MaxAttempts = 2
  DailyLimit = 2
  GapDamper = 1
  DayLength = 4
  MaxStall = 1
  MaxGeneration = 1
  MaxTick = 3
  MaxClock = 4
SPECIFICATION Spec
PROPERTIES
  NoWakeOnPostGapTick
