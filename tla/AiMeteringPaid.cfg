\* One turn of two provider calls, two sweeps that may fail once; liveness.
CONSTANTS
  NoKey = NoKey
  Turns = {t1}
  Reservations = {r1, r2}
  Purchases = {p1}
  Executions = {t1}
  Requests = {t1, webhook}
  Sweepers = {s1, s2}
  SweepBatch = 1
  PackCredits <- MCPackCredits
  MaxReservation = 2
  MaxAttempts = 2
  UsageCredits = {0, 1}
  AdminCredits = {}
  MaxLedger = 0
  MaxFaults = 1
  Quotes = {1}
  MaxIterations = 2
SPECIFICATION MeteringFairSpec
PROPERTIES
  WorkIsPaid
  HoldsAreResolved
CHECK_DEADLOCK FALSE
