\* Two concurrent turns of one or two provider calls, two attempts per call.
CONSTANTS
  NoKey = NoKey
  Turns = {t1, t2}
  Reservations = {r1, r2}
  Purchases = {p1}
  Executions = {t1, t2}
  Requests = {t1, t2, webhook}
  Sweepers = {s1}
  SweepBatch = 1
  PackCredits <- MCPackCredits
  MaxReservation = 2
  MaxAttempts = 2
  UsageCredits = {0, 1}
  AdminCredits = {}
  MaxLedger = 0
  MaxFaults = 0
  Quotes = {1}
  MaxIterations = 2
SPECIFICATION MeteringSpec
SYMMETRY TurnSymmetry
INVARIANTS
  MeteringTypeOK
  NeverUnderRecovers
  OneWayToCharge
PROPERTY ImplementsAiCredits
CHECK_DEADLOCK FALSE
