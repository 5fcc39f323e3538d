\* One purchase, two handlers, an error and two crashes.
CONSTANTS
  NoKey = NoKey
  Reservations = {}
  Purchases = {p1}
  Executions = {}
  Requests = {w1, w2}
  Sweepers = {}
  SweepBatch = 1
  PackCredits <- MCPackCredits
  MaxReservation = 1
  MaxAttempts = 1
  UsageCredits = {1}
  AdminCredits = {}
  MaxLedger = 1
  MaxFaults = 0
  PlanPayments = {}
  SuccessEvents <- MCSuccessEvents
  Webhooks = {w1, w2}
  MaxErrors = 1
  MaxCrashes = 2
SPECIFICATION BillingFairSpec
PROPERTY PaidIsFulfilled
CHECK_DEADLOCK FALSE
