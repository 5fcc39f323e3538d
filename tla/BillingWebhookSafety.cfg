\* Two concurrent handlers, a credit purchase and a plan, an error, a crash and an adjustment.
CONSTANTS
  NoKey = NoKey
  Reservations = {}
  Purchases = {p1}
  Executions = {}
  Requests = {w1, w2}
  Sweepers = {}
  SweepBatch = 1
  PackCredits <- MCPackCredits
  MaxReservation = 1
  MaxAttempts = 1
  UsageCredits = {1}
  AdminCredits = {1}
  MaxLedger = 1
  MaxFaults = 0
  PlanPayments = {i1}
  SuccessEvents <- MCSuccessEvents
  Webhooks = {w1, w2}
  MaxErrors = 1
  MaxCrashes = 1
SPECIFICATION BillingSpec
SYMMETRY WebhookSymmetry
INVARIANTS
  BillingTypeOK
  OnlyPaidIsFulfilled
  FulfilledIsGranted
  ProcessedIsFulfilled
PROPERTY WebhooksUseTheWallet
CHECK_DEADLOCK FALSE
