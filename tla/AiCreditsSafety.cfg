\* Two reservations, two concurrent requests and a sweep of one wallet, also against
\* the promises of CreditWallet.
CONSTANTS
  NoKey = NoKey
  Reservations = {r1, r2}
  Purchases = {p1}
  Executions = {e1}
  Requests = {q1, q2}
  Sweepers = {s1}
  SweepBatch = 1
  PackCredits <- MCPackCredits
  MaxReservation = 2
  MaxAttempts = 2
  UsageCredits = {2}
  AdminCredits = {1}
  MaxLedger = 2
  MaxFaults = 1
SPECIFICATION Spec
SYMMETRY Symmetry
INVARIANTS
  TypeOK
  Solvent
  LedgerExplainsBalance
  AtMostOncePerKey
  ReservationsMatchLedger
PROPERTIES
  ClosedForGood
  ImplementsWallet
CHECK_DEADLOCK FALSE
