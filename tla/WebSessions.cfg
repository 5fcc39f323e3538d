\* No symmetry, because a liveness property is checked.
CONSTANTS
  Instances = {a, b}
  MaxConnects = 2
  MaxAttempts = 1
  MaxRequests = 2
  MaxLapses = 1
  MaxFaults = 1
SPECIFICATION FairSpec
INVARIANTS
  SessionTypeOK
  RetriesAreBounded
  ReconnectsWithItsKeys
PROPERTY LostLeaseIsYielded
CHECK_DEADLOCK FALSE
