\* One process, and a phone that is paired and loses its connection.
CONSTANTS
  Instances = {a}
  MaxConnects = 3
  MaxAttempts = 2
  MaxRequests = 1
  MaxLapses = 0
  MaxFaults = 0
SPECIFICATION Spec
PROPERTY PairedIsNotUnscanned
CHECK_DEADLOCK FALSE
