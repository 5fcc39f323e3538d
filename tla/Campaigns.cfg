\* Four requests (create, launch, pause, resume), of which the third may delete the campaign
\* while the others are under way; three jobs; two faults of the first job, enough to use up
\* its attempts or to kill its worker twice; no symmetry, because a liveness property is checked.
CONSTANTS
  Recipients = {a, b}
  OptingOut = {a}
  MaxJobs = 3
  MaxRequests = 4
  Deleters = {3}
  BatchSize = 1
  Concurrency = 2
  Attempts = 2
  MaxFaults = 2
  FaultyJobs = {1}
SPECIFICATION FairSpec
INVARIANTS
  TypeOK
  SentIsReal
  CompletedMeansDone
  OncePerDelivery
PROPERTY LaunchedIsCompleted
CHECK_DEADLOCK FALSE
