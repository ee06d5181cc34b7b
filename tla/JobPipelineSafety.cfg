SPECIFICATION Spec
CONSTANTS
  j1 = j1
  j2 = j2
  r1 = r1
  r2 = r2
  w1 = w1
  w2 = w2
  NoJob = NoJob
  Jobs <- TwoJobs
  Relays <- TwoRelays
  Workers <- TwoWorkers
  RelayLimit = 2
  MaxAttempts = 2
  MaxFaults = 1
  Faults <- AllFaults
CHECK_DEADLOCK FALSE
INVARIANT PublishedWasSent
PROPERTY ImplementsDurableJobs
