SPECIFICATION FairSpec
CONSTANTS
  Jobs = {j1}
  Runners = {r1, r2, r3}
  Parts = 2
  MaxRetries = 1
  MaxFaults = 1
INVARIANTS
  TypeOK
  ExclusiveRun
  RunsBounded
  CompletedWasSent
  AlertIsTrue
PROPERTIES
  KeepsLedger
  EveryJobEnds
CHECK_DEADLOCK FALSE
