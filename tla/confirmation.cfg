SPECIFICATION FairSpec
CONSTANTS
  Orders = {o1}
  Sweeps = {s1, s2}
  Requests = {q1, q2}
  Limit = 1
  Deliveries = {10}
  Horizon = 16
INVARIANTS
  TypeOK
  RemindedOnce
  ClosesOnlyUnreported
  HeardOnce
PROPERTIES
  ConfirmedOnce
  EveryOrderSettles
CHECK_DEADLOCK FALSE
