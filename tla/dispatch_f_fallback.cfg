SPECIFICATION FairSpec
CONSTANTS
  Orders = {o1}
  Riders = {r1, r2, r3}
  NoRider = NoRider
  Requests = {w1}
  Max = 2
PROPERTIES
  FallsBackToManual
