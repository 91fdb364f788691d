SPECIFICATION FairSpec
CONSTANTS
  Riders = {1}
  Earnings = {1, 2}
  RiderOf <- Owner
  Amount <- Fee
  Payouts = {p1, p2}
  NoPayout = NoPayout
  Runs = {u1}
  NoRun = NoRun
  MinPayout = 1
  MaxTransfer = 1
  RiderDay = 1
  PlatformDay = 1
  MaxPerRun = 1
INVARIANTS
  WithinDay
PROPERTIES
  EveryTransferSettles
CHECK_DEADLOCK FALSE
