SPECIFICATION Spec
CONSTANTS
  Riders = {1}
  Earnings = {1}
  RiderOf <- Owner
  Amount <- Fee
  Payouts = {p1, p2}
  NoPayout = NoPayout
  Runs = {u1, u2}
  NoRun = NoRun
  MinPayout = 1
  MaxTransfer = 1
  RiderDay = 2
  PlatformDay = 2
  MaxPerRun = 1
SYMMETRY Symmetry
INVARIANTS
  TypeOK
  BooksMatchBank
  NoEarningStranded
PROPERTIES
  PaysOnce
CHECK_DEADLOCK FALSE
