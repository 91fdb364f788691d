SPECIFICATION Spec
CONSTANTS
  Workers = {"customer", "staff", "web"}
  OpsOf <- Counter
  Crowding = FALSE
  Methods = {"card", "cash"}
  Starts = {"placed", "scheduled"}
  PayWindow = 1
  MaxAge = 1
INVARIANTS
  FoodNeedsMoney
  PaidMeansCaptured
PROPERTIES
  OnlyPaymentReopens
CHECK_DEADLOCK FALSE
