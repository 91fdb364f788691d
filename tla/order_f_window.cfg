SPECIFICATION FairSpec
CONSTANTS
  Workers = {"customer"}
  OpsOf <- Screens
  Crowding = FALSE
  Methods = {"card"}
  Starts = {"placed"}
  PayWindow = 2
  MaxAge = 2
PROPERTIES
  UnpaidCheckoutEnds
CHECK_DEADLOCK FALSE
