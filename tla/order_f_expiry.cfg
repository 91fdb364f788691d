SPECIFICATION Spec
CONSTANTS
  Workers = {"web", "customer"}
  OpsOf <- Reader
  Crowding = FALSE
  Methods = {"card"}
  Starts = {"placed"}
  PayWindow = 2
  MaxAge = 2
PROPERTIES
  ExpiryOnlyUnpaid
CHECK_DEADLOCK FALSE
