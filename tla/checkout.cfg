SPECIFICATION Spec
CONSTANTS
  a1 = a1
  a2 = a2
  b1 = b1
  Requests = {a1, a2, b1}
  NoRequest = NoRequest
  Keys = {"ka", "kb"}
  KeyOf <- KeyOfTap
  Customers = {"ada", "bola"}
  CustomerOf <- OwnerOf
  Codes = {"first", "once"}
  NoCode = NoCode
  GlobalCap <- Overall
  UserCap <- Each
SYMMETRY Symmetry
INVARIANTS
  TypeOK
  CapsHold
  DiscountBacked
  SlotsComeBack
  RetryPlacesNothing
CHECK_DEADLOCK FALSE
