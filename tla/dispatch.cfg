SPECIFICATION Spec
CONSTANTS
  Orders = {o1}
  Riders = {r1, r2, r3}
  NoRider = NoRider
  Requests = {w1, w2}
  Max = 2
INVARIANTS
  TypeOK
  LoadIsLive
  ClaimsFollowOrder
PROPERTIES
  KeepsOfferBook
SYMMETRY Alike
