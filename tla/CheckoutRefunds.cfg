\* A card, a complimentary and a demo order share tier and coupon; refunds, and success that is reported again after a refund.
CONSTANTS
  o1 = o1
  o2 = o2
  o3 = o3
  t1 = t1
  t2 = t2
  a1 = a1
  a2 = a2
  Orders = {o1, o2, o3}
  Tiers = {t1, t2}
  Admins = {a1, a2}
  Lines <- RaceLines
  Capacity <- RefundCapacity
  Kind <- MixKind
  Amount <- MixPrice
  Fee <- Commission
  CouponOrders = {o1, o3}
  CouponLimit = 1
  Mailed = {o1}
  JoinedLockRejected = FALSE
SPECIFICATION Spec
SYMMETRY AdminSymmetry
INVARIANT SoldMatchesPaid
INVARIANT TicketsIssuedOnce
INVARIANT NeverDebitedMoreThanEarned
PROPERTY ImplementsSale
CHECK_DEADLOCK FALSE
