\* Two card orders and one the coupon makes free compete for a tier's last seats; webhook and return page both finalise.
CONSTANTS
  o1 = o1
  o2 = o2
  o3 = o3
  t1 = t1
  t2 = t2
  a1 = a1
  a2 = a2
  Orders = {o1, o2, o3}
  Tiers = {t1, t2}
  Admins = {}
  Lines <- RaceLines
  Capacity <- RaceCapacity
  Kind <- CardKind
  Amount <- FreePrice
  Fee <- Commission
  CouponOrders = {o1, o3}
  CouponLimit = 2
  Mailed = {o1, o2}
  JoinedLockRejected = FALSE
SPECIFICATION FairSpec
INVARIANT NoOversell
PROPERTY ChargedIsServed
CHECK_DEADLOCK FALSE
