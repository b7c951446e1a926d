\* One order, two reviewers and a buyer: requests, refunds and a crash, with mails, resends and scans, and success reported again after the refund.
CONSTANTS
  o1 = o1
  o2 = o2
  o3 = o3
  t1 = t1
  t2 = t2
  a1 = a1
  a2 = a2
  w1 = w1
  Orders = {o1}
  Tiers = {t1, t2}
  Admins = {a1, a2}
  Lines <- RaceLines
  Capacity <- RefundCapacity
  Kind <- CardKind
  Amount <- SmallPrice
  Fee <- Commission
  CouponOrders = {o1}
  CouponLimit = 1
  Mailed = {o1}
  JoinedLockRejected = FALSE
  Tabs = {w1}
  MaxCrashes = 1
SPECIFICATION RSpec
INVARIANT AdmitsUnrefunded
INVARIANT LedgerFollowsOrder
INVARIANT MoneyBackBeforeRefunded
INVARIANT ApprovedMeansRefunded
INVARIANT PendingIsDecidable
CHECK_DEADLOCK FALSE
