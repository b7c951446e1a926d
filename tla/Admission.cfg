\* A ticket at the door: two panels and a phone, stale saves of two calls, a correction and a refund.
CONSTANTS
  o1 = o1
  t1 = t1
  d1 = d1
  d2 = d2
  f1 = f1
  q1 = q1
  q2 = q2
  p1 = p1
  p2 = p2
  p3 = p3
  r1 = r1
  NoOne = NoOne
  Orders = {o1}
  Tickets = {t1}
  OrderOf <- OneOrder
  Panels = {d1, d2}
  Phones = {f1}
  Requests = {q1, q2}
  People = {p1, p2, p3}
  Registered = {p1, p2}
  Reviewers = {r1}
  MaxSaves = 2
  JoinedLockRejected = FALSE
SPECIFICATION ASpec
INVARIANT AdmittedOnce
INVARIANT HeldByAddressee
PROPERTY AdmitsOnlyPaid
SYMMETRY Symmetry
CHECK_DEADLOCK FALSE
