\* Two batches for two organizers, one paid by M-Pesa, drafted side by side; one lost answer or crash.
CONSTANTS
  b1 = b1
  b2 = b2
  p1 = p1
  p2 = p2
  Organizers = {p1, p2}
  Batches = {b1, b2}
  Mpesa = {p1}
  MaxGross = 2
  MaxFaults = 1
  JoinedLockRejected = FALSE
SPECIFICATION Spec
INVARIANT NeverOverdrawn
INVARIANT SentOnce
PROPERTY SentOnlyWhileApproved
CHECK_DEADLOCK FALSE
