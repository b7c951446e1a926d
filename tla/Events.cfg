\* An event in any stage of its review, its tier, an organizer and an administrator.
CONSTANTS
  e1 = e1
  e2 = e2
  w1 = w1
  w2 = w2
  a1 = a1
  b1 = b1
  b2 = b2
  c1 = c1
  c2 = c2
  EventIds = {e1, e2}
  Owners = {w1, w2}
  Admins = {a1}
  Buyers = {b1, b2}
  Contents = {c1, c2}
  Prices = {1}
  Quantities = {0, 1}
  MaxEdits = 4
  MaxSales = 2
SPECIFICATION MCESpec
INVARIANT OnlineWasApproved
INVARIANT SeatsCounted
INVARIANT SoldTierStays
PROPERTY LeavesCycleOvertaken
SYMMETRY Symmetry
CHECK_DEADLOCK FALSE
