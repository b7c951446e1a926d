\* Two instalments under three references: concurrent marks, reminders and the default write over each other, beside buyers of the same seats.
CONSTANTS
  o1 = o1
  r1 = r1
  r2 = r2
  r3 = r3
  Orders = {o1}
  Refs = {r1, r2, r3}
  Channels = {"webhook"}
  RefOrder <- OneOrder
  Qty = 2
  Capacity = 3
  Count = 2
  PayTwice = TRUE
  MaxCrashes = 0
  MaxOthers = 2
  Reminders = TRUE
  Defaulting = TRUE
SPECIFICATION Spec
SYMMETRY RefSymmetry
INVARIANT TicketsArePaidFor
INVARIANT SeatsFollowPlan
INVARIANT CompleteTogether
CHECK_DEADLOCK FALSE
