\* One charge per instalment, one call at a time, crashes between the transactions.
CONSTANTS
  o1 = o1
  r1 = r1
  r2 = r2
  r3 = r3
  Orders = {o1}
  Refs = {r1, r2, r3}
  Channels = {"webhook"}
  RefOrder <- OneOrder
  Qty = 2
  Capacity = 3
  Count = 2
  PayTwice = FALSE
  MaxCrashes = 2
  MaxOthers = 0
  Reminders = FALSE
  Defaulting = FALSE
SPECIFICATION FairSpec
PROPERTY PaidUpGetsTickets
PROPERTY PaidIsCredited
CHECK_DEADLOCK FALSE
