\* Two addresses and up to three entries, two calls at a time, two seats.
CONSTANTS
  m1 = m1
  m2 = m2
  s1 = s1
  s2 = s2
  Emails = {m1, m2}
  MaxEntries = 3
  Capacity = 2
  Slots = {s1, s2}
  MaxCalls = 5
SPECIFICATION WSpec
INVARIANT QueueOrder
INVARIANT SecondOfferRaced
PROPERTY FirstComeFirstServed
PROPERTY SeatPassedOn
CHECK_DEADLOCK FALSE
