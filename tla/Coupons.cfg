\* Three orders of two buyers who share an address, three edits of which two overlap.
CONSTANTS
  o1 = o1
  o2 = o2
  o3 = o3
  u1 = u1
  m1 = m1
  m2 = m2
  a1 = a1
  a2 = a2
  NoUser = NoUser
  Orders = {o1, o2, o3}
  Users = {u1}
  Emails = {m1, m2}
  UserOf <- MCUserOf
  EmailOf <- MCEmailOf
  Terms = {1, 2}
  Limits = {1, 2}
  Editors = {a1, a2}
  MaxEdits = 4
SPECIFICATION CSpec
INVARIANT UsesAreCounted
INVARIANT TermsAreKept
INVARIANT BuyersAreLimited
CHECK_DEADLOCK FALSE
