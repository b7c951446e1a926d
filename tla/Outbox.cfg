\* A process with its timer and a request, a tab of the addressee; the channel of
\* the second note is not configured.
CONSTANTS
  p1 = p1
  t1 = t1
  MaxNotes = 2
  Unconfigured = {2}
  Processes = {p1}
  Tabs = {t1}
  MaxRetries = 3
  BatchSize = 1
  MaxFaults = 2
  MaxReads = 1
SPECIFICATION OSpec
INVARIANT SentWasDelivered
INVARIANT TwiceOnlyExcused
PROPERTY EveryRowSettles
CHECK_DEADLOCK FALSE
