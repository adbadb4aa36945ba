SPECIFICATION FairSpec
CONSTANTS
  e1 = e1
  e2 = e2
  p1 = p1
  p2 = p2
  u1 = u1
  u2 = u2
  Events <- TwoEvents
  Processes <- TwoProcesses
  Units <- TwoUnits
  MaxRetries = 2
  BatchSize = 2
  MaxTime = 1
  MaxFaults = 2
INVARIANT ExclusiveHandling
INVARIANT AttemptsAccounted
INVARIANT OrphansNeedFault
PROPERTY Promise
PROPERTY EverySubmittedEventSettles
\* the queue may run empty: every task settled or orphaned
CHECK_DEADLOCK FALSE
