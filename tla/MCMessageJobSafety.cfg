SPECIFICATION JobFairSpec
CONSTANTS
  j1 = j1
  j2 = j2
  r1 = r1
  r2 = r2
  r3 = r3
  Jobs <- TwoJobs
  Requests <- ThreeRequests
  JobOf <- OneApart
  PoolMax = 2
  MaxJobFaults = 2
INVARIANT AcceptedMeansInMailbox
INVARIANT SecondEmailNeedsCause
PROPERTY ReopenedNeedsCause
PROPERTY EveryRequestAnswered
\* every request may be answered, and a full pool may wait for itself
CHECK_DEADLOCK FALSE
