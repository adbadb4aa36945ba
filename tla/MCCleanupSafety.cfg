SPECIFICATION CleanupFairSpec
CONSTANTS
  i1 = i1
  i2 = i2
  Instances <- MCInstances
  Nowhere = Nowhere
  MaxTasks = 5
  MaxRetries = 1
  MaxStarts = 2
  MaxFaults = 1
\* Every instance may be down for good.
CHECK_DEADLOCK FALSE
INVARIANTS
  ChainEndsForAReason
  SecondChainNeedsCause
PROPERTIES
  CleanupRecurs
