SPECIFICATION DeliverySpec
CONSTANTS
  e1 = e1
  e2 = e2
  p1 = p1
  u1 = u1
  u2 = u2
  Events <- OneEvent
  Processes <- OneProcess
  Units <- OneUnit
  MaxRetries = 1
  BatchSize = 1
  MaxTime = 0
  MaxFaults = 0
  PoolMax = 3
  MaxJobFaults = 0
INVARIANT OneWorkerPerJob
\* every message may be delivered, and a full pool may wait for itself
CHECK_DEADLOCK FALSE
