SPECIFICATION OutboxFairSpec
CONSTANTS
  i = i
  s1 = s1
  s2 = s2
  m1 = m1
  m2 = m2
  m3 = m3
  m4 = m4
  Requests <- MCRequests
  Invitations <- MCInvitations
  Messages <- MCMessages
  Batch <- MCBatch
  PoolMax = 3
  MaxFaults = 1
\* All requests are answered in the end.
CHECK_DEADLOCK FALSE
INVARIANTS
  FailureLeavesNothing
PROPERTIES
  SubmissionKept
  EverySendEnds
