SPECIFICATION FilesFairSpec
CONSTANTS
  f1 = f1
  f2 = f2
  d1 = d1
  d2 = d2
  x1 = x1
  x2 = x2
  u = u
  Files <- MCFilesSet
  Downloads <- MCDownloads
  Deletions <- MCDeletions
  Workloads <- MCWorkloads
  FileOf <- MCFileOf
  Sharings <- MCSharings
  Expiring <- MCExpiring
  Contents <- MCContents
  BatchSize = 1
  MaxVersion = 1
  Nameless <- MCNameless
  MaxFaults = 1
INVARIANTS
  ServedWasChecked
  InfectedObjectNeedsFailure
  ObjectsHaveRows
  OfferedFilesExist
  ScheduledFilesAreUnshared
  SameNameNeedsOverlap
PROPERTIES
  RemovedOnlyWhenUnread
  ScheduledFilesGoAway
