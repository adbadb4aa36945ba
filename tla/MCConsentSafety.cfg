SPECIFICATION ConsentSpec
CONSTANTS
  a = a
  b = b
  i1 = i1
  i2 = i2
  f1 = f1
  s1 = s1
  email = email
  phone = phone
  Orgs <- MCOrgs
  Imports <- MCImports
  Feedbacks <- MCFeedbacks
  Sends <- MCSends
  Records <- MCRecords
  Nobody = Nobody
SYMMETRY MCSymmetry
\* The requests are finite: when all are answered nothing happens.
CHECK_DEADLOCK FALSE
INVARIANTS
  PendingWasInvited
  NobodyForgotten
  NobodyMessagedUnasked
  OneRowPerPerson
  WelcomedOnce
  RefusedNeedsCause
