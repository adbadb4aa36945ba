SPECIFICATION PaymentsFairSpec
CONSTANTS
  p1 = p1
  p2 = p2
  r1 = r1
  r2 = r2
  None = None
  Mixes <- MCMixes
  Payments <- MCPaymentsSet
  Refs <- MCRefs
  MaxEvents = 2
  MaxFaults = 1
\* Pages may all have failed.
CHECK_DEADLOCK FALSE
INVARIANTS
  SucceededWasPaid
  SharedReferenceNeedsOverlap
  DeletedWasUnused
PROPERTIES
  PaidStaysPaid
  StripePaymentIsRecorded
