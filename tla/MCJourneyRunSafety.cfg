SPECIFICATION RunSpec
CONSTANTS
  form = form
  payment = payment
  e1 = e1
  e2 = e2
  t1 = t1
  t2 = t2
  t3 = t3
  Steps <- MCSteps
  InitialStep = form
  Successor <- MCSuccessor
  End = End
  Start = Start
  Executes <- MCExecutes
  Transitions <- MCTransitions
  NoData = NoData
SYMMETRY MCSymmetry
\* The requests are finite: when all are answered the run rests.
CHECK_DEADLOCK FALSE
INVARIANTS
  PendingRunHasWork
  OneActiveStep
  SubmissionsKept
