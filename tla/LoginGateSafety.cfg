SPECIFICATION Spec
CONSTANTS
  Callers = {q1, q2}
  Threshold = 2
  Cooldown = 1
  MaxAttempts = 2
  Burst = 2
  Period = 2
  Second = 1
  MaxDelay = 1
  Keys <- MCKeys
  Limit <- MCLimit
  Window = 2
  FailOpen = FALSE
  MaxMishaps = 1
SYMMETRY MCSymmetry
INVARIANTS
  GateInv
  AdmittedWithinRate
  RetryAfterSuffices
  CircuitTellsFailures
PROPERTIES
  OnlyAnsweredCount
  LeavesDatabaseAlone
CHECK_DEADLOCK FALSE
