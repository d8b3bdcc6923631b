SPECIFICATION Spec
CONSTANTS
  MaxAttempts = 30
  RetryDelay = 2
  AttemptTimes <- SlowConnect
  InitialDelay = 2
  ProbePeriod = 3
  FailureThreshold = 40
INVARIANTS NotKilledWhileRetrying
