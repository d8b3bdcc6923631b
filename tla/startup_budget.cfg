SPECIFICATION Spec
CONSTANTS
  MaxAttempts = 30
  RetryDelay = 2
  AttemptTimes <- RefusedAtOnce
  InitialDelay = 2
  ProbePeriod = 3
  FailureThreshold = 40
INVARIANTS TypeOK NotKilledWhileRetrying GivesUpOnlyAfterBudget
