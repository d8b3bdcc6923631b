SPECIFICATION CanarySpec
CONSTANTS
  Revisions = {0, 1}
  ErrorRatios = {"noseries", "few"}
  Latencies = {"fast"}
  ErrorLimit = 1
CHECK_DEADLOCK FALSE
INVARIANTS HealthyCandidateIsNotAborted
