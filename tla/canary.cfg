SPECIFICATION Spec
CONSTANTS
  MaxPushes = 2
  Revisions = {0, 1, 2}
  ErrorRatios = {"nodata", "noseries", "zero", "few", "many", "unreachable"}
  Latencies = {"nodata", "fast", "slow"}
  ErrorLimit = 1
INVARIANTS TypeOK FailingCandidateIsContained
PROPERTIES AnalysedBeforeStable StagingSettles
