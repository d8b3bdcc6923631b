SPECIFICATION Spec
CONSTANTS
  MaxPushes = 2
  MaxReruns = 2
  MaxManual = 1
  MaxExpired = 1
CHECK_DEADLOCK FALSE
INVARIANTS TypeOK PairFromOneCommit MainIsAttested
PROPERTIES AutomaticPromotionAdvances StagingSpec NoRunIsStuck
