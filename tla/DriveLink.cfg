SPECIFICATION FairSpec
INVARIANTS TypeOK VerifiedTrial OneLossStops
PROPERTIES TorqueKeepsWatchdog TrialStartsStill AxisErrorIsFound
CHECK_DEADLOCK TRUE
CONSTANTS
  MaxLost = 1
  ExpireTime = 3
  MaxHealthErrs = 3
