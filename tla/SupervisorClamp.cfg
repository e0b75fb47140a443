SPECIFICATION Spec
INVARIANTS BalanceClampApplies
CHECK_DEADLOCK TRUE
CONSTANTS
  Poses <- SwingPoses
  Demands <- FarDemands
  UserLimits = {1, 4}
  DefaultLimit = 4
  Failures = {"outlier"}
  Delays = {1, 2}
  StopTime = 1
  ClearTime = 1
  ArmTimes = {0}
  HandoffTimes = {0}
  MaxBlock = 0
  AutoEnabled = FALSE
  TuningLimit = 1
  BalanceLimit = 2
  SwingLimit = 4
  GuardedLimit = 4
  Slew = 1
  SwingSlew = 2
  MaxSlewTicks = 1
  HoldTimeout = 2
  FbTimeout = 1
  PosFbTimeout = 2
  WatchdogTime = 1
  FeedPeriod = 1
  TuningMax = 1
  CenterMax = 1
  SettleMax = 2
  SettleHold = 1
  SwingMax = 3
  RecoverTime = 3
  AgeCap = 4
