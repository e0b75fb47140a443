SPECIFICATION FairSpec
PROPERTIES TrialsEnd StaleDeadmanEnds
CHECK_DEADLOCK TRUE
CONSTANTS
  Poses <- TwoPoses
  Demands <- OneDemand
  UserLimits = {3}
  DefaultLimit = 3
  Failures = {"spi", "outlier"}
  Delays = {1}
  StopTime = 1
  ClearTime = 1
  ArmTimes = {1}
  HandoffTimes = {1}
  MaxBlock = 1
  AutoEnabled = FALSE
  TuningLimit = 1
  BalanceLimit = 1
  SwingLimit = 2
  GuardedLimit = 2
  Slew = 1
  SwingSlew = 3
  MaxSlewTicks = 1
  HoldTimeout = 1
  FbTimeout = 1
  PosFbTimeout = 2
  WatchdogTime = 1
  FeedPeriod = 1
  TuningMax = 1
  CenterMax = 1
  SettleMax = 2
  SettleHold = 1
  SwingMax = 1
  RecoverTime = 3
  AgeCap = 4
