SPECIFICATION Spec
PROPERTIES FreshCommands ZeroLostOnEvidence
CHECK_DEADLOCK TRUE
CONSTANTS
  Poses <- TwoPoses
  Demands <- OneDemand
  UserLimits = {3}
  DefaultLimit = 3
  Failures = {"spi", "diagnostics", "magnet", "feedback"}
  Delays = {1}
  StopTime = 1
  ClearTime = 1
  ArmTimes = {1}
  HandoffTimes = {1}
  MaxBlock = 1
  AutoEnabled = TRUE
  TuningLimit = 1
  BalanceLimit = 1
  SwingLimit = 2
  GuardedLimit = 2
  Slew = 1
  SwingSlew = 3
  MaxSlewTicks = 1
  HoldTimeout = 1
  FbTimeout = 1
  PosFbTimeout = 2
  WatchdogTime = 1
  FeedPeriod = 1
  TuningMax = 1
  CenterMax = 1
  SettleMax = 2
  SettleHold = 1
  SwingMax = 1
  RecoverTime = 1
  AgeCap = 4
