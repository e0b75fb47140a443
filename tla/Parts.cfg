SPECIFICATION PartsSpec
INVARIANTS PartsTypeOK SpaceDecides
INVARIANTS CorruptionCostsOneRead NoLockout IsolatedOutlierIgnored SteersOnCurrentZero
INVARIANTS HoldOutlastsTrouble OwnWaitsNotLate HoldSurvives
INVARIANTS OneFrameStops LateLinesCostNoFeedback MixUpEnds
INVARIANT GuardTakesOver
PROPERTIES UnattendedTrialEnds LegacyTroubleEnds
CONSTANTS
  MaxWrites = 3
  DeadmanBeats = 2
  Turn = 13
  Allowed <- Envelope
  RecoverTicks = 6
  DiagPeriod = 2
  MaxNoise = 2
  MaxTwists = 1
  Quick = 6
  Slow = 11
  MaxTroubles = 2
  BeatLimit = 2
  FeedbackLimit = 1
  MaxFrames = 5
  Properties = {active_errors, control_mode}
  MaxOwed = 2
  ArmReach = 6
  GuardStart = 3
  GuardFull = 5
  SwingClamp = 9
  BalanceClamp = 6
  TopSpeed = 2
  NudgeTime = 3
  Elapses = {3, 15}
  Default <- Standard
  Limits <- Largest
  Candidates <- Typed
