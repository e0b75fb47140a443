SPECIFICATION HoldSpec
INVARIANTS HealthFaultHasFeedback
CHECK_DEADLOCK TRUE
CONSTANTS
  Quick = 6
  Slow = 11
  MaxTroubles = 5
