SPECIFICATION FairSpec
PROPERTIES StopFallback
CHECK_DEADLOCK TRUE
CONSTANTS
  MaxLost = 2
  ExpireTime = 3
  MaxHealthErrs = 3
