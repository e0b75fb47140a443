SPECIFICATION Spec
INVARIANTS CenteringIsTemporary
CHECK_DEADLOCK TRUE
CONSTANTS
  MaxLost = 0
  ExpireTime = 3
  MaxHealthErrs = 3
