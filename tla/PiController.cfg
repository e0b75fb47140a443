SPECIFICATION FairSpec
INVARIANTS TypeOK AxisWatched OneFailureStops
PROPERTIES OffStops StopEnds KeepsGate
CHECK_DEADLOCK TRUE
CONSTANTS
  MaxTyped = 4
  MaxQueue = 2
  ExpireTime = 1
