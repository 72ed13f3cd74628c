SPECIFICATION Spec
CONSTANTS
  None = None
  RingSize = 3
  MaxSize = 3
  MaxAge = 0
  MaxEvents = 5
  MaxTime = 2
  MaxFaults = 2
INVARIANT TypeOK
INVARIANT RecentIsTail
INVARIANT FaultsCostLittle
PROPERTY KeptOnDisk
CHECK_DEADLOCK FALSE
