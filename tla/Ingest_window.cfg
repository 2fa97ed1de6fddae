SPECIFICATION Spec
CONSTANTS
  MaxSegments = 4
  Limit = 2
  Parallel = 2
  MaxFaults = 0
PROPERTY NewestAreKept
CHECK_DEADLOCK FALSE
