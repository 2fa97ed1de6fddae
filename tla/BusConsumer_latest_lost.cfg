SPECIFICATION Spec
CONSTANTS
  MaxLog = 3
  MaxHalts = 2
  MaxRetries = 2
  OffsetReset = "latest"
  DeadLetter = TRUE
INVARIANTS NeverLost
CHECK_DEADLOCK FALSE
