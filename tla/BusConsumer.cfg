SPECIFICATION FairSpec
CONSTANTS
  MaxLog = 3
  MaxHalts = 2
  MaxRetries = 2
  OffsetReset = "earliest"
  DeadLetter = TRUE
INVARIANTS NothingSkipped
PROPERTIES DeadLetterAfterRetriesUnlessStopping KeepsPromise EverythingSettles
CHECK_DEADLOCK FALSE
