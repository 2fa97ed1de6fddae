SPECIFICATION UndisturbedSpec
CONSTANTS
  None = None
  p1 = p1
  perimeter = perimeter
  Playbooks = {p1, perimeter}
  PlaybookFor <- Rescored
  Escalating = {p1, perimeter}
  CaseOpening = {p1}
  Investigating = {p1}
  LowSeverity = TRUE
  Operators = {}
  MaxRetries = 1
  MaxAge = 2
  MaxCount = 1
  MaxRequests = 0
  MaxCrashes = 0
INVARIANTS AnnouncedIsOnRecord NoLevelSkipped
PROPERTIES   RequestsAnswered
CHECK_DEADLOCK FALSE
