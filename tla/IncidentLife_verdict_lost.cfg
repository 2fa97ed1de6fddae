SPECIFICATION Spec
CONSTANTS
  None = None
  p1 = p1
  perimeter = perimeter
  Playbooks = {p1, perimeter}
  PlaybookFor <- Critical
  Escalating = {p1, perimeter}
  CaseOpening = {p1}
  Investigating = {p1}
  LowSeverity = TRUE
  Operators = {}
  MaxRetries = 2
  MaxAge = 3
  MaxCount = 1
  MaxRequests = 0
  MaxCrashes = 0
  o1 = o1
INVARIANTS VerdictIsAnnounced
CHECK_DEADLOCK FALSE
