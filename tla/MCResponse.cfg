SPECIFICATION PartsSpec
CONSTANTS
  i1 = i1
  i2 = i2
  o1 = o1
  o2 = o2
  r1 = r1
  p1 = p1
  perimeter = perimeter
  Incidents = {i1, i2}
  Qualifying = {i1}
  WithCamera = {i1}
  Responders = {r1}
  Nobody = Nobody
  Operators = {o1, o2}
  MaxRetries = 2
  MaxRequests = 2
  MaxCrashes = 1
  Playbooks = {p1, perimeter}
  PlaybookFor <- Critical
  Escalating = {p1, perimeter}
  CaseOpening = {p1}
  Investigating = {p1}
  LowSeverity = FALSE
  Users = {o1}
  MaxHandlerRetries = 1
  MaxAge = 2
  MaxCount = 2
  MaxUserRequests = 1
  MaxDeaths = 1
INVARIANTS OneDispatchPerIncident EscalatesOnce  RunsOncePerLife OnlyConfirmedPaged
PROPERTIES SweepIsFresh
CHECK_DEADLOCK FALSE
