SPECIFICATION Spec
CONSTANTS
  i1 = i1
  o1 = o1
  o2 = o2
  r1 = r1
  nobody = nobody
  Incidents = {i1}
  Qualifying = {i1}
  WithCamera = {i1}
  Responders = {r1}
  Nobody = nobody
  Operators = {o1, o2}
  MaxRetries = 2
  MaxRequests = 2
  MaxCrashes = 1
PROPERTIES OnlyUnackedEscalates
CHECK_DEADLOCK FALSE
