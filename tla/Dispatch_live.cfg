SPECIFICATION FairSpec
CONSTANTS
  i1 = i1
  o1 = o1
  nobody = nobody
  Incidents = {i1}
  Qualifying = {i1}
  WithCamera = {}
  Responders = {}
  Nobody = nobody
  Operators = {o1}
  MaxRetries = 2
  MaxRequests = 1
  MaxCrashes = 1
PROPERTIES  UnresolvedExpires
CHECK_DEADLOCK FALSE
