SPECIFICATION MCSpec
CONSTANTS
  i1 = i1
  i2 = i2
  i3 = i3
  idx = idx
  exp = exp
  Incidents = {i1, i2, i3}
  InCase = {i2, i3}
  InLimit = {i1, i2}
  Indexers = {idx}
  Exporters = {exp}
  Nobody = Nobody
  Genesis <- ZeroHash
  MaxCalls = 5
  MaxRuns = 3
  Models = {"detector", "reid"}
  Default = "detector"
  Requests = {1, 2}
  Scores = {0, 5}
  Delta = 5
  MaxRows = 3
  MaxCount = 4
  Users = {"u"}
  Lifetime = 2
  LoginMax = 2
  LoginWindow = 2
  MaxAttempts = 4
  NotifyIncidents = {"i", "j"}
  MaxMessages = 3
  MaxCrashes = 1
  MaxSegments = 3
  Limit = 1
  Parallel = 2
  MaxFaults = 1
  Added = {"usb"}
  Pushed = {"phone"}
  MaxSources = 3
  MaxRestarts = 1
  Threads = {1, 2}
  MaxTries = 3
  SweepCameras = {"c", "d"}
  Signatures = {1}
  MaxSignatures = 1
  MaxCameras = 1
  SweepInterval = 2
  SweepCooldown = 3
  MaxSweepLag = 1
  AlertInterval = 3
  AlertCooldown = 5
  MaxAlertLag = 3
  FleetCameras = {"c"}
  FleetServices = {"perception"}
  Weaknesses = {"low_fps"}
  HostMetrics = {"disk_pressure"}
  PerceptionMetrics = {"perception_cpu"}
  Stale = 2
  Period = 2
  MaxProbeLag = 1
  MaxFailed = 1
  PlateCameras = {"c"}
  PlateSites = {"s", "t"}
  TTL = 1
  ScanCameras = {"c", "d"}
  ScanSites = {"s", "t"}
  Points = {1, 2, 3}
  PointCamera <- PointCameras
  MaxLinks = 1
INVARIANTS ChainVerifies  ManifestComplete NoOperationRefused HeadIsDeclared WritersWereAllowed ConsumedIsNotified NothingIsLost OneLateRelay  SilenceIsFound LinkedOnce
PROPERTIES PromotionSettlesTheRole  AlertsAreApart 
CHECK_DEADLOCK FALSE
