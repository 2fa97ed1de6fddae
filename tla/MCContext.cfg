SPECIFICATION PartsSpec
CONSTANTS
  t1 = t1
  t2 = t2
  z1 = z1
  Tracks = {t1, t2}
  Zones = {z1}
  Restricted = {z1}
  Stale = 2
  MinAge = 1
  Confirm = 1
  Loiter = 3
  Gaps = {1, 3}
  MaxFrames = 4
  FrameAlarms <- Intrusion
  Handoffs <- Reappearance
  Anomalies <- Crowd
  Watched = {"w"}
  Devices = {"d"}
  Classes = {"panic_button"}
  Requests = {"r"}
  Events = {"door_forced"}
  Expected = {"Panic Alarm"}
  Cooldown = 2
  Horizon = 2
  GateCooldown = 2
  Window = 1
  MaxTime = 2
  MaxCalls = 2
  MaxAttempts = 2
  MaxFails = 1
  Persons = {1}
  Vehicles = {2}
  Plates = {3, 4}
  PlateOf <- OnePlate
  Limit = 2
  MaxIndexFails = 1
INVARIANTS OccupantsAgree OccupancyIsExact IntrusionsWereHeld NoIntrusionMissed 
PROPERTIES OncePerCooldown 
CHECK_DEADLOCK FALSE
