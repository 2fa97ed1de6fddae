SPECIFICATION Spec
CONSTANTS
  t1 = t1
  t2 = t2
  z1 = z1
  Tracks = {t1, t2}
  Zones = {z1}
  Restricted = {z1}
  Stale = 2
  MinAge = 1
  Confirm = 1
  Loiter = 3
  Gaps = {1, 3}
  MaxFrames = 4
INVARIANTS FlickerRejected
CHECK_DEADLOCK FALSE
