SPECIFICATION NodeSpec
CONSTANTS
  Zones <- MCZones
  GapPairs = {open}
  OpenGap = open
  Length = 21
  Noise = 0
  MaxTransientFailCycles = 2
  None = None
  Pose = pose
INVARIANTS
  BlockedLockedPathNotReused
