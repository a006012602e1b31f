SPECIFICATION FairSpec
CONSTANTS
  Zones <- MCZones
  GapPairs = {open, between}
  OpenGap = open
  Length = 21
  MaxTransientFailCycles = 2
  None = None
  Pose = pose
  Noise = 0
INVARIANTS
  NodeTypeOK
  ContextIsCoherent
  DriveNeedsLock
PROPERTIES
  StopLineHeld
  MergeCompletes
  CommitIsConfirmed
  LockHoldsPastStopLine
  CheckpointsInOrder
