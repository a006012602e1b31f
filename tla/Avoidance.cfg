SPECIFICATION FairAvoidSpec
CONSTANTS
  Worlds <- MCWorlds
  Strangers <- MCStrangers
  Durations <- MCDurations
  SpeedSteps <- MCSteps
  Length = 19
  MaxSlots = 3
  Tolerance = 1
  LateralRate = 2
  TurnRate = 1
  Lookahead = 3
  Reach = 2
  Width = 2
  TimeWeight = 1
  TerminalWeight = 20
  PathWeight = 3
  StepWeight = 1
  Cruise = 3
  Slow = 2
  Detection = 6
  VehicleLength = 1
  ShiftStart = 5
  HalfLane = 1
  AvoidOffset = 3
  SideMargin = 0
  ShiftTolerance = 0
  ClearDistance = 1
  Recenter = 5
  MaxTransientFailCycles = 1
  CallsPerPosition = 3
INVARIANTS
  AvoidTypeOK
  LoneObstacleNeverStops
PROPERTIES
  ContactOnlyCrawling
  KeepsGoing
