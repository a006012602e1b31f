SPECIFICATION FairSpec
CONSTANTS
  SteerMax = 2
  SteerStep = 1
  AccelMin <- MCAccelMin
  AccelMax = 2
  VehicleStates = {moving, stopped}
  StoppedStates = {stopped}
  StuckTimeout = 3
  RecoveryDuration = 2
  LaunchAccel = 1
  FailAccel <- MCFailAccel
  StopBrake = 1
  RawControls <- MCRawControls
  None = None
INVARIANTS
  TypeOK
  MemoryIsWhatWasSent
  AssistIsBounded
PROPERTIES
  AssistIsEarned
  StuckIsRelaunched
