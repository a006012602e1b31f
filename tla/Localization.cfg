SPECIFICATION FairSpec
CONSTANTS
  TopSpeed = 1
  Reach = 4
  GpsTimeout = 2
  ImuTimeout = 1
  MaxPrediction = 2
  MinBaseline = 2
  ConfirmTime = 3
  MaxBaseline = 5
  ForwardLimit = 2
  BackwardLimit = 1
  StandingLimit = 1
INVARIANTS
  TypeOK
  CoastingRunsOut
PROPERTIES
  StandingIsLocated
  MotionIsTracked
