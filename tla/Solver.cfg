SPECIFICATION Spec
CONSTANTS
  SteerMax = 2
  SteerStep = 1
  AccelMin <- MCAccelMin
  AccelMax = 2
  Horizon = 3
  MaxIterations = 4
  LineSearchSteps = 3
  LrInit = 8
  LrMin = 2
  Unit = 128
  Eps = 2
  Problems <- MCProblems
  WarmStarts <- MCWarmStarts
  None = None
  Cost <- MCCost
  Gradient <- MCGradient
  VelMin = 0
  VelMax = 8
  LinearVelMax = 13
  WPath = 6
  WHeading = 3
  WSpeed = 2
  WSteer = 2
  WAccel = 1
  WSteerRate = 10
  WAccelRate = 5
  WTerminalPath = 8
  WTerminalHeading = 4
  WTerminalSpeed = 2
INVARIANTS
  SolverTypeOK
  NeverWorse
  ResultIsFeasible
  CostIsOfPrediction
  PullsAway
PROPERTIES
  SolveIsBounded
