SPECIFICATION FairPipelineSpec
CONSTANTS
  MaxTransientFailCycles = 2
  None = None
  VehicleStates = {pose}
  AgeBound = 3
  MaxDelay = 2
INVARIANTS
  PipelineTypeOK
  VetoHeard
  StaleOnlyAfterGap
PROPERTIES
  FailureStopsVehicle
  ImplementsLease
