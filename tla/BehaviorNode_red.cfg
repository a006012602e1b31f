SPECIFICATION Spec
CONSTANTS
  Maps <- MCMaps
  Lights = {"RED", "GREEN"}
  EgoMessages <- MCEgoMessages
  ObjectMessages <- MCObjectMessages
  None = None
INVARIANTS
  RedAheadForcesStop
