SPECIFICATION Spec
CONSTANTS
  Maps <- MCMaps
  Lights = {"YELLOW", "GREEN"}
  EgoMessages <- MCEgoMessages
  ObjectMessages <- MCObjectMessages
  None = None
INVARIANTS
  TypeOK
  ImminentCollisionStops
  LaneChangeIsForSlowLeader
  RedOnEveryWayStops
  GapIsOfSomeWay
