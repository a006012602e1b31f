SPECIFICATION Spec
CONSTANTS
  Ids = {a, b}
  TrackLength = 5
  SearchRange = 2
  ExitMargin = 1
  SwitchMargin = 1
  Grace = 2
  Stride = 1
SYMMETRY Swap
INVARIANTS
  TypeOK
  NobodyNearer
PROPERTIES
  HandoverIsEarned
