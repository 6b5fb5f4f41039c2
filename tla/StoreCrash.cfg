CONSTANTS
  Projects = {a, b, c}
  None = None
  Missing = Missing
  Empty = Empty
  Garbled = Garbled
  Values <- MCValues
  Slots = {1, 2, 3}
  Calls = {1, 2}
  MaxClicks = 4
  CalmRemoval = TRUE
SPECIFICATION Spec
SYMMETRY Symmetry
INVARIANTS
  TypeOK
  LaunchSucceeds
PROPERTIES
  ListKept
CHECK_DEADLOCK FALSE
