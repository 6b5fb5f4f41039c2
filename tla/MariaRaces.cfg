CONSTANTS
  Missing = Missing
  Empty = Empty
  Garbled = Garbled
  Values <- MCValues
  Slots = {1, 2, 3}
  Pids = {1, 2, 3, 4, 5, 6}
  MaxClicks = 4
  MayDie = FALSE
SPECIFICATION Spec
INVARIANTS
  TypeOK
  StartedRuns
  PageAgrees
  StatusTrue
CHECK_DEADLOCK FALSE
