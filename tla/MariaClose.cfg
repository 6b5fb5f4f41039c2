CONSTANTS
  Missing = Missing
  Empty = Empty
  Garbled = Garbled
  Values <- MCValues
  Slots = {1, 2, 3}
  Pids = {1, 2, 3, 4, 5, 6}
  MaxClicks = 4
  MayDie = TRUE
SPECIFICATION Spec
PROPERTIES
  OffCloses
CHECK_DEADLOCK FALSE
