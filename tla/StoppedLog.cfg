CONSTANTS
  Projects = {a, b}
  None = None
  Pids = {1, 2, 3, 4}
  Orphans = {}
  Jobs = {1, 2}
  MaxClicks = 3
  Patient = FALSE
  ListMayFail = FALSE
  KillMayFail = {}
  HttpdMayDie = FALSE
SPECIFICATION Spec
SYMMETRY Symmetry
PROPERTIES
  StopStops
CHECK_DEADLOCK FALSE
