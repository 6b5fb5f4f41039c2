CONSTANTS
  a = a
  b = b
  Projects = {a, b}
  Versions = {v1, v2}
  None = None
  Under <- Apart
  IniMayFail = FALSE
  Jobs = {1, 2, 3, 4}
  MaxCalls = 0
  Patient = TRUE
  MayCrash = FALSE
  AtLaunch = {}
  MayMiss = TRUE
SPECIFICATION Spec
SYMMETRY Symmetry
INVARIANTS
  ConfRecreated
CHECK_DEADLOCK FALSE
