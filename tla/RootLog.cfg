CONSTANTS
  a = a
  b = b
  Projects = {a, b}
  Versions = {v1, v2}
  None = None
  Under <- Nested
  IniMayFail = FALSE
  Jobs = {1, 2, 3}
  MaxCalls = 2
  Patient = TRUE
  MayCrash = FALSE
  AtLaunch <- AnyBody
  MayMiss = FALSE
SPECIFICATION Spec
SYMMETRY Symmetry
INVARIANTS
  DocumentRootFollows
CHECK_DEADLOCK FALSE
