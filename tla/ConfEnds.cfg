CONSTANTS
  a = a
  b = b
  Projects = {a, b}
  Versions = {v1, v2}
  None = None
  Under <- Nested
  IniMayFail = TRUE
  Jobs = {1, 2, 3, 4}
  MaxCalls = 2
  Patient = TRUE
  MayCrash = TRUE
  AtLaunch <- Damaged
  MayMiss = TRUE
SPECIFICATION FairSpec
INVARIANTS
  TypeOK
PROPERTIES
  EditsEnd
CHECK_DEADLOCK FALSE
