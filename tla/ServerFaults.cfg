CONSTANTS
  Projects = {a}
  None = None
  Pids = {1, 2, 3}
  Orphans = {1}
  Jobs = {1, 2}
  MaxClicks = 3
  Patient = FALSE
  ListMayFail = TRUE
  KillMayFail = {1, 2, 3}
  HttpdMayDie = TRUE
SPECIFICATION FairSpec
PROPERTIES
  QuitCompletes
CHECK_DEADLOCK FALSE
