CONSTANTS
  Projects = {a, b}
  None = None
  Pids = {1, 2, 3}
  Orphans = {1}
  Jobs = {1, 2}
  MaxClicks = 3
  Patient = FALSE
  ListMayFail = FALSE
  KillMayFail = {1}
  HttpdMayDie = FALSE
SPECIFICATION FairSpec
PROPERTIES
  KillContract
  StartReplaces
  StoppingResolves
CHECK_DEADLOCK FALSE
