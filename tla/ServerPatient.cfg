CONSTANTS
  Projects = {a, b}
  None = None
  Pids = {1, 2, 3, 4, 5, 6, 7, 8, 9, 10, 11}
  Orphans = {1}
  Jobs = {1, 2}
  MaxClicks = 5
  Patient = TRUE
  ListMayFail = FALSE
  KillMayFail = {1}
  HttpdMayDie = FALSE
SPECIFICATION FairSpec
INVARIANTS
  TypeOK
  ButtonTellsTruth
  CleanExit
  SelectionSound
PROPERTIES
  SwitchRestarts
CHECK_DEADLOCK FALSE
