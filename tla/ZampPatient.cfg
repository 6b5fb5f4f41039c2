CONSTANTS
  Projects = {a, b}
  Versions = {v1}
  None = None
  Pids = {1, 2, 3, 4, 5, 6, 7, 8, 9}
  Orphans = {1}
  KillMayFail = {1}
  Jobs = {1, 2}
  Edits = {1, 2}
  MaxClicks = 4
  AtLaunch <- Edited
  Prompt = TRUE
SPECIFICATION FairSpec
INVARIANTS
  TypeOK
  SelectionServed
  RightServer
PROPERTIES
  EditsAsAssumed
  SwitchServes
CHECK_DEADLOCK FALSE
