SPECIFICATION Spec
CONSTANTS
  sd0 = sd0
  udisk0 = udisk0
  a1 = a1
  a2 = a2
  Logos <- MCLogos
  Addr <- MCAddr
  Null = Null
  TaskList <- MCTaskList
  Music = "MUSIC"
  Bt = "BT"
  Files <- MCFiles
  Bad <- MCBad
  CycleAll = TRUE
  WaitReports = TRUE
  MountFails = TRUE
  ModeKeyDrops = FALSE
  UserKeys = {"NEXT", "PREV", "CHANGE_DEV", "CHANGE_MODE", "PP", "FOLDER", "NUM", "CALL"}
  MaxInputs = 3
  MaxQueue = 2
CHECK_DEADLOCK FALSE
INVARIANT RestPlays
