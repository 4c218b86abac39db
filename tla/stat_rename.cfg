SPECIFICATION Spec
CONSTANTS
  Clients = {1, 2}
  Names = {"a", "b", "d", "x"}
  Paths <- FlatPaths
  Inodes = {1, 2}
  Uids = {7}
  Perms = {"p"}
  XNames = {"u"}
  XValues = {"v"}
  Calls = {"open", "rename", "stat"}
  Own <- OwnAll
  InitialFiles = {}
  Logging = FALSE
  StrayFds = TRUE
  NotResent = {"rename"}
  MaxCalls = 2
  MaxLost = 0
  MaxCrashes = 0
INVARIANTS
  StatSurvivesRename
