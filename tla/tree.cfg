SPECIFICATION Spec
CONSTANTS
  Clients = {1}
  Names = {"a", "b", "d", "x"}
  Paths <- NestedPaths
  Inodes = {1, 2, 3}
  Uids = {7}
  Perms = {"p"}
  XNames = {"u"}
  XValues = {"v"}
  Calls = {"open", "unlink", "rename", "mkdir", "rmdir", "chown"}
  Own <- OwnAll
  InitialFiles <- OneFile
  Logging = FALSE
  StrayFds = TRUE
  NotResent = {"rename"}
  MaxCalls = 5
  MaxLost = 0
  MaxCrashes = 0
INVARIANTS
  MetaKept
