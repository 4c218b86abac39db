SPECIFICATION Spec
CONSTANTS
  Clients = {1}
  Names = {"a", "b", "d", "x"}
  Paths <- FlatPaths
  Inodes = {1, 2}
  Uids = {7}
  Perms = {"p"}
  XNames = {"u"}
  XValues = {"v"}
  Calls = {"open", "unlink", "rename", "link", "chown", "chmod", "mkdir", "rmdir", "symlink", "mknod", "stat", "setxattr", "removexattr", "getxattr", "listxattr", "chown_part", "mkdtemp", "mkfifo", "mkstemp", "fchown", "fchown_part", "fchmod", "fstat"}
  Own <- OwnAll
  InitialFiles = {}
  Logging = TRUE
  StrayFds = FALSE
  NotResent = {"rename"}
  MaxCalls = 4
  MaxLost = 1
  MaxCrashes = 0
INVARIANTS
  TypeOK
  NoStaleRow
  MetaKept
  XattrsKept
  AnswersRight
  NoAbort
