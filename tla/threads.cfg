SPECIFICATION Spec
CONSTANTS
  Threads = {"t1", "t2"}
  Kinds = {"plain", "walk", "fifo", "exec", "spawn", "fork"}
  CallbackKinds = {"plain", "walk", "exec"}
  Ignorable = {"plain", "walk"}
  LateSignals = FALSE
  MaxCalls = 4
INVARIANTS
  Excludes
  OwnCallsOnly
  MaskKept
PROPERTIES
  CallsReturn
