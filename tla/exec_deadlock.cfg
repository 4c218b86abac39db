SPECIFICATION Spec
CONSTANTS
  Threads = {"t1"}
  Kinds = {"plain", "exec", "spawn"}
  CallbackKinds = {"plain"}
  Ignorable = {}
  LateSignals = TRUE
  MaxCalls = 2
INVARIANT
  NoSelfDeadlock
