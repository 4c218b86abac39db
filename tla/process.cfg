SPECIFICATION Spec
CONSTANTS
  Ids = {0, 1}
  Dirs = {"r"}
  Calls <- AllCalls
  MaxSets = 2
INVARIANTS
  EnabledEmulates
PROPERTIES
  StaysLoaded
  NothingGained
  DisabledPassedOn
