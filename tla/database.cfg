SPECIFICATION Spec
CONSTANTS
  Builds = {"disk", "memory"}
  Attributes = {"u"}
  Databases <- MCDatabases
  MaxUpdates = 4
  MaxCrashes = 4
INVARIANTS
  SetUpRight
PROPERTIES
  AttributesKept
  RowsKept
