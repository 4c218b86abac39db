SPECIFICATION Spec
CONSTANTS
  Names = {"a", "b"}
  Filesystems <- SmallFilesystems
  Requests <- SmallRequests
  MaxLinkRecursion = 3
  MaxLinks = 4
  MaxLen = 6
  MaxCalls = 3
INVARIANTS
  TypeOK
  StaysBelowRoot
  AgreesWithKernel
PROPERTIES
  WalkEnds
CHECK_DEADLOCK FALSE
