SPECIFICATION Spec
CONSTANTS
  Polls = {"epoll", "select"}
  Conns = {"k1", "k2"}
  Chunk = 2
  MaxEvents = 10
  DefaultTimeout = 30
  StartTimeout = 8
  MaxFaults = 1
  MaxSignals = 2
  LongPids = {"k1"}
INVARIANTS
  CountRight
  LeavesNoSooner
  OneSlotEach
  NeverAbandons
  HurriesAfterRefusal
PROPERTIES
  NakNamesOthers
  AnswerComes
  IdleExit
