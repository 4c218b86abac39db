SPECIFICATION Spec
CONSTANTS
  Clients = {"c1", "c2"}
  Servers = {"s1", "s2"}
  MaxFaults = 1
  MaxExits = 1
  MaxGiveUps = 1
INVARIANTS
  OneServer
  Reachable
PROPERTIES
  ProcessedOnce
  Implements
  Served
