CONSTANTS
  Zones = {"a"}
  Policies = {"p"}
  None = None
  Missing = Missing
  LeftOver = {Missing}
  Clients = {"c"}
  Panics = {"abort"}
  MaxRequests = 1
  MaxStarts = 2
  MaxCrashes = 1
  MaxSlips = 0
SPECIFICATION Spec
INVARIANTS
  AlwaysConsistent
CHECK_DEADLOCK FALSE
