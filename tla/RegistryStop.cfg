CONSTANTS
  Zones = {"a"}
  Policies = {"p"}
  None = None
  Missing = Missing
  LeftOver = {Missing}
  Clients = {"c"}
  Panics = {"unwind", "abort"}
  MaxRequests = 2
  MaxStarts = 2
  MaxCrashes = 0
  MaxSlips = 0
SPECIFICATION Spec
PROPERTIES
  StopPersists
CHECK_DEADLOCK FALSE
