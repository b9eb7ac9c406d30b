CONSTANTS
  Zones = {"a"}
  Policies = {"p", "q"}
  None = None
  Missing = Missing
  LeftOver = {Missing, "p"}
  Clients = {"c", "d"}
  Panics = {"unwind", "abort"}
  MaxRequests = 3
  MaxStarts = 2
  MaxCrashes = 1
  MaxSlips = 1
SPECIFICATION FairSpec
INVARIANTS
  TypeOK
  NoPhantomUsers
  KnownPolicies
  ScratchLifeConsistent
  AddedIsListed
  ZoneFilesSettle
  StoppedIsSaved
  CleanStopRestarts
PROPERTIES
  PolicyReachesDisk
CHECK_DEADLOCK FALSE
