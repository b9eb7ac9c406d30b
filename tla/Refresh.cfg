CONSTANTS
  Zones = {"a", "b"}
  None = None
  FileZones = {"b"}
  TimerTasks = {"t1"}
  NotifyTasks = {"n1"}
  EventCap = 1
  UpdateCap = 1
  MaxSerial = 2
  MaxAdds = 2
  MaxAsks = 1
  Panics = {"unwind", "abort"}
SPECIFICATION FairSpec
INVARIANTS
  TypeOK
  RefreshGoesOn
  NotifyStatusIsBrief
  StuckNeedsFullChannel
  
PROPERTIES
  PendingIsServed
CHECK_DEADLOCK FALSE
