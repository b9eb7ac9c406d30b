CONSTANTS
  Zones = {"a", "b"}
  None = None
  FileZones = {"b"}
  TimerTasks = {"t1"}
  NotifyTasks = {}
  EventCap = 2
  UpdateCap = 2
  MaxSerial = 1
  MaxAdds = 2
  MaxAsks = 0
  Panics = {"abort"}
SPECIFICATION Spec
PROPERTIES
  ServedStaysServed
CHECK_DEADLOCK FALSE
