CONSTANTS
  Zones = {"a", "b"}
  FileZones = {}
  MaxSerial = 1
  Hooks <- OneHook
  MaxAdds = 2
  MaxRemovals = 0
  MaxResigns = 0
  MaxHangups = 0
  Panics = {"unwind", "abort"}
SPECIFICATION Spec
PROPERTIES
  SignedLeavesByPublishing
CHECK_DEADLOCK FALSE
