CONSTANTS
  Zones = {"a"}
  FileZones = {}
  MaxSerial = 2
  Hooks <- OneHook
  MaxAdds = 1
  MaxRemovals = 0
  MaxResigns = 0
  MaxHangups = 0
  Panics = {"unwind", "abort"}
SPECIFICATION Spec
INVARIANTS
  RejectedNotPublished
CHECK_DEADLOCK FALSE
