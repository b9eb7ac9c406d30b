CONSTANTS
  Zones = {"a"}
  FileZones = {}
  MaxSerial = 2
  Hooks <- OneHook
  MaxAdds = 1
  MaxRemovals = 0
  MaxResigns = 1
  MaxHangups = 0
  Panics = {"unwind", "abort"}
SPECIFICATION Spec
PROPERTIES
  PublishedNeverGoesBack
CHECK_DEADLOCK FALSE
