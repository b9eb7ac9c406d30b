CONSTANTS
  Zones = {"a"}
  FileZones = {}
  MaxSerial = 1
  Hooks <- OneHook
  MaxAdds = 1
  MaxRemovals = 1
  MaxResigns = 0
  MaxHangups = 0
  Panics = {"abort"}
SPECIFICATION Spec
INVARIANTS
  StateNeverPoisoned
CHECK_DEADLOCK FALSE
