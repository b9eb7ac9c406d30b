CONSTANTS
  Zones = {"a", "b"}
  FileZones = {"a"}
  MaxSerial = 1
  Hooks <- NoneAndTwoHooks
  MaxAdds = 3
  MaxRemovals = 1
  MaxResigns = 1
  MaxHangups = 0
  Panics = {"unwind", "abort"}
SPECIFICATION Spec
INVARIANTS
  TypeOK
  ApprovalSettled
  AnnouncedOnce
  PublishedPassedReview
  PoisonNeedsRemoval
PROPERTIES
  KeepsPromises
CHECK_DEADLOCK FALSE
