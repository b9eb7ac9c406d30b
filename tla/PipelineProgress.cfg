CONSTANTS
  Zones = {"a"}
  FileZones = {}
  MaxSerial = 3
  Hooks <- OneHook
  MaxAdds = 1
  MaxRemovals = 0
  MaxResigns = 0
  MaxHangups = 1
  Panics = {"unwind", "abort"}
SPECIFICATION FairSpec
INVARIANTS
  ApprovalSettled
  AnnouncedOnce
  PublishedPassedReview
PROPERTIES
  PublishedNeverGoesBack
  ApprovedIsPublished
  KeepsPromises
CHECK_DEADLOCK FALSE
