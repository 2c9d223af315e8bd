SPECIFICATION FairSpec
CONSTANTS
  MaxSessions = 2
  Mode = "toggle"
  Capacity = 2
  MaxCancels = 0
  MaxRetries = 1
  Environment = {"ceiling", "device_fault", "empty_text", "late_stop"}
INVARIANTS
  PassHoldsLease
PROPERTIES
  StopIsFollowedThrough
  OperationIsReleased
  FinishingEnds
  CapturedIsTranscribed
CHECK_DEADLOCK FALSE
