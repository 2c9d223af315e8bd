SPECIFICATION Spec
CONSTANTS
  MaxSessions = 2
  Mode = "push_to_talk"
  Capacity = 2
  MaxCancels = 1
  MaxRetries = 0
  Environment = {"ceiling", "device_fault", "empty_text", "exclusive", "late_stop", "untimely"}
INVARIANTS
  MicrophoneExclusive
  RetainedIsNewest
  CancelledCaptureIsDropped
  ArbiterMatchesSlot
CHECK_DEADLOCK FALSE
