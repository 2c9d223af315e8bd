SPECIFICATION Spec
CONSTANTS
  MaxSessions = 3
  Mode = "hands_free"
  Capacity = 2
  MaxCancels = 0
  MaxRetries = 0
  Environment = {"ceiling", "device_fault", "empty_text", "exclusive"}
INVARIANTS
  DeliveredInOrder
  OneDictationAtATime
CHECK_DEADLOCK FALSE
