SPECIFICATION FairSpec
CONSTANTS
    Dictations = 2
    Moves = 1
    InspectQueue = 1
    CommitQueue = 1
    ClipboardQueue = 2
    WriterSpawned = TRUE
INVARIANTS
  ReportedIsDone
  CommitIsGuarded
  SensitiveStaysOut
  RewritingIsSafe
PROPERTIES
  DeliveryEnds
CHECK_DEADLOCK FALSE
