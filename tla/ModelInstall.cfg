SPECIFICATION FairSpec
CONSTANTS
    f1 = f1
    f2 = f2
    RequiredFiles <- MCRequiredFiles
    ArchiveFile = archive
    Total = 3
    CheckpointUnits = 2
    MaximumRetries = 1
    Pinned = pinned
    Other = other
    NoFile = NoFile
    NoTag = NoTag
    NoMeta = NoMeta
    Absent = Absent
    MaximumEntries = 3
    MaximumRatio = 2
    MaxRuns = 3
    MaxFaults = 2
INVARIANTS
  StoreIsSound
  ResumeIsOfOneVersion
  PacksInstallWhole
PROPERTIES
  StoreSpec
  StoreOperationsEnd
CHECK_DEADLOCK FALSE
