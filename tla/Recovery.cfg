SPECIFICATION Spec
CONSTANTS
    SourceFiles = {settings, preset}
    Settings = settings
    Contents = {c1, c2}
    Choices <- MCChoices
    Absent = Absent
    Own = Own
    MaxWrites = 2
    MaxCommits = 2
    MaxTroubles = 2
SYMMETRY Symmetry
INVARIANTS
  MaintenanceIsSound
PROPERTIES
  RestoredIsTheBackup
CHECK_DEADLOCK FALSE
