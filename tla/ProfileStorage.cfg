SPECIFICATION Spec
CONSTANTS
    Terms = {t1}
    LogLimit = 1
    NoSettings = NoSettings
    MaxDictations = 2
    MaxJobs = 2
    MaxLaunches = 3
    MaxFaults = 1
    MaxKills = 1
    MaxDamage = 1
INVARIANTS
  MemoryMatchesDisk
PROPERTIES
  LoadedProfileWasSaved
  StoredWithConsent
CHECK_DEADLOCK FALSE
