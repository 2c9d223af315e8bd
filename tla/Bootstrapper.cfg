SPECIFICATION FairSpec
CONSTANTS
  GraniteWorkerId = "worker"
  RuntimeIds = {"cudart", "cublas"}
  MaxFiles = 4
  FormatVersion = 1
  Manifest <- MCManifest
  Devices <- MCDevices
  Floor = 86
  Weights = 3
  Shortcuts = {"ctrl-alt-p", "ctrl-alt-d"}
  FirstShortcut = "ctrl-alt-p"
  Executable <- MCExecutable
  MaxLaunches = 1
  MaxFaults = 1
INVARIANTS
  SetupIsSound
  SetupDataIsSound
PROPERTIES
  StampIsWrittenLast
  WizardSettles
CHECK_DEADLOCK FALSE
