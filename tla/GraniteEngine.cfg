SPECIFICATION FairSpec
CONSTANTS
  MaxChunks = 2
  Chunks = 1
  Workers = {p1, p2}
  Warmers = {w1, w2}
  MaximumCrashes = 2
  MaxFrame = 3
  MaxPushSamples = 16000
  MaxCommands = 2
  MaxFaults = 1
  Machines <- MCMachines
INVARIANTS
  StatusIsTrue
  PassIsWhole
  DeliveredIsWhole
PROPERTIES
  CallsReturn
CHECK_DEADLOCK FALSE
