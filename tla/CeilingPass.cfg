SPECIFICATION Spec
CONSTANTS
  MaxChunks = 3
  Ceiling = 3
  Spare = 1
INVARIANTS CeilingIsAligned
CHECK_DEADLOCK FALSE
