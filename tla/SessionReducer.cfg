SPECIFICATION ReducerSpec
CONSTANTS
  SessionIds = {s1, s2}
  Producers = {p1, p2, p3}
  MaxSource = 3
  MaximumProducers = 2
  SequenceLimit = 4
  None = None
INVARIANTS
  SequenceCountsEvents
PROPERTIES
  EndedSessionsAreInert
CHECK_DEADLOCK FALSE
