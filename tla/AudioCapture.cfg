CONSTANTS
    Slots = 2
    BlockFrames = 2
    PreRoll = 1
    Plans <- MCPlans
    Callbacks = {0, 1, 3}
    MaxFrames = 5
SPECIFICATION FairSpec
INVARIANTS
  LossIsKnown
  UtteranceIsSpoken
  AudioRulesHold
PROPERTIES
  CaptureEnds
