SPECIFICATION Spec
CONSTANTS
  NumPackets = 2
  NumEvents = 2
  Build = "mobile"
  TimerProcs <- AllTimers
  Frames <- AllFrames
  Rules <- AnyRules
INVARIANTS TypeOK SingleOwner
PROPERTIES LifeSpec LeakOnlyKnown
CHECK_DEADLOCK FALSE
