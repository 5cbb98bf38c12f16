SPECIFICATION Spec
CONSTANTS
  NumPackets = 3
  NumEvents = 3
  Build = "sink"
  TimerProcs <- SendTimers
  Frames <- SinkFrames
  Rules <- AnyRules
PROPERTIES LeakOnlyKnown
CHECK_DEADLOCK FALSE
