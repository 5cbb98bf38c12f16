SPECIFICATION FairSpec
CONSTANTS
  NumPackets = 2
  NumEvents = 11
  Build = "node"
  TimerProcs <- SendTimers
  Frames <- LiveFrames
  Rules <- LiveRules
INVARIANTS NoLeak QueueBound ActivationExact
PROPERTIES BlockReturns KeepsTicking
