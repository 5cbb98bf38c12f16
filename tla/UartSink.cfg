SPECIFICATION Spec
CONSTANTS
  NumPackets = 2
  BufferSize = 3
  Bytes = {0, 2, 3}
  Frames <- TwoFrames
INVARIANTS InStep WaitingIntact
CHECK_DEADLOCK FALSE
