SPECIFICATION Spec
CONSTANTS
  Tables <- AllTables
  Packets <- AllPackets
  Size = 10
  NumStatus = 2
  Stray = {0, 1, 255}
  MaxDepth = 5
  MaxPackets = 3
INVARIANTS GivenOnce NoRuleTwice ReadsInside
CHECK_DEADLOCK FALSE
