SPECIFICATION Spec
CONSTANTS
  PLD_INDEX = 4
  MaxPayload = 10
  Neighbors <- FourNeighbors
  Rssi = {50, 60}
  Hops = 2
  CountMod = 2
INVARIANTS TableIsHeard ReportHonest RequestWhole
