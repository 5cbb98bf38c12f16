SPECIFICATION Spec
CONSTANTS
  n0 = n0
  n1 = n1
  n2 = n2
  n3 = n3
  Nodes = {n0, n1, n2}
  Sink = n0
  Links <- Line
  Rssi = {1}
  MaxDistance = 2
  PacketTTL = 3
  MaxTTL = 3
  ResetPeriod = 0
  ByteMod = 5
  Broadcast = Broadcast
  NoReport = NoReport
  MaxInFlight = 1
  MaxReboots = 1
INVARIANTS HopsHonest
