SPECIFICATION Spec
CONSTANTS
  n0 = n0
  n1 = n1
  n2 = n2
  n3 = n3
  Nodes = {n0, n1, n2, n3}
  Sink = n0
  Links <- Kite
  Rssi = {1}
  MaxDistance = 2
  PacketTTL = 4
  MaxTTL = 4
  ResetPeriod = 0
  ByteMod = 8
  Broadcast = Broadcast
  NoReport = NoReport
  MaxInFlight = 1
  MaxReboots = 0
INVARIANTS TypeOK ParentNearer NoCycle Rooted TtlSuffices
PROPERTIES HopsNeverGrow
