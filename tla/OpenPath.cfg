SPECIFICATION FairSpec
CONSTANTS
  s = s
  l = l
  r = r
  e = e
  Nodes = {s, l, r, e}
  Sink = s
  Paths <- CrossPaths
  NumRules = 2
  MaxOpens = 3
  Cost <- CrossCost
  NoData = NoData
INVARIANTS NoLoop WayToSink
PROPERTIES DataEnds
