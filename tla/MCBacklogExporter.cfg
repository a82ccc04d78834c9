CONSTANTS
  p1 = p1
  p2 = p2
  Partitions = {p1, p2}
  Initial = {p1}
  MaxOffset <- TwoAndOne
  MaxFaults = 1
SPECIFICATION FairSpec
INVARIANT LagBracketsTruth
PROPERTIES
  LagBecomesTrue
  ExporterStops
