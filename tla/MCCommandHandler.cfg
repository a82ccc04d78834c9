CONSTANTS
  Commands = {c1, c2}
  MaxFaults = 3
SPECIFICATION FairSpec
INVARIANTS
  NilMeansDurable
  GaugesAreTrue
PROPERTY EveryCommandReturns
