CONSTANTS
  p1 = p1
  p2 = p2
  a = a
  b = b
  NoOwner = NoOwner
  NoPartition = NoPartition
  Workers = {w1, w2}
  Partitions = {p1, p2}
  Lanes = {a, b}
  Log <- TwoPartitions
  MaxFaults = 1
SPECIFICATION FetchFairSpec
PROPERTIES
  Implements
  RebalanceUnblocked
  StableGroupCommits
