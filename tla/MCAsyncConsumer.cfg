CONSTANTS
  p1 = p1
  a = a
  b = b
  NoOwner = NoOwner
  Workers = {w1, w2}
  Partitions = {p1}
  Lanes = {a, b}
  Log <- OnePartition
  Concurrency = 2
  MaxFaults = 1
SPECIFICATION FairSpec
INVARIANTS
  SessionNeverSkips
  NoConcurrentDuplicate
  FinishedPrefixIsCommitted
PROPERTIES
  Implements
  RebalanceUnblocked
  EverythingCommitted
