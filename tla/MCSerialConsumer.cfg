CONSTANTS
  p1 = p1
  a = a
  NoOwner = NoOwner
  Workers = {w1, w2}
  Partitions = {p1}
  Lanes = {a}
  Log <- TwoRecords
  MaxFaults = 2
SPECIFICATION SerialFairSpec
PROPERTIES
  Implements
  RebalanceUnblocked
  EveryRecordCommitted
