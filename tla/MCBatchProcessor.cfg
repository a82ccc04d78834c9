CONSTANTS
  p1 = p1
  p2 = p2
  a = a
  b = b
  NoKey = NoKey
  Partitions = {p1, p2}
  Keys = {a, b}
  Offsets <- MCOffsets
  Batches <- MCBatches
SPECIFICATION FairSpec
INVARIANTS
  CommitsLongestPrefix
  CountsCommittedRecords
  NoHandlerOutlivesBatch
  NilErrorMeansWholeBatch
  SameKeyInPollOrder
PROPERTIES
  CancelledBatchReturns
