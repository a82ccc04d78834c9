CONSTANTS
  Partitions = {p1, p2}
  Offsets <- MCOffsets
SPECIFICATION Spec
INVARIANTS
  CursorIsLongestPrefix
  ReturnedNeverPassesUnfinished
  ReturnedIncreases
