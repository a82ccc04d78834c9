CONSTANTS
  w1 = w1
  w2 = w2
  o1 = o1
  r1 = r1
  r2 = r2
  r3 = r3
  j1 = j1
  j2 = j2
  j3 = j3
  Writers = {w1, w2}
  Results <- ResultsOfOneObject
  NoResult = NoResult
  MaxFaults = 2
SPECIFICATION FairSpec
INVARIANTS
  CurrentIsNewest
  SettledIsDurable
  DeadLetteredForCause
PROPERTIES
  CurrentNeverMovesBack
  EveryResultSettles
