CONSTANTS
  o1 = o1
  o2 = o2
  b1 = b1
  b2 = b2
  w1 = w1
  w2 = w2
  Candidates <- MessagesOfTwoObjects
  Curves <- LightCurves
  Late <- LateCurves
  Bundles = {b1, b2}
  Workers = {w1, w2}
  Serves <- BundleOf
  First = b1
  NoTask = NoTask
  MaxFaults = 1
SPECIFICATION FairSpec
INVARIANTS
  SourceIsStored
  EveryResultCanBeStored
  OnlyCurvesAndBundlesRejected
PROPERTY EveryCandidateSettles
