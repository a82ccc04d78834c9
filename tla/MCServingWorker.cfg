CONSTANTS
  Kinds = {"asyncWorker", "classifierWorker", "resultWriter", "orchestrator"}
  MaximumComputeCurrentEpochs = 3
  Curves <- ThreeCurves
  Answers <- TwelveAndThreeAnswers
  Models <- ServedModels
  Manifests <- Files
  Bundle = "b"
  Orders <- TwoOrders
  NoJob = NoJob
  NoAnswer = NoAnswer
  MaxFaults = 1
SPECIFICATION FairSpec
INVARIANTS
  StoredIsTheModelsAnswer
  CleanExitOnlyOnSignal
  EveryClientClosedOnce
PROPERTY ServiceStops
