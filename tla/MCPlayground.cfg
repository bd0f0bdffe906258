SPECIFICATION PlaygroundSpec
CONSTANTS
  Sources <- MCSources
  InitialSource = "wallet"
  Contracts <- MCContracts
  Facts <- MCFacts
  HistoryLimit = 2
  WatchLimit = 1
  MaxGestures = 3
  None = None
  WorkerSources <- MCWorkerSources
  WorkerRequests <- MCWorkerRequests
INVARIANT
  PageIsTruthful
PROPERTIES
  TestsLeaveManualSession
  PlaygroundSettles
  DeploymentIsHonest
CHECK_DEADLOCK FALSE
