SPECIFICATION Spec
CONSTANTS
  c1 = c1
  c2 = c2
  Clients = {c1, c2}
  NoClient = NoClient
  NoOptions = NoOptions
  MaxSessions = 2
  Requests <- CrossingRequests
  MinInterval = 1
  DistanceSupported = TRUE
  TrackingCbs = {TRUE}
  MayFail = FALSE
  Patient = FALSE
  Budget <- ResetBudget
  MaxQueue = 1
SYMMETRY Symmetry
INVARIANTS
  SessionsAreServed
  EngineOffWhenIdle
  StoppedStaysStopped
  RemovedLeavesNothing
\* All clients may be gone and all queues empty.
CHECK_DEADLOCK FALSE
