SPECIFICATION Spec
CONSTANTS
  c1 = c1
  c2 = c2
  Clients = {c1}
  NoClient = NoClient
  NoOptions = NoOptions
  MaxSessions = 2
  Requests <- MixedRequests
  MinInterval = 1
  DistanceSupported = TRUE
  TrackingCbs = {TRUE, FALSE}
  MayFail = FALSE
  Patient = TRUE
  Budget <- SwitchingBudget
  MaxQueue = 2
INVARIANTS
  NoDistanceBeforeCapabilities
  EngineServesDistance
\* All clients may be gone and all queues empty.
CHECK_DEADLOCK FALSE
