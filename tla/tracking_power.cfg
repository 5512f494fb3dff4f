SPECIFICATION Spec
CONSTANTS
  c1 = c1
  c2 = c2
  Clients = {c1}
  NoClient = NoClient
  NoOptions = NoOptions
  MaxSessions = 3
  Requests <- PowerRequests
  MinInterval = 1
  DistanceSupported = TRUE
  TrackingCbs = {TRUE}
  MayFail = FALSE
  Patient = FALSE
  Budget <- ThreeCommands
  MaxQueue = 2
INVARIANTS
  EnginePowerServesSessions
\* All clients may be gone and all queues empty.
CHECK_DEADLOCK FALSE
