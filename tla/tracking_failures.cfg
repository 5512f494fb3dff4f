SPECIFICATION Spec
CONSTANTS
  c1 = c1
  c2 = c2
  Clients = {c1}
  NoClient = NoClient
  NoOptions = NoOptions
  MaxSessions = 2
  Requests <- AllRequests
  MinInterval = 1
  DistanceSupported = TRUE
  TrackingCbs = {TRUE, FALSE}
  MayFail = TRUE
  Patient = FALSE
  Budget <- FailureBudget
  MaxQueue = 1
INVARIANTS
  PowerMatchesSessions
  AnswersMatchCommands
PROPERTIES
  CommandsAnswered
\* All clients may be gone and all queues empty.
CHECK_DEADLOCK FALSE
