SPECIFICATION Spec
CONSTANTS
  c1 = c1
  c2 = c2
  Clients = {c1, c2}
  NoClient = NoClient
  MaxFences = 2
  MaxHw = 5
  AddMasks <- EnterOnly
  ModifyMasks <- Both
  MaxBatch = 2
  MaxCommands = 3
  Scenarios <- Mishaps
  MaxQueue = 1
SYMMETRY ClientSymmetry
INVARIANTS
  FencesMirrored
  AnsweredOnce
  BreachesReachOwner
  AnswersHold
  AnswersReachRequests
CHECK_DEADLOCK FALSE
