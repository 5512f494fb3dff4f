SPECIFICATION EitherSpec
CONSTANTS
  c1 = c1
  Clients = {c1}
  MaxSessions = 3
  Plain <- PlainModes
  Trips <- TwoTrips
  Width = 8
  MaxCommands = 5
  MaxRefusals = 1
  MaxResets = 1
  MaxQueue = 2
INVARIANTS
  BatchFullRegistered
  SessionsBatched
  RunningCanBeStopped
CHECK_DEADLOCK FALSE
