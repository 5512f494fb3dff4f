SPECIFICATION UnderHalSpec
CONSTANTS
  c1 = c1
  Clients = {c1}
  MaxSessions = 2
  Plain <- OneMode
  Trips = {}
  Width = 2
  MaxCommands = 3
  MaxRefusals = 0
  MaxResets = 0
  MaxQueue = 2
INVARIANTS
  ResponsesMatchCommands
CHECK_DEADLOCK FALSE
