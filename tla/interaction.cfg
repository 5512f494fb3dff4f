SPECIFICATION Spec
CONSTANTS
  Durations <- MCDurations
  Slack = 1
  mWaitMs = 1
  mMinDurationMs = 2
  mMaxDurationMs = 4
  Calls = 4
INVARIANTS
  NoStaleAbort
  HintMatchesState
PROPERTIES
  BoostKept
  BoostEnds
  ExitReturns
