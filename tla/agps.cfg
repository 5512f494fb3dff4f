SPECIFICATION Spec
CONSTANTS
  Handles = {h1, h2}
  Offers <- MCOffers
  Budget <- MCBudget
  MaxQueue = 2
INVARIANTS
  SubscribersMatchState
  GrantsMatchState
  AcquiredMeansConnected
PROPERTIES
  RequestsAnswered
  ReleasesAnswered
CHECK_DEADLOCK FALSE
