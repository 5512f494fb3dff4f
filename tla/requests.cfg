SPECIFICATION Spec
CONSTANTS
  odcpi = odcpi
  other = other
  LocTimers <- BothTimers
  NoTimer = NoTimer
  OdcpiTimer = odcpi
  MaxDelegates = 3
  MaxDelay = 2
  MaxLate = 0
  Heaps <- Trees
  NoHeap <- NoTree
  Members <- Data
  InOrder <- CheckTree
  HeapPush <- Push
  HeapPop <- Pop
  HeapRemove <- Remove
  Delay = 2
  OtherDelays = {1}
  Budgets <- ThreeOrTwoAndOne
  MaxQueue = 2
  MaxRequests = 2
  NiKinds <- SomeKinds
  NiConfigs <- WithAndWithoutLock
INVARIANTS
  DelegatesAccounted
  SoonestArmed
  ActiveIsTimed
  NiDataOwned
  AnswerIsUsers
PROPERTIES
  ActiveRenewed
  EmergencyHeard
  NiSettled
\* All requests may be dealt with and no timer running.
CHECK_DEADLOCK FALSE
