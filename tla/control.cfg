SPECIFICATION Spec
CONSTANTS
  SimLocks <- NoLockOrBoth
  BootLocks <- DefaultLock
  MaxCalls = 4
  LockResets = 1
  MaxLockQueue = 3
  xtra = xtra
  plugin = plugin
  network = network
  tac = tac
  v1 = v1
  v2 = v2
  Watchers <- BothWatchers
  Callers <- OnlyPlugin
  Items <- TwoItems
  SubItems <- Subscribed
  ReqItems <- OnceAsked
  Values <- TwoValues
  NoValue = NoValue
  WatchCalls = 3
  MaxChanges = 2
  MaxOsQueue = 2
  Sources <- TwoSources
  NoSource <- Cleared
  MaxDaemons = 1
  MaxStatus = 2
  MaxDgnss = 6
INVARIANTS
  LockFollows
  SwitchSettles
  SubscriptionsMirrored
  ObserversInformed
  SourceFollows
SYMMETRY AnyValue
\* All calls may have been made and all queues be empty.
CHECK_DEADLOCK FALSE
