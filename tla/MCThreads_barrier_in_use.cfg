\* A barrier destroyed or initialised again while threads wait on it.
SPECIFICATION Spec
CONSTANTS
  MaxThreads = 3
  Labels <- AllLabels
  AlarmPoints <- SafePoints
  NoCtx = NoCtx
  NoCall = NoCall
  Mutexes = {}
  InitWhileLocking = FALSE
  Barriers = {b1}
  Counts = {2}
  MaxBarrierInits = 2
  TouchInUse = TRUE
INVARIANT BlockedIsReleasable
