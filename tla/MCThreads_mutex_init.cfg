\* A mutex is initialised while others are locked.
SPECIFICATION Spec
CONSTANTS
  MaxThreads = 3
  Labels <- AllLabels
  AlarmPoints <- SafePoints
  NoCtx = NoCtx
  NoCall = NoCall
  Mutexes = {m1, m2}
  InitWhileLocking = TRUE
  Barriers = {}
  Counts = {2}
  MaxBarrierInits = 0
  TouchInUse = FALSE
INVARIANT MutualExclusion
