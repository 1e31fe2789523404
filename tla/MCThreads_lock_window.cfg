\* The signal between finding a mutex free and taking it.
SPECIFICATION Spec
CONSTANTS
  MaxThreads = 3
  Labels <- AllLabels
  AlarmPoints <- LockPoints
  NoCtx = NoCtx
  NoCall = NoCall
  Mutexes = {m1}
  InitWhileLocking = FALSE
  Barriers = {}
  Counts = {2}
  MaxBarrierInits = 0
  TouchInUse = FALSE
INVARIANT MutualExclusion
