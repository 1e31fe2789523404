\* Two mutexes, three threads.
SPECIFICATION Spec
CONSTANTS
  MaxThreads = 3
  Labels <- AllLabels
  AlarmPoints <- SafePoints
  NoCtx = NoCtx
  NoCall = NoCall
  Mutexes = {m1, m2}
  InitWhileLocking = FALSE
  Barriers = {}
  Counts = {2}
  MaxBarrierInits = 0
  TouchInUse = FALSE
INVARIANTS MutualExclusion HeldIsInUse
