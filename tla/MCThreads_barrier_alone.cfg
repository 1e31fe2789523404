\* A thread that waits when no other thread can run.
SPECIFICATION Spec
CONSTANTS
  MaxThreads = 3
  Labels <- AllLabels
  AlarmPoints <- SafePoints
  NoCtx = NoCtx
  NoCall = NoCall
  Mutexes = {}
  InitWhileLocking = FALSE
  Barriers = {b1}
  Counts = {2}
  MaxBarrierInits = 2
  TouchInUse = FALSE
INVARIANT WaitsForParty
