\* The signal between emptying new_set and filling it.
SPECIFICATION Spec
CONSTANTS
  MaxThreads = 3
  Labels <- AllLabels
  AlarmPoints <- FillPoints
  NoCtx = NoCtx
  NoCall = NoCall
  Mutexes = {m1}
  InitWhileLocking = FALSE
  Barriers = {}
  Counts = {2}
  MaxBarrierInits = 0
  TouchInUse = FALSE
INVARIANT CriticalSectionMasked
