\* Three threads and one mutex, with finite user code.
SPECIFICATION FairSpec
CONSTANTS
  MaxThreads = 3
  Labels <- AllLabels
  AlarmPoints <- SafePoints
  NoCtx = NoCtx
  NoCall = NoCall
  Mutexes = {m1}
  InitWhileLocking = FALSE
  Barriers = {}
  Counts = {2}
  MaxBarrierInits = 0
  TouchInUse = FALSE
INVARIANT TypeOK
PROPERTY FreeMutexIsTaken
