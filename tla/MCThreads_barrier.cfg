\* A barrier of two, initialised twice, and destroyed, with finite user code.
SPECIFICATION FairSpec
CONSTANTS
  MaxThreads = 3
  Labels <- AllLabels
  AlarmPoints <- SafePoints
  NoCtx = NoCtx
  NoCall = NoCall
  Mutexes = {}
  InitWhileLocking = FALSE
  Barriers = {b1}
  Counts = {2}
  MaxBarrierInits = 2
  TouchInUse = FALSE
INVARIANTS ContextIntegrity WithinCapacity ReturnsReleased BlockedIsReleasable
PROPERTY ReleasedThreadReturns
