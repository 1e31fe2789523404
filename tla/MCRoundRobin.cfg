\* The thread library with the signal outside its critical windows and finite
\* user code.
SPECIFICATION RRFiniteSpec
CONSTANTS
  MaxThreads = 4
  Labels <- SchedLabels
  AlarmPoints <- QuietPoints
  NoCtx = NoCtx
INVARIANTS SchedTypeOK ContextIntegrity BoundedWait
PROPERTY EveryThreadRuns
