\* Busy user code: is every thread scheduled?
SPECIFICATION SchedFairSpec
CONSTANTS
  MaxThreads = 3
  Labels <- SchedLabels
  AlarmPoints <- QuietPoints
  NoCtx = NoCtx
PROPERTY EveryThreadRuns
