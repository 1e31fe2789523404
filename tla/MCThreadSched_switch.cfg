\* The signal between naming the next thread and saving the running one.
SPECIFICATION SchedSpec
CONSTANTS
  MaxThreads = 3
  Labels <- SchedLabels
  AlarmPoints <- SwitchPoints
  NoCtx = NoCtx
INVARIANT OwnContextSaved
