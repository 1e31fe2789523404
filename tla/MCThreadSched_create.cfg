\* The signal between claiming an id and initialising its thread.
SPECIFICATION SchedSpec
CONSTANTS
  MaxThreads = 3
  Labels <- SchedLabels
  AlarmPoints <- CreatePoints
  NoCtx = NoCtx
INVARIANT ContextIntegrity
