\* The signal between finding a free id and claiming it.
SPECIFICATION SchedSpec
CONSTANTS
  MaxThreads = 3
  Labels <- SchedLabels
  AlarmPoints <- PickPoints
  NoCtx = NoCtx
PROPERTY OnlyExitFreesId
