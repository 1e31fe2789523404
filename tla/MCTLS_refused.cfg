\* Two threads, fairly scheduled, and clones that are refused.
SPECIFICATION TLSFairSpec
CONSTANTS
  Threads = {t1, t2}
  MaxSlots = 2
  PageSize = 3
  MaxPages = 4
  Sizes = {5}
  Requests <- InsideRequests
  Values = {0, 1}
  EmptyWrites = FALSE
  Overlap <- Serialised
  NoThread = NoThread
  NoStorage = NoStorage
PROPERTIES ClonesReturn
CHECK_DEADLOCK FALSE
