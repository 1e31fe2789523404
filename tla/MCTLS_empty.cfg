\* Two threads, and writes of length 0.
SPECIFICATION TLSSpec
CONSTANTS
  Threads = {t1, t2}
  MaxSlots = 2
  PageSize = 3
  MaxPages = 4
  Sizes = {5}
  Requests <- EmptyRequests
  Values = {0, 1}
  EmptyWrites = TRUE
  Overlap <- Serialised
  NoThread = NoThread
  NoStorage = NoStorage
PROPERTIES EmptyWritesSurvive
CHECK_DEADLOCK FALSE
