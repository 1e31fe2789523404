\* Two threads that share their pages and read at the same time.
SPECIFICATION TLSSpec
CONSTANTS
  Threads = {t1, t2}
  MaxSlots = 2
  PageSize = 3
  MaxPages = 4
  Sizes = {5}
  Requests <- SomeRequests
  Values = {0, 1}
  EmptyWrites = FALSE
  Overlap <- ReadersOverlap
  NoThread = NoThread
  NoStorage = NoStorage
PROPERTIES CallsSurvive
CHECK_DEADLOCK FALSE
