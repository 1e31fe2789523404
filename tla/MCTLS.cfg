\* Three threads, storages of up to two pages, clients that serialise.
SPECIFICATION TLSSpec
CONSTANTS
  Threads = {t1, t2, t3}
  MaxSlots = 2
  PageSize = 3
  MaxPages = 4
  Sizes = {5}
  Requests <- SomeRequests
  Values = {0, 1}
  EmptyWrites = TRUE
  Overlap <- Serialised
  NoThread = NoThread
  NoStorage = NoStorage
INVARIANTS TLSTypeOK ReferenceCountsExact PagesSealed ReadReturnsContents
PROPERTIES IsPrivateMemory CallsSurvive
SYMMETRY ThreadSymmetry
CHECK_DEADLOCK FALSE
