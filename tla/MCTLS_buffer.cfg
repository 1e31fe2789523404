\* Two threads, and a read that ends a byte before a page boundary.
SPECIFICATION TLSSpec
CONSTANTS
  Threads = {t1, t2}
  MaxSlots = 2
  PageSize = 3
  MaxPages = 4
  Sizes = {5}
  Requests <- SomeRequests
  Values = {0, 1}
  EmptyWrites = FALSE
  Overlap <- Serialised
  NoThread = NoThread
  NoStorage = NoStorage
INVARIANTS ReadStaysInBuffer
CHECK_DEADLOCK FALSE
