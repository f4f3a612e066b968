SPECIFICATION Spec
CONSTANTS
  Threads = {1, 2, 3}
  Locks = {"m1"}
  NrEntries = 6
  Hash <- PrivateSlots
  StoreBuffering = FALSE
  MaxReaders = 3
  NoThread = NoThread
  NULL = NULL
INVARIANTS TypeOK Exclusion NothingLeaks
PROPERTY ImplementsRWLock
