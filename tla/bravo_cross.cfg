SPECIFICATION Spec
CONSTANTS
  Threads = {1, 2}
  Locks = {"m1", "m2"}
  NrEntries = 4
  Hash <- OneSlot
  StoreBuffering = FALSE
  MaxReaders = 3
  NoThread = NoThread
  NULL = NULL
INVARIANTS Exclusion
CHECK_DEADLOCK FALSE
