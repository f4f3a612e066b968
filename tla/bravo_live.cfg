SPECIFICATION FairSpec
CONSTANTS
  Threads = {1, 2}
  Locks = {"m1"}
  NrEntries = 4
  Hash <- PrivateSlots
  StoreBuffering = TRUE
  MaxReaders = 3
  NoThread = NoThread
  NULL = NULL
PROPERTIES RevocationEnds ReadReturns
