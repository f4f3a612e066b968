SPECIFICATION Spec
CONSTANTS
  LogSize = 3
  Val = {1, 2}
  Junk = Junk
  Policy = "UNDO"
  EpochMod = 8
  MaxEpoch = 2
  Requests <- AllWrites
  Rewrites = TRUE
  NULL = NULL
PROPERTY FailureAtomic
