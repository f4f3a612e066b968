SPECIFICATION Spec
CONSTANTS
  LogSize = 5
  Val = {1, 2}
  Junk = Junk
  Policy = "REDO"
  EpochMod = 8
  MaxEpoch = 2
  Requests <- AllWrites
  Rewrites = TRUE
  NULL = NULL
INVARIANTS TypeOK LogFilled ReadExactButTail
PROPERTY FailureAtomic
