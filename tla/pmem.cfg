SPECIFICATION Spec
CONSTANTS
    LogSize = 3
    Val = {1, 2}
    Junk = Junk
    Policies = {"UNDO", "REDO"}
    MaxEpoch = 2
    Requests <- AllWrites
INVARIANTS TypeOK  
CHECK_DEADLOCK FALSE
