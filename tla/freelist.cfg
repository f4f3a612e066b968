SPECIFICATION Spec
CONSTANTS
    Threads = {t1, t2}
    Unit = 2
    Batches = 3
    MaxSkipNodes = 2
SYMMETRY ThreadSymmetry
INVARIANTS TypeOK OnePlace WholeBatches EndsOnlyWhenShort
CHECK_DEADLOCK FALSE
