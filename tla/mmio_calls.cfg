SPECIFICATION Spec
CONSTANTS
    Junk = Junk
    NULL = NULL
    NoThread = NoThread
    Ckpt = Ckpt
    Threads = {t1, t2}
    Entries = {1, 2, 3, 4, 5}
    LogSize = 2
    MaxBlocks = 2
    InitSize = 4
    DefaultMmap = 4
    BasicMmap = 4
    Requests <- Calls
    EpochMod = 8
    MaxCalls = 4
    EagerReuse = FALSE
    MayMove = FALSE
SYMMETRY ThreadSymmetry
INVARIANTS TypeOK LockedEntries NoLockLeft NoNullEntry OnePlace
PROPERTIES Linearizable FailureAtomic
