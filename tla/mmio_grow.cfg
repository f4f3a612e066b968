SPECIFICATION FairSpec
CONSTANTS
    Junk = Junk
    NULL = NULL
    NoThread = NoThread
    Ckpt = Ckpt
    Threads = {t1, t2}
    Entries = {1, 2, 3, 4}
    LogSize = 2
    MaxBlocks = 2
    InitSize = 2
    DefaultMmap = 2
    BasicMmap = 2
    Requests <- Growing
    EpochMod = 8
    MaxCalls = 3
    EagerReuse = FALSE
    MayMove = TRUE
INVARIANTS MappedWrites SizeCoversWrites
PROPERTIES CallsReturn LogsReclaimed
