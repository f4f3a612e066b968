SPECIFICATION Spec
CONSTANTS
    Threads = {t1, t2}
    NULL = NULL
    Inos = {i1, i2}
    Fds = {0, 1, 2}
    Mmios = {m1, m2}
    Modes = {"rd", "rw"}
    DefaultMmap = 1
    BasicMmap = 2
    MaxSize = 2
    SerialOpens = TRUE
    FreshStat = TRUE
SYMMETRY Symmetry
INVARIANTS TypeOK UseLive RefCounts FdConsistent PosInFile NothingCutOff
CHECK_DEADLOCK FALSE
