SPECIFICATION FairSpec
CONSTANTS
    Threads = {t1, t2}
    NULL = NULL
    PageCells = 2
    NrLogSizes = 2
    NrTables = 8
    MaxOff = 11
    Requests <- Lookups
    SameRegion = TRUE
    MaxCalls = 4
INVARIANTS TypeOK OneLog Findable SizeFits
PROPERTIES TablesStable LookupsReturn
CHECK_DEADLOCK FALSE
