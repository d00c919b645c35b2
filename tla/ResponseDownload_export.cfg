SPECIFICATION FairTabSpec
CONSTANTS
    None = None
    Histories <- MCHistories
    numWorkers = 2
    pageSize = 2
INVARIANTS
    ExportCorrect
PROPERTIES
    BrowsedInOrder
    DownloadEnds
CHECK_DEADLOCK FALSE
