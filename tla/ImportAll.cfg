SPECIFICATION FairSpec
CONSTANTS
    r = r
    a = a
    b = b
    Root = r
    File <- MCFile
    Item <- MCItem
    Programs <- MCPrograms
    MaxThreads = 6
INVARIANTS StreamsInOrder FilesKnown ReceivedOnce HeadersSinceLastImport ErrorsNotLost FlatImportsComplete UsedConstsKept
PROPERTIES Terminates
CHECK_DEADLOCK FALSE
