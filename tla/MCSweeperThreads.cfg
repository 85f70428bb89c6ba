SPECIFICATION FairSpec
CONSTANTS
    Threads = 2
    Pages <- MCPages
    Concurrent = TRUE
INVARIANTS
    EachPageOnce
    QuietWhileMarking
    UnsweptAccounted
PROPERTIES
    WaitsReturn
