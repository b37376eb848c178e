SPECIFICATION FairSpec
CONSTANTS
    Main = main
    Others = {play}
    Workers = {w1, w2}
    Downloads = {d1, d2, d3}
    Lengths = {0, 1}
    NULL = NULL
CHECK_DEADLOCK FALSE
INVARIANTS
    TypeInvariant
    
PROPERTIES
    EveryDownloadTaken
    FinalizeReturns
    ImplementsQueue
