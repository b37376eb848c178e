SPECIFICATION FairSpec
CONSTANTS
    Sizes = {0, 1, 2, 3, 5, 6}
    Counts = {1, 2, 3}
    Tail = 2
    Chunk = 2
    Word = 16
INVARIANTS
    TypeInvariant
    SavesWholeContent
PROPERTIES
    ReadsOnlyReceived
    ImplementsFile
    EveryCallReturns
CHECK_DEADLOCK FALSE
