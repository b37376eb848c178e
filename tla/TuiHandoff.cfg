SPECIFICATION FairSpec
CONSTANTS
    Main = main
    Joined = {play}
    Detached = {watcher}
    Nobody = nobody
    Kinds = {"draw", "redraw"}
    MaxCalls = 1
    MaxResizes = 1
    MaxSigints = 1
CHECK_DEADLOCK FALSE
INVARIANTS
    TypeInvariant
    UndisturbedHandoff
    UndisturbedSlot
PROPERTIES
    SubmitReturns
    RedrawHappens
    FinalizeReturns
