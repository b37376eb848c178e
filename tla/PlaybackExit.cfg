SPECIFICATION Spec
CONSTANTS
    Count = 1
    Repeats = {"none"}
    MaxPlays = 2
    MaxSigints = 0
CHECK_DEADLOCK FALSE
INVARIANT NoCallbackAfterDestroy
