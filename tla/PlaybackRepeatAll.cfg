SPECIFICATION Spec
CONSTANTS
    Count = 2
    Repeats = {"none", "all"}
    MaxPlays = 2
    MaxSigints = 0
CHECK_DEADLOCK FALSE
INVARIANT CurrentTrackInList
