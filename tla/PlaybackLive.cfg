SPECIFICATION FairSpec
CONSTANTS
    Count = 1
    Repeats = {"none", "one"}
    MaxPlays = 2
    MaxSigints = 1
CHECK_DEADLOCK FALSE
PROPERTIES
    StopIsAnswered
    ExitJoinsPlayer
