\* The parts stop by themselves: a description is done, all runs or redraws are made.
CHECK_DEADLOCK FALSE
SPECIFICATION PartsSpec
CONSTANTS
    Length = 340
    Gaps = {0, 1, 2}
    Lens = {2, 3}
    Unknown = Unknown
    \* Two tracks of the Stream, one bookmark, a list of another user.
    NStream = 2
    Saved = 1
    User = 1
    Streamable = {1}
    MaxLists = 3
    MaxBlocks = 3
    MaxCount = 2
    Names <- MCNames
    Listview = {1, 2}
    Typed = {"a", " "}
    BufferSize = 4
    Height = 2
    NUL = "NUL"
    Commands <- MCCommands
    Words <- MCWords
    Keys = {"F1", "F2"}
    Opens = {4}
    Closes = {1}
    MaxLines = 3
    \* Two users, one page of scrolling, two changes of the subscriptions.
    NUsers = 2
    NUrls = 2
    GotoLimit = 2
    MaxPos = 1
    MaxWins = 6
    MaxSubs = 2
    \* The main and the play thread set the title, the screen is redrawn twice.
    Writers = {"main", "player"}
    Main = "main"
    MaxTitles = 4
    MaxRedraws = 2
    MaxCommands = 3
    \* A mixer of twelve steps, changed by 1 and by 50 percent.
    Steps = 12
    Deltas = {1, 50}
    Supported = TRUE
    MaxExternals = 2
    \* A track a page, so that the tracks of a user need several pages.
    PageLimit = 1
    MaxTracks <- MCTracks
    MaxTime = 3
    MaxRuns = 3
INVARIANTS
    DescriptionFits
    PartsTypeInvariant
    
    InputLineKept
    KeysRunLines
    BoxKept
    TitleCounted
    FlagsKept
    ShowsVolume
    
PROPERTIES
    NeverLouder
